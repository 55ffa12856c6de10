------------------------------- MODULE Promotion -------------------------------
(***************************************************************************)
(* Promotion: how a staged page becomes a judgment of the corpus.  A fetch *)
(* job commits a page and asks the chain for a run.  Runs go one at a      *)
(* time, under a session-level advisory lock; a run gives every            *)
(* quarantined page a review item, releases pages that were held for want  *)
(* of a citation, takes a batch of extracted pages and decides and commits *)
(* them one by one.  Reviewers decide the quarantined pages, outside the   *)
(* lock.                                                                   *)
(*                                                                         *)
(* A page is what the decision depends on: where it comes from, the        *)
(* citations it names, its text, its case (court, docket and date, when    *)
(* all three are known), and what the screens say of it.  A judgment goes  *)
(* by the page that created it; the pages of one citation are taken to be  *)
(* of one case.                                                            *)
(* Statutes, which share the run, and the request for the mirror (module   *)
(* ArchiveMirror) are left out.                                            *)
(***************************************************************************)
EXTENDS CorpusChain

CONSTANTS
  Source, All,           \* the keys of the chain: a source's rows, and every row
  Reports,               \* PakistanLawSite, which publishes law reports and is preferred in a batch
  Job, Worker, Reviewer, None,
  Page, Info,            \* staged pages and what they are
  Arrivals,              \* the pages that arrive and their order: one of these sequences
  Limit, Reserved,       \* rows in a batch, and those of them the preferred source may fill first
  MaxItems               \* bound: review items of a page

ASSUME KeyAssumption   == Key = Source \cup {All} /\ All \notin Source
ASSUME ProcAssumption  == Proc = Job \cup Worker /\ Job \cap Worker = {} /\ Reviewer \cap Worker = {}
ASSUME NobodyAssumption == None \notin Worker \cup Page
ASSUME LimitAssumption == Limit \in Nat \ {0} /\ Reserved \in 0..Limit
Cite == UNION {{Info[r].cites[i] : i \in DOMAIN Info[r].cites} : r \in Page}

ASSUME PageAssumption  ==
  /\ IsFiniteSet(Page) /\ Arrivals \subseteq Seq(Page)
  /\ \A r \in Page : /\ Info[r].source \in Source
                     /\ Info[r].found \in {"extracted", "nocite", "low"}
                     /\ Info[r].screen \in {"sound", "page", "unfit", "invalid"}
                     /\ Info[r].cites \in Seq(Cite) /\ (Info[r].found = "nocite" => Info[r].cites = <<>>)

Actor == Worker \cup Reviewer

VARIABLES
  arrival,        \* the pages in the order in which they are staged
  status, why,    \* of a staged page; why it is, or was, in quarantine
  items,          \* how many review items the page has had
  open, judged,   \* pages whose latest item waits; pages of which a person has decided an item
  name, body,     \* of a judgment: its canonical identity, and the page whose text it holds
  benched,        \* judgments whose judges are known
  owner, links,   \* the judgment a citation belongs to; unreported and reported twins
  lock,
  pc, pin,        \* an actor's place; the source, or All, that a run takes
  batch, full,    \* the rows a run has yet to decide; did the query return as many as it may
  plan            \* the page an actor is on, the item it has opened, and what it is about to commit

staging == <<arrival, status, why, items, open, judged>>
corpus  == <<name, body, benched, owner, links>>
run     == <<lock, pin, batch, full>>
vars    == <<staging, corpus, run, pc, plan, requests, faults>>

Judgment == {j \in Page : name[j] # <<>>}
NoPlan   == [row |-> None, item |-> 0, do |-> "", of |-> None, why |-> "", name |-> <<>>, twin |-> {}]

TypeOK ==
  /\ RequestsTypeOK
  /\ arrival \in Seq(Page)
  /\ status \in [Page -> {"none", "extracted", "quarantined", "promoted", "duplicate", "failed"}]
  /\ why \in [Page -> {"", "low", "page", "nocite", "held", "conflict", "belongs", "invalid", "error"}]
  /\ items \in [Page -> Nat] /\ open \subseteq Page /\ judged \subseteq Page
  /\ body \in [Page -> Page \cup {None}] /\ owner \in [Cite -> Page \cup {None}]
  /\ benched \subseteq Page /\ links \subseteq Page \X Page
  /\ lock \in Worker \cup {None}
  /\ pc \in [Actor -> {"idle", "release", "select", "rows", "commit", "unlock", "review"}]
  /\ pin \in [Worker -> Key] /\ batch \in [Worker -> SUBSET Page] /\ full \in [Worker -> BOOLEAN]
  /\ \A a \in Actor : plan[a].row \in Page \cup {None} /\ plan[a].of \in Page \cup {None}
  /\ \A w \in Worker : pc[w] # "idle" <=> lock = w
  /\ \A j \in Page : (name[j] # <<>>) <=> (body[j] # None)

Init ==
  /\ RequestsInit
  /\ arrival \in Arrivals
  /\ status = [r \in Page |-> "none"] /\ why = [r \in Page |-> ""]
  /\ items = [r \in Page |-> 0] /\ open = {} /\ judged = {}
  /\ name = [r \in Page |-> <<>>] /\ body = [r \in Page |-> None] /\ benched = {}
  /\ owner = [c \in Cite |-> None] /\ links = {}
  /\ lock = None /\ pc = [a \in Actor |-> "idle"]
  /\ pin = [w \in Worker |-> All] /\ batch = [w \in Worker |-> {}] /\ full = [w \in Worker |-> FALSE]
  /\ plan = [a \in Actor |-> NoPlan]
--------------------------------------------------------------------------------
At(a, l)   == pc[a] = l
Goto(a, l) == pc' = [pc EXCEPT ![a] = l]

Pinned(k, r) == k \in {All, Info[r].source}
Pending(k)   == {r \in Page : status[r] = "extracted" /\ Pinned(k, r)}
Older(r, s)  == \E i, j \in DOMAIN arrival : i < j /\ arrival[i] = r /\ arrival[j] = s
--------------------------------------------------------------------------------
(* What a page is to the corpus as it stands (promote_judgment_staging). *)

Unreported(r) == Info[r].cites = <<>>
Named(n)      == {j \in Judgment : name[j] = n}
Holding(t)    == {j \in Judgment : Info[body[j]].text = t}
SameCase(j, r) == Info[r].case # None /\ Info[j].case = Info[r].case

\* A reported judgment goes by its first citation; an unreported one by its case, by case and text
\* when another order in the case has that name, and by its text alone when the case is not known.
\* PakistanLawSite's pages have one citation of their own.
CanonicalName(r) ==
  LET n == <<Info[r].source, Info[r].case>>
  IN IF ~Unreported(r) THEN <<Info[r].cites[1]>>
     ELSE IF Info[r].case = None THEN <<Info[r].source, Info[r].text>>
     ELSE IF Named(n) \subseteq Holding(Info[r].text) THEN n ELSE Append(n, Info[r].text)

Namesake(r)  == Named(CanonicalName(r))
SameText(r)  == Holding(Info[r].text)
SameOrder(r) == {j \in SameText(r) : SameCase(j, r)}

\* The unreported judgment that a reported page turns out to be.
Twin(r) == {j \in SameOrder(r) : Namesake(r) = {} /\ Unreported(j) /\ ~Unreported(r)}

\* The judgment that already has the page's citation as one of its own.
Holder(r) == IF Unreported(r) THEN {} ELSE {owner[Info[r].cites[1]]} \ {None}

\* The judgment the page is another capture of.
Known(r) ==
  IF Namesake(r) # {} THEN Namesake(r)
  ELSE IF SameOrder(r) \ Twin(r) # {} THEN SameOrder(r) \ Twin(r)
  ELSE Holder(r)

IdentityConflict(r) ==
  /\ SameText(r) # {}
  /\ IF Namesake(r) # {} THEN Namesake(r) \cap SameText(r) = {} ELSE Cardinality(SameOrder(r)) # 1

Refusal(r) ==
  IF Info[r].screen = "page" THEN "page"
  ELSE IF Unreported(r) /\ Info[r].source = Reports THEN "nocite"
  ELSE IF Unreported(r) /\ Info[r].screen = "unfit" THEN "held"
  ELSE IF IdentityConflict(r) THEN "conflict"
  ELSE IF Namesake(r) = {} /\ Known(r) # {} /\ Known(r) \cap SameText(r) = {} THEN "belongs"
  ELSE IF Known(r) = {} /\ Info[r].screen = "invalid" THEN "invalid"
  ELSE ""

\* A judgment is complete when its text is whole and its judges are known.
Complete(j) == Info[body[j]].whole /\ j \in benched

\* The page has the longer text, or names the judges of a judgment that names none.
Fuller(r, j) == Info[r].size > Info[body[j]].size \/ (j \notin benched /\ Info[r].judges)

\* The text differs, so the page is fuller.
Upgrades_AnyText(r, j) ==
  /\ Info[r].source = Reports /\ Info[j].source = Reports /\ j \in Namesake(r)
  /\ j \notin SameText(r)

\* A fuller capture replaces the text of an incomplete judgment of the same report.
Upgrades(r, j) ==
  /\ Info[r].source = Reports /\ Info[j].source = Reports /\ j \in Namesake(r)
  /\ j \notin SameText(r) /\ ~Complete(j) /\ Fuller(r, j)

\* What is to be done with page r, of which review item i is open or none (0).
Verdict(r, i) ==
  LET known   == Known(r)
      refusal == Refusal(r)
      j       == IF known = {} THEN None ELSE CHOOSE k \in known : TRUE
  IN [row |-> r, item |-> i, of |-> j, why |-> refusal, name |-> CanonicalName(r), twin |-> Twin(r),
      do |-> IF refusal # "" THEN "refuse"
             ELSE IF known = {} THEN "save"
             ELSE IF Upgrades(r, j) THEN "upgrade" ELSE "same"]
--------------------------------------------------------------------------------
(* The fetch job. *)

\* The page that comes next.
ComesNext(r) == \E i \in DOMAIN arrival : /\ arrival[i] = r /\ status[r] = "none"
                                      /\ \A k \in 1..(i - 1) : status[arrival[k]] # "none"

\* The page is asked for before it is committed.
Commit_AsksFirst(j) ==
  \E r \in Page :
    /\ ComesNext(r) /\ Info[r].found = "extracted"
    /\ \/ Quiet(j) /\ AskFor(j, <<Info[r].source>>) /\ UNCHANGED status
       \/ status' = [status EXCEPT ![r] = "extracted"] /\ UNCHANGED asks
    /\ UNCHANGED <<arrival, why, items, open, judged, corpus, run, pc, plan, key, due, faults>>

\* A page is committed as extracted, and its source asked for, or as quarantined.
Commit(j) ==
  \E r \in Page :
    /\ ComesNext(r) /\ Quiet(j)
    /\ IF Info[r].found = "extracted"
       THEN /\ status' = [status EXCEPT ![r] = "extracted"] /\ AskFor(j, <<Info[r].source>>)
            /\ UNCHANGED why
       ELSE /\ status' = [status EXCEPT ![r] = "quarantined"]
            /\ why' = [why EXCEPT ![r] = Info[r].found] /\ UNCHANGED asks
    /\ UNCHANGED <<arrival, items, open, judged, corpus, run, pc, plan, key, due, faults>>
--------------------------------------------------------------------------------
(* A promotion run. *)

\* A page that has had an item gets no other.
NewItems_Once(R, waiting) ==
  /\ items' = [r \in Page |-> IF r \in R /\ items[r] = 0 THEN 1 ELSE items[r]]
  /\ open' = waiting \cup {r \in R : items[r] = 0}

\* The pages of the set R get a review item, unless one waits already (_quarantine).
NewItems(R, waiting) ==
  /\ items' = [r \in Page |-> IF r \in R \ waiting THEN items[r] + 1 ELSE items[r]]
  /\ open' = waiting \cup R

\* What a run starts with: quarantined pages without an item get one; the pages held for want of a
\* citation are read.
Start(w, k) ==
  /\ Goto(w, "release") /\ pin' = [pin EXCEPT ![w] = k]
  /\ NewItems({r \in Page : status[r] = "quarantined" /\ items[r] = 0}, open)
  /\ batch' = [batch EXCEPT ![w] = {r \in Page :
       /\ status[r] = "quarantined" /\ why[r] = "nocite"
       /\ Info[r].source # Reports /\ Pinned(k, r)}]

\* A worker takes a task; which of those that are free makes no difference.
Free(w)     == At(w, "idle") /\ Quiet(w)
Ready(w, k) == Free(w) /\ w = (CHOOSE x \in Worker : Free(x)) /\ k \in due /\ due' = due \ {k}

\* Two runs at a time.
BeginPromotion_NoLock(w, k) ==
  /\ Ready(w, k) /\ Start(w, k)
  /\ UNCHANGED <<arrival, status, why, judged, corpus, key, asks, lock, full, plan, faults>>

\* One run at a time; a second one asks for a follow-up and ends.
BeginPromotion(w, k) ==
  /\ Ready(w, k)
  /\ \/ lock = None /\ lock' = w /\ Start(w, k) /\ UNCHANGED asks
     \/ lock # None /\ AskFor(w, <<k>>) /\ UNCHANGED <<lock, pc, pin, items, open, batch>>
  /\ UNCHANGED <<arrival, status, why, judged, corpus, key, full, plan, faults>>

\* release_unreported: those that can stand without one go back to extracted and their items close;
\* the others stay held with that reason.
Release(w) ==
  LET kept == {r \in batch[w] : Info[r].screen = "unfit"}
      free == batch[w] \ kept
  IN
  /\ At(w, "release") /\ Goto(w, "select") /\ batch' = [batch EXCEPT ![w] = {}]
  /\ status' = [r \in Page |-> IF r \in free THEN "extracted" ELSE status[r]]
  /\ why' = [r \in Page |-> IF r \in kept THEN "held" ELSE IF r \in free THEN "" ELSE why[r]]
  /\ open' = open \ free
  /\ UNCHANGED <<arrival, items, judged, corpus, lock, pin, full, plan, requests, faults>>

\* T are the n oldest pages of the set S, or all of it when it has fewer.
Oldest(T, n, S) ==
  /\ T \subseteq S /\ Cardinality(T) = IF Cardinality(S) < n THEN Cardinality(S) ELSE n
  /\ \A r \in T, s \in S \ T : Older(r, s)

\* What waits for the run; what of it comes first when the run is not pinned to a source.
Waiting(w)   == Pending(pin[w])
Preferred(w) == {r \in Waiting(w) : pin[w] = All /\ Info[r].source = Reports}

SelectBatch(w) ==
  /\ At(w, "select") /\ Goto(w, "rows")
  /\ \E P \in SUBSET Preferred(w) : \E Q \in SUBSET (Waiting(w) \ P) :
       /\ Oldest(P, Reserved, Preferred(w)) /\ Oldest(Q, Limit - Cardinality(P), Waiting(w) \ P)
       /\ batch' = [batch EXCEPT ![w] = P \cup Q]
       /\ full' = [full EXCEPT ![w] = Cardinality(P \cup Q) >= Limit]
  /\ UNCHANGED <<staging, corpus, lock, pin, plan, requests, faults>>

\* The next row of a source; which source comes first is left open.
Decide(w) ==
  \E r \in batch[w] :
    /\ At(w, "rows") /\ Goto(w, "commit")
    /\ \A s \in batch[w] : Info[s].source = Info[r].source => ~Older(s, r)
    /\ batch' = [batch EXCEPT ![w] = @ \ {r}] /\ plan' = [plan EXCEPT ![w] = Verdict(r, 0)]
    /\ UNCHANGED <<staging, corpus, lock, pin, full, requests, faults>>

\* The unique constraints of judgment: the citation, and case and text of reported and of
\* unreported judgments.
Collides(v) ==
  \/ v.do = "save" /\ Named(v.name) # {}
  \/ /\ v.do \in {"save", "upgrade"}
     /\ \E j \in SameOrder(v.row) \ {v.of} : Unreported(j) <=> Unreported(v.row)

\* The page's citations that nobody has go to judgment j.
Cited(r) == {Info[r].cites[i] : i \in DOMAIN Info[r].cites}
Attach(r, j) == owner' = [c \in Cite |-> IF c \in Cited(r) /\ owner[c] = None THEN j ELSE owner[c]]

\* The page's judges, when it names any, become those of judgment j.
Benches(r, j) == IF Info[r].judges THEN {j} ELSE {}

\* Earlier captures of the same report that are in quarantine, unless on the merits.
Superseded(r) ==
  {s \in Page \ {r} : /\ status[s] = "quarantined" /\ why[s] # "belongs"
                      /\ Info[s].source = Info[r].source
                      /\ ~Unreported(r) /\ ~Unreported(s) /\ Info[s].cites[1] = Info[r].cites[1]}

\* The page and its superseded captures are settled.
Settle(r, outcome, waiting) ==
  /\ status' = [s \in Page |-> IF s = r THEN outcome
                               ELSE IF s \in Superseded(r) THEN "duplicate" ELSE status[s]]
  /\ open' = waiting \ Superseded(r)
  /\ UNCHANGED <<why, items>>

\* What is decided on a page is written; waiting are the pages whose review item is open.
Apply(v, waiting) ==
  LET r == v.row IN
  \/ /\ v.do = "refuse" /\ NewItems({r}, waiting)
     /\ status' = [status EXCEPT ![r] = "quarantined"] /\ why' = [why EXCEPT ![r] = v.why]
     /\ UNCHANGED corpus
  \/ /\ v.do = "same" /\ Settle(r, "duplicate", waiting)
     /\ Attach(r, v.of) /\ UNCHANGED <<name, body, benched, links>>
  \/ /\ v.do = "upgrade" /\ Settle(r, "promoted", waiting)
     /\ body' = [body EXCEPT ![v.of] = r] /\ benched' = benched \cup Benches(r, v.of)
     /\ Attach(r, v.of) /\ UNCHANGED <<name, links>>
  \/ /\ v.do = "save" /\ Settle(r, "promoted", waiting)
     /\ name' = [name EXCEPT ![r] = v.name] /\ body' = [body EXCEPT ![r] = r]
     /\ benched' = benched \cup Benches(r, r)
     /\ Attach(r, r) /\ links' = links \cup (v.twin \X {r})

Decided(a, l) == Goto(a, l) /\ plan' = [plan EXCEPT ![a] = NoPlan]

CommitRow(w) ==
  /\ At(w, "commit") /\ ~Collides(plan[w])
  /\ Apply(plan[w], open) /\ Decided(w, "rows")
  /\ UNCHANGED <<arrival, judged, run, requests, faults>>

\* The connection goes back to its pool with the session's lock.
Leave_KeepsLock(w) == /\ Decided(w, "idle") /\ pin' = [pin EXCEPT ![w] = All] /\ UNCHANGED lock
                      /\ batch' = [batch EXCEPT ![w] = {}] /\ full' = [full EXCEPT ![w] = FALSE]

\* The run ends and lets go of the lock.
Leave(w) == /\ lock' = IF lock = w THEN None ELSE lock
            /\ Decided(w, "idle") /\ pin' = [pin EXCEPT ![w] = All]
            /\ batch' = [batch EXCEPT ![w] = {}] /\ full' = [full EXCEPT ![w] = FALSE]

\* The row raises, and its transaction is rolled back.  The handler puts it in quarantine; but a
\* rollback expires what the session has read, and then the handler fails as well and the run ends.
RowRaises(w) ==
  /\ At(w, "commit") /\ (IF Collides(plan[w]) THEN UNCHANGED faults ELSE Fault)
  /\ \/ /\ Decided(w, "rows") /\ NewItems({plan[w].row}, open)
        /\ status' = [status EXCEPT ![plan[w].row] = "quarantined"]
        /\ why' = [why EXCEPT ![plan[w].row] = "error"] /\ UNCHANGED run
     \/ Leave(w) /\ UNCHANGED <<status, why, items, open>>
  /\ UNCHANGED <<arrival, judged, corpus, requests>>

\* A run that took as many rows as it may asks for the next before it lets go of the lock.
AskForNext(w) ==
  /\ At(w, "rows") /\ batch[w] = {} /\ full[w] /\ Goto(w, "unlock")
  /\ AskFor(w, <<pin[w]>>)
  /\ UNCHANGED <<staging, corpus, run, plan, key, due, faults>>

EndPromotion(w) ==
  /\ \/ At(w, "unlock") /\ Quiet(w)
     \/ At(w, "rows") /\ batch[w] = {} /\ ~full[w]
  /\ Leave(w)
  /\ UNCHANGED <<staging, corpus, requests, faults>>
--------------------------------------------------------------------------------
(* Reviewers (routers/review.py, resolve_quarantine). *)

\* The item is read, and is not reviewed yet.
Open(v) ==
  \E r \in open :
    /\ At(v, "idle") /\ items[r] <= MaxItems /\ Goto(v, "review")
    /\ plan' = [plan EXCEPT ![v] = [NoPlan EXCEPT !.row = r, !.item = items[r]]]
    /\ UNCHANGED <<staging, corpus, run, requests, faults>>

\* What waits once the reviewer's item is closed; it may have been closed meanwhile.
StillOpen(v) == IF items[plan[v].row] = plan[v].item THEN open \ {plan[v].row} ELSE open

Reject(v) ==
  /\ At(v, "review") /\ Decided(v, "idle")
  /\ status' = [status EXCEPT ![plan[v].row] = "failed"]
  /\ judged' = judged \cup {plan[v].row} /\ open' = StillOpen(v)
  /\ UNCHANGED <<arrival, why, items, corpus, run, requests, faults>>

\* The reviewer promotes the page: it is decided as in a run.
Accept(v) ==
  /\ At(v, "review") /\ Goto(v, "commit")
  /\ plan' = [plan EXCEPT ![v] = Verdict(plan[v].row, plan[v].item)]
  /\ UNCHANGED <<staging, corpus, run, requests, faults>>

\* A collision is the reviewer's error message.
CommitReview(v) ==
  /\ At(v, "commit") /\ Decided(v, "idle")
  /\ IF Collides(plan[v]) THEN UNCHANGED <<staging, corpus>>
     ELSE /\ Apply(plan[v], StillOpen(v))
          /\ judged' = judged \cup {plan[v].row} /\ UNCHANGED arrival
  /\ UNCHANGED <<run, requests, faults>>
--------------------------------------------------------------------------------
(* Dead processes. *)

JobDies(j) ==
  /\ DiesAsking(j) /\ Fault
  /\ UNCHANGED <<staging, corpus, run, pc, plan, due>>

\* A worker dies; its connection closes and the lock is free.  The task of a run comes again when
\* the whole worker was lost, and is lost when its process was killed alone.
WorkerDies(w) ==
  /\ Fault
  /\ \/ DiesAsking(w) /\ UNCHANGED due
     \/ ~At(w, "idle") /\ Quiet(w) /\ due' \in {due, due \cup {pin[w]}} /\ UNCHANGED <<key, asks>>
  /\ Leave(w)
  /\ UNCHANGED <<staging, corpus>>
--------------------------------------------------------------------------------
OthersSame == UNCHANGED <<staging, corpus, run, pc, plan>>

Step(w) == \/ Release(w) \/ SelectBatch(w) \/ Decide(w) \/ CommitRow(w) \/ RowRaises(w)
           \/ AskForNext(w) \/ EndPromotion(w)

Next ==
  \/ \E j \in Job : Commit(j) \/ JobDies(j)
  \/ \E p \in Proc : Request(p) /\ OthersSame
  \/ \E k \in Key : Elapse(k) /\ OthersSame
  \/ Beat(All) /\ OthersSame
  \/ \E w \in Worker : (\E k \in Key : BeginPromotion(w, k)) \/ Step(w) \/ WorkerDies(w)
  \/ \E v \in Reviewer : Open(v) \/ Reject(v) \/ Accept(v) \/ CommitReview(v)

Spec == Init /\ [][Next]_vars

\* A run goes on, Beat beats, time passes.  A task that is due again and again is taken, and not
\* every time while another run holds the lock.
Fairness ==
  /\ WF_vars(Beat(All) /\ OthersSame)
  /\ WF_vars(\E w \in Worker : lock = w /\ (Step(w) \/ (Request(w) /\ OthersSame)))
  /\ SF_vars(lock = None /\ \E w \in Worker : BeginPromotion(w, All))

FairSpec == Spec /\ Fairness
--------------------------------------------------------------------------------
(* Properties. *)

\* A run under way will still find page r, or ask for the run that finds it.
InRun(r) ==
  \E w \in Worker :
    \/ r \in batch[w] \/ plan[w].row = r
    \/ /\ Pinned(pin[w], r)
       /\ pc[w] \in {"release", "select"} \/ (pc[w] \in {"rows", "commit"} /\ full[w])

\* No committed row waits for Beat (chain.py): as long as nothing fails, no process dies and no
\* reviewer has stepped in, a page that waits for promotion is asked for, or a run sees to it.
RowAskedFor ==
  faults = 0 /\ judged = {} =>
    \A r \in Pending(All) : Coming(All) \/ Coming(Info[r].source) \/ InRun(r)

\* What is in the corpus stays there: no run decides a page again, however tasks, Beat and crashes
\* overlap (promote_staging_records_exclusive), unless a reviewer has had it.
DecidedOnce ==
  [][\A r \in Page \ judged' : status[r] \in {"promoted", "duplicate"} => status'[r] = status[r]]_vars

\* No reviewer has decided a page of text t.
Untouched(t) == \A p \in judged : Info[p].text # t

\* One order of a court is one judgment, or an unreported judgment and its report, linked: for the
\* texts of which no reviewer has decided a page.  (A reviewer's decision may rest on a corpus that
\* runs have changed since, and leave two judgments of a text that the next run takes for one.)
CaseOnce ==
  \A i, j \in Judgment :
    /\ i # j /\ Info[body[i]].text = Info[body[j]].text /\ Untouched(Info[body[i]].text)
    => <<i, j>> \in links \/ <<j, i>> \in links

\* A text whose judges are known is replaced by a longer one only, another by one that is longer or
\* brings the judges; judges once known stay known, and a complete judgment is never replaced: so
\* two captures never take turns.  (Unless a reviewer had a hand in one of the two.)
NeverPoorer ==
  [][\A j \in Judgment : body'[j] # body[j] /\ {body[j], body'[j]} \cap judged' = {} =>
       /\ ~Complete(j) /\ (j \in benched => j \in benched')
       /\ \/ Info[body'[j]].size > Info[body[j]].size
          \/ j \notin benched /\ j \in benched']_vars

\* A page in quarantine is in front of a reviewer, or the next run puts it there.
QuarantineSeen == \A r \in Page : status[r] = "quarantined" => r \in open \/ items[r] = 0

\* A page that a person has rejected stays out (resolve_quarantine).
RejectionStays == [][\A r \in Page : status[r] = "failed" => status'[r] = "failed"]_vars

\* Every page that waits for promotion is promoted or refused in the end, so that, once no more
\* arrive, none waits: through lost requests, rows that raise and dead workers.
EveryRowDecided == []<>(Pending(All) = {})
================================================================================
