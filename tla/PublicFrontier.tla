----------------------------- MODULE PublicFrontier -----------------------------
(***************************************************************************)
(* The crawl frontier of one public source and the runs that drain it.     *)
(* A run opens the source's listings again, then takes the frontier rows   *)
(* that are due, fewest attempts first: it commits that it has claimed a   *)
(* row, fetches it, and commits what came of it, until its page limit or   *)
(* an explicit block.  A run that dies leaves its row in progress; the     *)
(* next claim counts the death, when the container is the one that claimed *)
(* the row, and retires the row at the third.                              *)
(*                                                                         *)
(* One run goes at a time and a due source gets its run (module            *)
(* PublicDispatch); here a pass of the dispatcher starts the run at once.  *)
(* The connectors' own reading of a listing is kept as the set of links it *)
(* finds; extraction, as that the document is staged, or refused, which    *)
(* only a statute or instrument can be.  A connector may have a _drain_one *)
(* of its own (pakistancode.py, nasirlawsite.py, legislatures.py), which   *)
(* asks again, with no limit, for a page that is answered with an HTTP     *)
(* error.                                                                  *)
(***************************************************************************)
EXTENDS Naturals, FiniteSets

CONSTANTS
  Seed, Document, None,  \* listings and documents; their frontier rows go by their names
  Links,                 \* the documents a listing names
  Poison,                \* rows that kill the worker that works on them
  Sites,                 \* what the source may be: its harvest mode, is its drain tireless, which
                         \* of its documents are statutes or instruments
  Limit,                 \* rows of one run
  Retries,               \* cooldown retries after a block; 0 without auto_retry_on_block
  Lives, Patience,       \* WORKER_DEATH_RETIRE_AFTER, PDF_MISS_RETIRE_AFTER_ATTEMPTS
  Blanks,                \* EMPTY_BODY_RETIRE_AFTER_ATTEMPTS
  MaxAttempts,           \* bound: attempts of a row that is retried without a limit are counted up to it
  MaxFaults              \* bound: deaths that are not a row's doing, deploys, blocks, robots.txt outages

Row == Seed \cup Document

ASSUME RowAssumption   == IsFiniteSet(Row) /\ None \notin Row /\ Links \in [Seed -> SUBSET Document]
ASSUME SiteAssumption  ==
  Sites \subseteq [mode : {"backfill", "updates"}, tireless : BOOLEAN, statutes : SUBSET Document]
ASSUME LimitAssumption ==
  /\ Limit \in Nat \ {0} /\ Retries \in Nat /\ Lives \in Nat \ {0} /\ Patience \in Nat
  /\ Blanks \in Nat /\ MaxAttempts \in Nat /\ MaxFaults \in Nat

VARIABLES
  status, attempts, later,  \* of a frontier row: where it is, its attempts, is its next_run_at to come
  here,                     \* rows whose latest claim was made in the present container
  staged,                   \* documents staged
  blank,                    \* of a document: has its body come empty, and first at least a day ago
  site, state, blocks,      \* of the source; the count of its block_retry
  cooling, next,            \* is the retry_at of its latest block to come; its next_scrape_at
  last,                     \* the summary of the last job: did it complete a row, was its limit reached
  pc, count,                \* the run, and the block count it read when it began
  batch, processed, cur,    \* rows it has yet to claim, rows it has claimed, the row it is on
  mem,                      \* what it is about to commit
  ended,                    \* how many runs have died on a row, up to Lives (history: the code does not keep it)
  faults

frontier == <<status, attempts, later, here, staged, blank>>
source   == <<state, blocks, cooling, next>>
run      == <<pc, count, batch, processed, cur, mem>>
vars     == <<frontier, site, source, last, run, ended, faults>>

Statuses == {"unknown", "pending", "in_progress", "done", "retired"}
NoMem    == [status |-> "pending", attempts |-> 0, later |-> FALSE, links |-> {}, text |-> {}, block |-> FALSE,
             empty |-> FALSE]

TypeOK ==
  /\ status \in [Row -> Statuses] /\ attempts \in [Row -> Nat] /\ later \in [Row -> BOOLEAN]
  /\ here \subseteq Row /\ staged \subseteq Document /\ blank \in [Document -> {"no", "young", "old"}]
  /\ site \in Sites /\ state \in {"ACTIVE", "HALTED"} /\ blocks \in 0..Retries
  /\ cooling \in BOOLEAN /\ next \in {"now", "later", "retry"}
  /\ last \in [completed : BOOLEAN, limited : BOOLEAN]
  /\ pc \in {"idle", "scan", "work", "commit", "blocked"} /\ count \in 0..Retries
  /\ batch \subseteq Row /\ processed \subseteq Row /\ cur \in Row \cup {None}
  /\ mem \in [status : Statuses, attempts : Nat, later : BOOLEAN,
              links : SUBSET Document, text : SUBSET Document, block : BOOLEAN, empty : BOOLEAN]
  /\ ended \in [Row -> 0..Lives] /\ faults \in 0..MaxFaults
  /\ pc \in {"work", "commit"} <=> cur # None
  /\ cur # None => status[cur] = "in_progress" /\ cur \in here

Init ==
  /\ status = [r \in Row |-> "unknown"] /\ attempts = [r \in Row |-> 0]
  /\ later = [r \in Row |-> FALSE] /\ here = {} /\ staged = {}
  /\ blank = [d \in Document |-> "no"]
  /\ site \in Sites /\ state = "ACTIVE" /\ blocks = 0 /\ cooling = FALSE /\ next = "now"
  /\ last = [completed |-> FALSE, limited |-> FALSE]
  /\ pc = "idle" /\ count = 0 /\ batch = {} /\ processed = {} /\ cur = None /\ mem = NoMem
  /\ ended = [r \in Row |-> 0] /\ faults = 0
--------------------------------------------------------------------------------
Fault == faults < MaxFaults /\ faults' = faults + 1

Unfinished == {r \in Row : status[r] \in {"pending", "in_progress"}}
Due        == {r \in Unfinished : ~later[r]}

\* Fewest attempts first, then by priority: listings come before documents.
Before(r, s) == attempts[r] < attempts[s] \/ (attempts[r] = attempts[s] /\ r \in Seed /\ s \in Document)

\* What the query for Limit rows may return.
Batches ==
  {B \in SUBSET Due : /\ Cardinality(B) = IF Cardinality(Due) < Limit THEN Cardinality(Due) ELSE Limit
                      /\ \A r \in B, s \in Due \ B : ~Before(s, r)}
--------------------------------------------------------------------------------
(* The run. *)

\* The dispatcher, in updates mode, does not wait for next_scrape_at when rows are unfinished and
\* the last job has completed one.
BacklogDispatch == site.mode = "updates" /\ Unfinished # {} /\ last.completed

\* A listing that is finished is opened again.
Reopened == {s \in Seed : status[s] \in {"unknown", "done", "retired"}}

\* The dispatcher's pass and the start of the run.
BeginRun ==
  /\ pc = "idle" /\ state = "ACTIVE" /\ (next = "now" \/ BacklogDispatch)
  /\ pc' = "scan" /\ count' = blocks /\ processed' = {}
  /\ next' = "later" /\ last' = [completed |-> FALSE, limited |-> FALSE]
  /\ status' = [r \in Row |-> IF r \in Reopened THEN "pending" ELSE status[r]]
  /\ attempts' = [r \in Row |-> IF r \in Reopened THEN 0 ELSE attempts[r]]
  /\ later' = [r \in Row |-> r \notin Reopened /\ later[r]]
  /\ ended' = [r \in Row |-> IF r \in Reopened THEN 0 ELSE ended[r]]
  /\ UNCHANGED <<here, staged, blank, site, state, blocks, cooling, batch, cur, mem, faults>>

\* pending: the next rows, those of this run apart.
Query ==
  /\ pc = "scan" /\ batch = {} /\ Cardinality(processed) < Limit
  /\ \E B \in Batches : B \ processed # {} /\ batch' = B \ processed
  /\ UNCHANGED <<frontier, site, source, last, pc, count, processed, cur, mem, ended, faults>>

\* The row was left by a run that died on it, and is now given up.
Died(r) == status[r] = "in_progress" /\ r \in here
Lost(r) == Died(r) /\ attempts[r] + 1 >= Lives

\* Any row left in progress counts, deployed or not.
Claim_CountsDeploys(r) ==
  LET died == status[r] = "in_progress"
      lost == died /\ attempts[r] + 1 >= Lives
  IN
  /\ pc = "scan" /\ r \in batch /\ \A s \in batch : ~Before(s, r)
  /\ batch' = batch \ {r} /\ processed' = processed \cup {r}
  /\ attempts' = [attempts EXCEPT ![r] = IF died THEN @ + 1 ELSE @]
  /\ status' = [status EXCEPT ![r] = IF lost THEN "retired" ELSE "in_progress"]
  /\ here' = here \cup {r}
  /\ pc' = IF lost THEN "scan" ELSE "work"
  /\ cur' = IF lost THEN None ELSE r
  /\ last' = IF lost THEN [last EXCEPT !.completed = TRUE] ELSE last
  /\ UNCHANGED <<later, staged, blank, site, source, count, mem, ended, faults>>

\* The row is claimed in memory alone.
Claim_Uncommitted(r) ==
  /\ pc = "scan" /\ r \in batch /\ \A s \in batch : ~Before(s, r)
  /\ batch' = batch \ {r} /\ processed' = processed \cup {r}
  /\ pc' = "work" /\ cur' = r
  /\ UNCHANGED <<frontier, site, source, last, count, mem, ended, faults>>

\* _claim, committed before the work starts.  Only a death in the container that claimed the row counts.
Claim(r) ==
  /\ pc = "scan" /\ r \in batch /\ \A s \in batch : ~Before(s, r)
  /\ batch' = batch \ {r} /\ processed' = processed \cup {r}
  /\ attempts' = [attempts EXCEPT ![r] = IF Died(r) THEN @ + 1 ELSE @]
  /\ status' = [status EXCEPT ![r] = IF Lost(r) THEN "retired" ELSE "in_progress"]
  /\ here' = here \cup {r}
  /\ pc' = IF Lost(r) THEN "scan" ELSE "work"
  /\ cur' = IF Lost(r) THEN None ELSE r
  /\ last' = IF Lost(r) THEN [last EXCEPT !.completed = TRUE] ELSE last
  /\ UNCHANGED <<later, staged, blank, site, source, count, mem, ended, faults>>

\* The work on the row comes to something that is not yet committed.
ComesTo(m) ==
  /\ pc = "work" /\ cur \notin Poison
  /\ pc' = "commit" /\ mem' = m
  /\ UNCHANGED <<frontier, site, source, last, count, batch, processed, cur, ended>>

\* The row goes on with n attempts, to be tried again (later) or not.
Result(s, n, w, L, T) == [status |-> s, attempts |-> n, later |-> w, links |-> L, text |-> T,
                          block |-> FALSE, empty |-> FALSE]
Ends(s)     == Result(s, attempts[cur] + 1, FALSE, {}, {})
Waits(w, n) == Result(IF attempts[cur] + 1 >= n THEN "retired" ELSE "pending", attempts[cur] + 1, w, {}, {})

\* The attempts of a row that is retried without a limit.
Counted == IF attempts[cur] < MaxAttempts THEN attempts[cur] + 1 ELSE attempts[cur]

\* What reading the row gives: the listing's links, the document's text.
Found(r) == Result("done", attempts[cur] + 1, FALSE,
                   IF r \in Seed THEN Links[r] ELSE {}, IF r \in Document THEN {r} ELSE {})

\* The row is marked done first.
Fetch_DoneFirst ==
  /\ pc = "work" /\ cur \notin Poison
  /\ status' = [status EXCEPT ![cur] = "done"]
  /\ pc' = "commit"
  /\ mem' = Found(cur)
  /\ UNCHANGED <<attempts, later, here, staged, blank, site, source, last, count, batch, processed, cur,
                 ended, faults>>

\* A listing is read and its links are enqueued; a document is staged.
Fetch == ComesTo(Found(cur)) /\ UNCHANGED faults

\* A scanned image, or a page that is no statute: nothing is staged, and the row is done
\* (ingest_statute).
Discard == cur \in site.statutes /\ ComesTo(Ends("done")) /\ UNCHANGED faults

\* A page that is gone, needs a login, or is none the source may be asked for.
Refuse == ComesTo(Ends("retired")) /\ UNCHANGED faults

\* A server error or a body that is no judgment: again later, and at last no more.
Defer == ComesTo(Waits(TRUE, Patience)) /\ UNCHANGED faults

\* An HTTP error, where the drain is the connector's own: again, and always again.
Insist == site.tireless /\ ComesTo(Result("pending", Counted, FALSE, {}, {})) /\ UNCHANGED faults

\* An empty body: again later, until it has come often enough and was first seen long enough ago.
Empty ==
  LET ends == attempts[cur] + 1 >= Blanks /\ blank[cur] = "old"
  IN
  /\ cur \in Document \ site.statutes
  /\ ComesTo([Result(IF ends THEN "retired" ELSE "pending", Counted, TRUE, {}, {}) EXCEPT !.empty = TRUE])
  /\ UNCHANGED faults

\* Any other exception.
Fail == ComesTo(Waits(FALSE, 3)) /\ UNCHANGED faults

\* robots.txt is not to be had: no attempt is spent.
NoRobots == ComesTo(Result("pending", attempts[cur], FALSE, {}, {})) /\ Fault

Block == ComesTo([Ends("pending") EXCEPT !.block = TRUE]) /\ Fault

\* halt: a cooldown and another try, when the source has any left; else a person decides.
Halt_KeepsSchedule ==
  IF count < Retries
    THEN blocks' = count + 1 /\ cooling' = TRUE /\ UNCHANGED <<state, next>>
    ELSE state' = "HALTED" /\ UNCHANGED <<blocks, cooling, next>>

Halt ==
  IF count < Retries
    THEN blocks' = count + 1 /\ cooling' = TRUE /\ next' = "retry" /\ UNCHANGED state
    ELSE state' = "HALTED" /\ UNCHANGED <<blocks, cooling, next>>

\* One step of the frontier is committed, with all that came of it.
CommitRow ==
  /\ pc = "commit"
  /\ status' = [r \in Row |-> IF r = cur THEN mem.status
                              ELSE IF r \in mem.links /\ status[r] = "unknown" THEN "pending" ELSE status[r]]
  /\ attempts' = [attempts EXCEPT ![cur] = mem.attempts]
  /\ later' = [later EXCEPT ![cur] = mem.later]
  /\ staged' = staged \cup mem.text
  /\ blank' = IF mem.empty /\ blank[cur] = "no" THEN [blank EXCEPT ![cur] = "young"] ELSE blank
  /\ IF mem.block THEN Halt ELSE UNCHANGED source
  /\ last' = IF mem.status \in {"done", "retired"} THEN [last EXCEPT !.completed = TRUE] ELSE last
  /\ pc' = IF mem.block THEN "blocked" ELSE "scan"
  /\ batch' = IF mem.block THEN {} ELSE batch
  /\ cur' = None /\ mem' = NoMem
  /\ UNCHANGED <<here, site, count, processed, ended, faults>>

AtLimit == Cardinality(processed) = Limit

\* What a run knew is gone.
Forget == pc' = "idle" /\ count' = 0 /\ batch' = {} /\ processed' = {} /\ cur' = None /\ mem' = NoMem

\* The run is over.  One that met no block clears the block count, and one that stopped at its limit
\* with a row completed and rows left asks for the next.
EndRun ==
  /\ \/ pc = "blocked" /\ UNCHANGED <<blocks, next, last>>
     \/ /\ pc = "scan" /\ batch = {} /\ (AtLimit \/ \A B \in Batches : B \subseteq processed)
        /\ blocks' = IF count > 0 THEN 0 ELSE blocks
        /\ next' = IF AtLimit /\ last.completed /\ Unfinished # {} THEN "now" ELSE next
        /\ last' = [last EXCEPT !.limited = AtLimit]
  /\ Forget
  /\ UNCHANGED <<frontier, site, state, cooling, ended, faults>>

\* The run dies: memory, a signal, the time limit, or a commit that fails.  What it had not committed
\* is gone, and its row stays in progress.
Dies ==
  /\ cur # None /\ ended' = [ended EXCEPT ![cur] = IF @ < Lives THEN @ + 1 ELSE @]
  /\ (pc = "work" /\ cur \in Poison /\ UNCHANGED faults) \/ Fault
  /\ Forget
  /\ UNCHANGED <<frontier, site, source, last>>

\* A deploy replaces the container, and kills the run in it.
Deploy ==
  /\ Fault /\ here' = {}
  /\ Forget
  /\ UNCHANGED <<status, attempts, later, staged, blank, site, source, last, ended>>
--------------------------------------------------------------------------------
(* The surroundings. *)

\* next_scrape_at, a retry_at, or a row's next_run_at comes; where nobody looks meanwhile, it waits.
Elapse ==
  /\ pc = "idle" /\ next = "later" /\ next' = "now"
  /\ UNCHANGED <<frontier, site, state, blocks, cooling, last, run, ended, faults>>

CoolDown ==
  /\ pc = "idle" /\ cooling /\ cooling' = FALSE
  /\ next' = IF next = "retry" THEN "now" ELSE next
  /\ UNCHANGED <<frontier, site, state, blocks, last, run, ended, faults>>

RowDue(r) ==
  /\ pc \in {"idle", "scan"} /\ later[r] /\ later' = [later EXCEPT ![r] = FALSE]
  /\ UNCHANGED <<status, attempts, here, staged, blank, site, source, last, run, ended, faults>>

\* A day has passed since the document's body first came empty.
Ages(d) ==
  /\ pc = "idle" /\ blank[d] = "young" /\ blank' = [blank EXCEPT ![d] = "old"]
  /\ UNCHANGED <<status, attempts, later, here, staged, site, source, last, run, ended, faults>>

\* The administrator has looked at the block: re_enable keeps the count, retry_now clears it.
Review ==
  /\ state = "HALTED" \/ cooling
  /\ state' = "ACTIVE"
  /\ \/ blocks' = 0 /\ cooling' = FALSE /\ next' = "now"
     \/ state = "HALTED" /\ UNCHANGED <<blocks, cooling, next>>
  /\ UNCHANGED <<frontier, site, last, run, ended, faults>>
--------------------------------------------------------------------------------
Outcome == Fetch \/ Discard \/ Refuse \/ Defer \/ Insist \/ Empty \/ Fail \/ NoRobots \/ Block
Step    == Query \/ (\E r \in Row : Claim(r)) \/ CommitRow \/ EndRun

Next ==
  \/ BeginRun \/ Step \/ Outcome \/ Dies \/ Deploy
  \/ Elapse \/ CoolDown \/ Review
  \/ \E r \in Row : RowDue(r)
  \/ \E d \in Document : Ages(d)

Spec == Init /\ [][Next]_vars

\* A due source gets its run (PublicDispatch), a run goes on, well or badly, and time passes.
FairSpec ==
  /\ Spec
  /\ WF_vars(BeginRun) /\ WF_vars(Step) /\ WF_vars(Outcome \/ Dies)
  /\ WF_vars(Elapse) /\ WF_vars(CoolDown) /\ \A r \in Row : SF_vars(RowDue(r))
  /\ SF_vars(\E d \in Document : Ages(d))
--------------------------------------------------------------------------------
(* Properties. *)

\* What a frontier row says is done has been done, whatever run died in between ("The truth for
\* progress", models.py): the listing's links are in the frontier, the judgment is staged.  (A statute
\* or instrument may be done without being staged.)
DoneIsDone ==
  \A r \in Row \ site.statutes : status[r] = "done" =>
    IF r \in Document THEN r \in staged ELSE \A d \in Links[r] : status[d] # "unknown"

\* A row is given up as deadly only if a run died on it in the container that had claimed it:
\* deploys say nothing about the row (_claim).
DeadlyRowKilled ==
  [][\A r \in Row : cur # r /\ status[r] = "in_progress" /\ status'[r] = "retired" => ended[r] > 0]_vars

\* After an explicit block nothing is fetched until the cooldown is over or a person has looked at it
\* (halt: "source paused for cooldown retry"); in updates mode this fails (see CooldownKept).
BlockObeyed == site.mode = "backfill" /\ pc = "work" => state = "ACTIVE" /\ ~cooling

\* Every document in the frontier is done or given up, unless the source is halted, though rows kill
\* the worker again and again, listings come back at every run, the site fails and bodies come empty:
\* for the sources that are drained by the common _drain_one.
EveryDocumentSettles ==
  []<>(site.tireless \/ state = "HALTED"
       \/ \A d \in Document : status[d] \in {"unknown", "done", "retired"})

\* What the notification of a block says: the source is paused until retry_at.
CooldownKept == [][pc = "idle" /\ pc' = "scan" => ~cooling]_vars

\* What PUBLIC_BACKLOG_CONTINUE_SECONDS is described to do: a run follows at once only on one that
\* stopped at its page limit (as long as nothing has failed).
SoonOnlyAtLimit == [][pc = "idle" /\ pc' = "scan" => next = "now" \/ last.limited \/ faults > 0]_vars

\* What the message of a row given up as deadly says: the worker has died on it Lives times.
DeathsCounted ==
  [][\A r \in Row : cur # r /\ status[r] = "in_progress" /\ status'[r] = "retired" => ended[r] >= Lives]_vars
================================================================================
