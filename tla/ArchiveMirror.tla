----------------------------- MODULE ArchiveMirror -----------------------------
(***************************************************************************)
(* The archive mirror.  A promotion run saves judgments, one commit each,  *)
(* and asks the chain for a mirror run when it ends.  Mirror runs go one   *)
(* at a time, under a session-level advisory lock.  A run walks the        *)
(* targets, local disks first, within one time budget; at each it takes    *)
(* the newest judgments and the oldest that the target lacks, uploads what *)
(* is not there and commits its ledger judgment by judgment.  A run that   *)
(* leaves work behind asks for the next.                                   *)
(*                                                                         *)
(* A batched target gets a snapshot at a time: the judgments that waited   *)
(* for it when the batch opened.  The cut-off lives in Redis.              *)
(*                                                                         *)
(* A judgment's three objects are kept as one, the failures of a target    *)
(* are not counted (a run may leave it after any of them), and the order   *)
(* of the judgments is left open.                                          *)
(***************************************************************************)
EXTENDS CorpusChain

CONSTANTS
  Mirror,          \* the key of the chain's mirror requests
  Promoter,        \* promotion runs
  Worker, None,    \* processes that take mirror tasks
  Judgment,
  Target, Batched, \* archive targets, and those that receive batches
  Newest, Quota,   \* newest judgments a run looks at, backlog it takes per target
  Threshold        \* waiting judgments that open a batch at once

ASSUME MirrorAssumption  == Mirror \in Key
ASSUME ProcAssumption    == Proc = Promoter \cup Worker /\ Promoter \cap Worker = {}
ASSUME NobodyAssumption  == None \notin Worker \cup Judgment \cup Target
ASSUME ArchiveAssumption == IsFiniteSet(Judgment) /\ Batched \subseteq Target /\ Quota \in Nat /\ Newest \in Nat

VARIABLES
  saved,         \* judgments of the corpus
  unasked,       \* promotion runs that have saved something and not ended
  mirrorLock,
  pc,            \* a worker's place in a mirror run
  newest, turn,  \* the newest judgments, and the targets to go
  todo, at,      \* the judgments to go at the current target; that target, and the current judgment
  more, late,    \* more_pending and out_of_time
  copy,          \* none, stored on the target, written in the ledger too, or failed
  cutoff, old    \* a batched target's open snapshot; batched targets whose oldest has waited long

corpus  == <<saved, unasked>>
run     == <<pc, newest, turn, todo, at, more, late>>
archive == <<copy, cutoff, old>>
vars    == <<corpus, requests, mirrorLock, run, archive, faults>>

TypeOK ==
  /\ RequestsTypeOK
  /\ saved \subseteq Judgment /\ unasked \subseteq Promoter
  /\ mirrorLock \in Worker \cup {None}
  /\ pc \in [Worker -> {"idle", "walk", "put", "record"}]
  /\ newest \in [Worker -> SUBSET Judgment] /\ turn \in [Worker -> SUBSET Target]
  /\ todo \in [Worker -> SUBSET Judgment]
  /\ at \in [Worker -> [target : Target \cup {None}, row : Judgment \cup {None}]]
  /\ more \in [Worker -> BOOLEAN] /\ late \in [Worker -> BOOLEAN]
  /\ copy \in [Target -> [Judgment -> {"none", "stored", "written", "failed"}]]
  /\ cutoff \in [Batched -> SUBSET Judgment] /\ old \subseteq Batched
  /\ \A w \in Worker : pc[w] # "idle" <=> mirrorLock = w

Nowhere == [target |-> None, row |-> None]

Init ==
  /\ RequestsInit
  /\ saved = {} /\ unasked = {} /\ mirrorLock = None
  /\ pc = [w \in Worker |-> "idle"]
  /\ newest = [w \in Worker |-> {}] /\ turn = [w \in Worker |-> {}]
  /\ todo = [w \in Worker |-> {}] /\ at = [w \in Worker |-> Nowhere]
  /\ more = [w \in Worker |-> FALSE] /\ late = [w \in Worker |-> FALSE]
  /\ copy = [t \in Target |-> [r \in Judgment |-> "none"]]
  /\ cutoff = [t \in Batched |-> {}] /\ old = {}
--------------------------------------------------------------------------------
At(w, l)   == pc[w] = l
Goto(w, l) == pc' = [pc EXCEPT ![w] = l]

\* n of the set S, or all of it when it has fewer.
UpTo(n, S) == {T \in SUBSET S : Cardinality(T) = IF Cardinality(S) < n THEN Cardinality(S) ELSE n}

Lacking(t) == {r \in saved : copy[t][r] # "written"}
--------------------------------------------------------------------------------
(* The promotion run, as far as the archive is concerned. *)

\* Which judgment comes first makes no difference.
SaveJudgment(q) ==
  /\ Quiet(q) /\ saved # Judgment
  /\ saved' = saved \cup {CHOOSE r \in Judgment : r \notin saved} /\ unasked' = unasked \cup {q}
  /\ UNCHANGED <<requests, mirrorLock, run, archive, faults>>

EndPromotion(q) ==
  /\ q \in unasked /\ unasked' = unasked \ {q}
  /\ AskFor(q, <<Mirror>>)
  /\ UNCHANGED <<saved, key, due, mirrorLock, run, archive, faults>>
--------------------------------------------------------------------------------
(* The mirror run. *)

BeginMirror_NoLock(w) ==
  /\ At(w, "idle") /\ Quiet(w) /\ Mirror \in due
  /\ due' = due \ {Mirror}
  /\ Goto(w, "walk") /\ turn' = [turn EXCEPT ![w] = Target]
  /\ \E N \in UpTo(Newest, saved) : newest' = [newest EXCEPT ![w] = N]
  /\ UNCHANGED <<corpus, key, asks, mirrorLock, todo, at, more, late, archive, faults>>

\* A run that finds another in progress leaves its work to that one.
BeginMirror_NoFollowUp(w) ==
  /\ At(w, "idle") /\ Quiet(w) /\ Mirror \in due
  /\ due' = due \ {Mirror}
  /\ \/ /\ mirrorLock = None /\ mirrorLock' = w
        /\ Goto(w, "walk") /\ turn' = [turn EXCEPT ![w] = Target]
        /\ \E N \in UpTo(Newest, saved) : newest' = [newest EXCEPT ![w] = N]
     \/ mirrorLock # None /\ UNCHANGED <<mirrorLock, pc, newest, turn>>
  /\ UNCHANGED <<corpus, key, asks, todo, at, more, late, archive, faults>>

\* One run at a time; a second one asks for a follow-up and ends.
BeginMirror(w) ==
  /\ At(w, "idle") /\ Quiet(w) /\ Mirror \in due
  /\ due' = due \ {Mirror}
  /\ \/ /\ mirrorLock = None /\ mirrorLock' = w
        /\ Goto(w, "walk") /\ turn' = [turn EXCEPT ![w] = Target]
        /\ \E N \in UpTo(Newest, saved) : newest' = [newest EXCEPT ![w] = N]
        /\ UNCHANGED asks
     \/ /\ mirrorLock # None /\ AskFor(w, <<Mirror>>)
        /\ UNCHANGED <<mirrorLock, pc, newest, turn>>
  /\ UNCHANGED <<corpus, key, todo, at, more, late, archive, faults>>

\* batch_gate: an open batch is carried on; else one opens when enough waits, or has waited long.
Open(t)  == t \in Batched /\ cutoff[t] \cap Lacking(t) # {}
Opens(t) == /\ t \in Batched /\ ~Open(t) /\ Lacking(t) # {}
            /\ Cardinality(Lacking(t)) >= Threshold \/ t \in old

\* What of the corpus this run may write to the target.
Scope(t) == IF Open(t) THEN cutoff[t] ELSE saved

\* Only the newest judgments are ever looked at.
Backlog_NewestOnly(w, t) == {}

Backlog(w, t) == (Lacking(t) \cap Scope(t)) \ newest[w]

\* The run comes to a target: its newest judgments and the oldest the target lacks.
VisitTarget(w, t) ==
  /\ At(w, "walk") /\ todo[w] = {} /\ t \in turn[w] /\ (t \in Batched => turn[w] \subseteq Batched)
  /\ t \notin Batched \/ Open(t) \/ Opens(t)
  /\ cutoff' = IF Opens(t) THEN [cutoff EXCEPT ![t] = saved] ELSE cutoff
  /\ old' = IF Opens(t) THEN old \ {t} ELSE old
  /\ \E B \in UpTo(Quota, Backlog(w, t)) :
       todo' = [todo EXCEPT ![w] = IF late[w] THEN {} ELSE (newest[w] \cap Scope(t)) \cup B]
  /\ more' = [more EXCEPT ![w] = @ \/ Cardinality(Backlog(w, t)) > Quota]
  /\ at' = [at EXCEPT ![w].target = t] /\ turn' = [turn EXCEPT ![w] = @ \ {t}]
  /\ UNCHANGED <<corpus, requests, mirrorLock, pc, newest, late, copy, faults>>

\* A batched target between batches; a finished batch is closed.
PassBy(w, t) ==
  /\ At(w, "walk") /\ todo[w] = {} /\ t \in turn[w] /\ turn[w] \subseteq Batched
  /\ ~Open(t) /\ ~Opens(t)
  /\ cutoff' = [cutoff EXCEPT ![t] = {}]
  /\ turn' = [turn EXCEPT ![w] = @ \ {t}]
  /\ UNCHANGED <<corpus, requests, mirrorLock, pc, newest, todo, at, more, late, copy, old, faults>>

\* What is in the ledger is passed over without a look at the target; so nothing else is.
Pick_TrustsLedgerAlone(w, r) ==
  LET t == at[w].target IN
  /\ At(w, "walk") /\ r \in todo[w]
  /\ \/ copy[t][r] = "written" /\ todo' = [todo EXCEPT ![w] = @ \ {r}] /\ UNCHANGED <<pc, at>>
     \/ /\ copy[t][r] # "written" /\ Goto(w, "put")
        /\ at' = [at EXCEPT ![w].row = r]
        /\ UNCHANGED todo
  /\ UNCHANGED <<corpus, requests, mirrorLock, newest, turn, more, late, archive, faults>>

\* The ledger, then the target, is asked for the judgment's objects.
Pick(w, r) ==
  LET t == at[w].target IN
  /\ At(w, "walk") /\ r \in todo[w]
  /\ \/ copy[t][r] = "written" /\ todo' = [todo EXCEPT ![w] = @ \ {r}] /\ UNCHANGED <<pc, at>>
     \/ /\ copy[t][r] # "written" /\ Goto(w, IF copy[t][r] = "stored" THEN "record" ELSE "put")
        /\ at' = [at EXCEPT ![w].row = r]
        /\ UNCHANGED todo
  /\ UNCHANGED <<corpus, requests, mirrorLock, newest, turn, more, late, archive, faults>>

\* With judgment r dealt with the run goes on to the next, or leaves the target: at the fifth
\* failure, or because its time is up (the budget is long enough for one judgment).
NextJudgment(w, r) ==
  /\ Goto(w, "walk") /\ at' = [at EXCEPT ![w].row = None]
  /\ \/ todo' = [todo EXCEPT ![w] = @ \ {r}] /\ UNCHANGED late
     \/ todo' = [todo EXCEPT ![w] = {}] /\ late' = [late EXCEPT ![w] = TRUE]

\* The upload.
Put(w) ==
  LET t == at[w].target  r == at[w].row IN
  /\ At(w, "put")
  /\ \/ /\ copy' = [copy EXCEPT ![t][r] = "stored"]
        /\ Goto(w, "record") /\ UNCHANGED <<at, todo, late, faults>>
     \/ /\ Fault /\ copy' = [copy EXCEPT ![t][r] = "failed"]
        /\ \/ NextJudgment(w, r)
           \/ /\ Goto(w, "walk") /\ at' = [at EXCEPT ![w].row = None]
              /\ todo' = [todo EXCEPT ![w] = {}] /\ UNCHANGED late
  /\ UNCHANGED <<corpus, requests, mirrorLock, newest, turn, more, cutoff, old>>

\* The ledger rows are committed.
Record(w) ==
  LET t == at[w].target  r == at[w].row IN
  /\ At(w, "record")
  /\ copy' = [copy EXCEPT ![t][r] = "written"]
  /\ NextJudgment(w, r)
  /\ UNCHANGED <<corpus, requests, mirrorLock, newest, turn, more, cutoff, old, faults>>

\* What a worker knew of its run is gone.
Forget(w) ==
  /\ newest' = [newest EXCEPT ![w] = {}] /\ turn' = [turn EXCEPT ![w] = {}]
  /\ todo' = [todo EXCEPT ![w] = {}] /\ at' = [at EXCEPT ![w] = Nowhere]
  /\ more' = [more EXCEPT ![w] = FALSE] /\ late' = [late EXCEPT ![w] = FALSE]

EndMirror(w) ==
  /\ At(w, "walk") /\ todo[w] = {} /\ turn[w] = {} /\ Goto(w, "idle")
  /\ mirrorLock' = None
  /\ AskFor(w, IF late[w] \/ more[w] THEN <<Mirror>> ELSE <<>>)
  /\ Forget(w)
  /\ UNCHANGED <<corpus, key, due, archive, faults>>
--------------------------------------------------------------------------------
(* Time and failures. *)

\* The oldest judgment a batched target waits for has waited the maximum.
GrowOld(t) ==
  /\ Lacking(t) # {} /\ ~Open(t) /\ ~Opens(t) /\ old' = old \cup {t}
  /\ UNCHANGED <<corpus, requests, mirrorLock, run, copy, cutoff, faults>>

\* Redis loses an open batch's cut-off.
LoseCutoff(t) ==
  /\ cutoff[t] # {} /\ cutoff' = [cutoff EXCEPT ![t] = {}]
  /\ Fault
  /\ UNCHANGED <<corpus, requests, mirrorLock, run, copy, old>>

\* A promotion run dies before it has asked.
PromoterDies(q) ==
  /\ Fault
  /\ unasked' = unasked \ {q}
  /\ DiesAsking(q) \/ (Quiet(q) /\ q \in unasked /\ UNCHANGED <<key, asks>>)
  /\ UNCHANGED <<saved, due, mirrorLock, run, archive>>

\* A worker dies; its connection closes and the lock is free.  The task of a run comes again when
\* the whole worker was lost, and is lost when its process was killed alone.
WorkerDies(w) ==
  /\ Fault
  /\ \/ ~At(w, "idle") /\ Quiet(w) /\ due' \in {due, due \cup {Mirror}} /\ UNCHANGED <<key, asks>>
     \/ DiesAsking(w) /\ UNCHANGED due
  /\ mirrorLock' = IF mirrorLock = w THEN None ELSE mirrorLock
  /\ Goto(w, "idle") /\ Forget(w)
  /\ UNCHANGED <<corpus, archive>>
--------------------------------------------------------------------------------
OthersSame == UNCHANGED <<corpus, mirrorLock, run, archive>>

Step(w)  == \/ Put(w) \/ Record(w) \/ EndMirror(w)
            \/ \E t \in Target : VisitTarget(w, t) \/ PassBy(w, t)
            \/ \E r \in Judgment : Pick(w, r)

Next ==
  \/ \E q \in Promoter : SaveJudgment(q) \/ EndPromotion(q) \/ PromoterDies(q)
  \/ \E p \in Proc : Request(p) /\ OthersSame
  \/ \E k \in Key : (Elapse(k) \/ Beat(k)) /\ OthersSame
  \/ \E w \in Worker : BeginMirror(w) \/ Step(w) \/ WorkerDies(w)
  \/ \E t \in Batched : GrowOld(t) \/ LoseCutoff(t)

Spec == Init /\ [][Next]_vars

\* A run goes on; Beat beats; time passes.  A task that is due again and again is taken, and not
\* every time while another run holds the lock.
Fairness ==
  /\ \A k \in Key : WF_vars(Beat(k) /\ OthersSame)
  /\ \A w \in Worker : WF_vars(Step(w)) /\ WF_vars(Request(w) /\ OthersSame)
  /\ SF_vars(mirrorLock = None /\ \E w \in Worker : BeginMirror(w))
  /\ \A t \in Batched : WF_vars(GrowOld(t))

FairSpec == Spec /\ Fairness
--------------------------------------------------------------------------------
(* Properties. *)

\* A run will still find judgment r for target t, or ask for the run that finds it.
InMirror(t, r) ==
  \E w \in Worker :
    \/ t \in turn[w]
    \/ more[w] \/ late[w]
    \/ at[w].target = t /\ r \in todo[w]

\* A judgment does not wait for Beat on its way to a target that gets every record as it is saved
\* (chain.py, mirror_pending): as long as nothing fails and no process dies, a mirror run is asked
\* for, or the run under way sees to it, or the promotion run that saved it is going to ask.
CopyAskedFor ==
  faults = 0 =>
    \A t \in Target \ Batched : \A r \in Lacking(t) :
      Coming(Mirror) \/ InMirror(t, r) \/ unasked # {}

\* A judgment's objects are uploaded to a target only while the target lacks them, whatever run or
\* crash came before: Drive would keep two files with one name (archive_mirror.mirror_pending).
UploadedOnce ==
  [][\A w \in Worker : At(w, "put") /\ pc'[w] = "record" =>
       copy[at[w].target][at[w].row] \notin {"stored", "written"}]_vars

\* Every judgment reaches every target, through lost requests, failed uploads, dead workers, lost
\* cut-offs and spent time budgets.
EveryCopyMade == \A r \in Judgment : r \in saved ~> \A t \in Target : copy[t][r] = "written"
================================================================================
