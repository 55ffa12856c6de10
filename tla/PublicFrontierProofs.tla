------------------------- MODULE PublicFrontierProofs -------------------------
(* Machine-checked proofs about PublicFrontier, for any number of listings, documents, deadly *)
(* rows, faults, and any limits.                                                              *)
EXTENDS PublicFrontier, TLAPS

Mem == [status : Statuses, attempts : Nat, later : BOOLEAN,
        links : SUBSET Document, text : SUBSET Document, block : BOOLEAN, empty : BOOLEAN]

Outcomes == {m \in Mem : m.status \in {"pending", "done", "retired"}}

RowTypeOK ==
  /\ status \in [Row -> Statuses] /\ attempts \in [Row -> Nat] /\ later \in [Row -> BOOLEAN]
  /\ here \subseteq Row /\ staged \subseteq Document /\ blank \in [Document -> {"no", "young", "old"}]
  /\ ended \in [Row -> 0..Lives]

SourceTypeOK ==
  /\ site \in Sites /\ state \in {"ACTIVE", "HALTED"} /\ blocks \in 0..Retries
  /\ cooling \in BOOLEAN /\ next \in {"now", "later", "retry"}
  /\ last \in [completed : BOOLEAN, limited : BOOLEAN]
  /\ faults \in 0..MaxFaults

RunTypeOK ==
  /\ pc \in {"idle", "scan", "work", "commit", "blocked"} /\ count \in 0..Retries
  /\ batch \subseteq Row /\ processed \subseteq Row /\ cur \in Row \cup {None}
  /\ mem \in Outcomes
  /\ pc \in {"work", "commit"} <=> cur # None
  /\ cur # None => status[cur] = "in_progress" /\ cur \in here

Types == RowTypeOK /\ SourceTypeOK /\ RunTypeOK

LEMMA TypesGive == Types => TypeOK
BY DEF Types, RowTypeOK, SourceTypeOK, RunTypeOK, Outcomes, Mem, TypeOK

--------------------------------------------------------------------------------
(* Types. *)

LEMMA NoMemType == NoMem \in Outcomes
BY DEF NoMem, Outcomes, Mem, Statuses

LEMMA ResultType ==
  ASSUME NEW s \in {"pending", "done", "retired"}, NEW n \in Nat, NEW w \in BOOLEAN,
         NEW L \in SUBSET Document, NEW T \in SUBSET Document
  PROVE  Result(s, n, w, L, T) \in Outcomes
BY DEF Result, Outcomes, Mem, Statuses

\* The work on a row of which nothing is kept but the row.
Bare(m) == m \in Outcomes /\ (m.status = "done" => cur \in site.statutes)

LEMMA BareResult ==
  ASSUME NEW s \in {"pending", "retired", "done"}, NEW n \in Nat, NEW w \in BOOLEAN, NEW b \in BOOLEAN,
         s = "done" => cur \in site.statutes
  PROVE  /\ Bare(Result(s, n, w, {}, {}))
         /\ Bare([Result(s, n, w, {}, {}) EXCEPT !.block = b])
         /\ Bare([Result(s, n, w, {}, {}) EXCEPT !.empty = b])
BY DEF Bare, Result, Outcomes, Mem, Statuses

\* What the work on a row may come to; a row that is done brings its links and its text, unless it
\* is one of a statute.
LEMMA OutcomeType ==
  ASSUME Types, Outcome
  PROVE  /\ mem' \in Outcomes /\ pc = "work" /\ pc' = "commit" /\ faults' \in 0..MaxFaults
         /\ UNCHANGED <<frontier, site, source, last, count, batch, processed, cur, ended>>
         /\ mem'.status = "done" /\ cur \notin site.statutes =>
              /\ cur \in Document => cur \in mem'.text
              /\ cur \notin Document => Links[cur] \subseteq mem'.links
<1> USE DEF Fetch, Discard, Refuse, Defer, Insist, Empty, Fail, NoRobots, Block, ComesTo
<1>0. /\ pc = "work" /\ pc' = "commit"
      /\ UNCHANGED <<frontier, site, source, last, count, batch, processed, cur, ended>>
  BY DEF Outcome
<1>1. cur \in Row /\ attempts[cur] \in Nat /\ attempts[cur] + 1 \in Nat /\ Counted \in Nat
  BY <1>0 DEF Types, RunTypeOK, RowTypeOK, Counted
<1>2. faults' \in 0..MaxFaults
  <2>1. UNCHANGED faults \/ Fault
    BY DEF Outcome
  <2> QED
    BY <2>1, LimitAssumption DEF Fault, Types, SourceTypeOK
<1>3. CASE Fetch
  <2> DEFINE L == IF cur \in Seed THEN Links[cur] ELSE {}
             D == IF cur \in Document THEN {cur} ELSE {}
  <2>1. L \in SUBSET Document /\ D \in SUBSET Document
    BY RowAssumption
  <2>2. mem' = Result("done", attempts[cur] + 1, FALSE, L, D)
    BY <1>3 DEF Found
  <2>3. mem' \in Outcomes
    BY <1>1, <2>1, <2>2, ResultType
  <2>4. mem'.text = D /\ mem'.links = L
    BY <2>2 DEF Result
  <2> QED
    BY <1>0, <1>1, <1>2, <2>3, <2>4 DEF Row
<1>4. CASE Discard \/ Refuse \/ NoRobots \/ Block \/ Insist
  <2>1. Bare(mem')
    BY <1>1, <1>4, BareResult DEF Ends
  <2> QED
    BY <1>0, <1>2, <2>1 DEF Bare
<1>5. CASE Defer \/ Fail
  <2>1. PICK w \in BOOLEAN, s \in {"pending", "retired"} :
          mem' = Result(s, attempts[cur] + 1, w, {}, {})
    BY <1>5 DEF Waits
  <2>2. Bare(mem')
    BY <1>1, <2>1, BareResult
  <2> QED
    BY <1>0, <1>2, <2>2 DEF Bare
<1>6. CASE Empty
  <2>1. PICK s \in {"pending", "retired"} :
          mem' = [Result(s, Counted, TRUE, {}, {}) EXCEPT !.empty = TRUE]
    BY <1>6
  <2>2. Bare(mem')
    BY <1>1, <2>1, BareResult
  <2> QED
    BY <1>0, <1>2, <2>2 DEF Bare
<1> QED
  BY <1>3, <1>4, <1>5, <1>6 DEF Outcome

LEMMA ForgetType ==
  ASSUME Forget
  PROVE  /\ pc' = "idle" /\ count' \in 0..Retries /\ batch' = {} /\ processed' = {}
         /\ cur' = None /\ mem' \in Outcomes
BY NoMemType, LimitAssumption DEF Forget

LEMMA FaultType ==
  ASSUME faults \in 0..MaxFaults, Fault
  PROVE  faults' \in 0..MaxFaults
BY LimitAssumption DEF Fault

LEMMA TypesBegin ==
  ASSUME Types, BeginRun \/ Query
  PROVE  Types'
<1> USE DEF Types, RowTypeOK, SourceTypeOK, RunTypeOK
<1>1. CASE BeginRun
  <2>1. /\ status' \in [Row -> Statuses] /\ attempts' \in [Row -> Nat] /\ later' \in [Row -> BOOLEAN]
    BY <1>1 DEF BeginRun, Statuses
  <2>2. ended' \in [Row -> 0..Lives]
    BY <1>1, LimitAssumption DEF BeginRun
  <2>3. last' \in [completed : BOOLEAN, limited : BOOLEAN] /\ next' = "later" /\ cur = None
    BY <1>1 DEF BeginRun
  <2>4. /\ pc' = "scan" /\ count' = blocks /\ processed' = {}
        /\ UNCHANGED <<here, staged, blank, site, state, blocks, cooling, batch, cur, mem, faults>>
    BY <1>1 DEF BeginRun
  <2> QED
    BY <2>1, <2>2, <2>3, <2>4
<1>2. CASE Query
  BY <1>2 DEF Query, Batches, Due, Unfinished, frontier, source
<1> QED
  BY <1>1, <1>2

LEMMA TypesClaim ==
  ASSUME Types, NEW r \in Row, Claim(r)
  PROVE  Types'
<1> USE DEF Types, RowTypeOK, SourceTypeOK, RunTypeOK
<1>1. /\ pc = "scan" /\ cur = None /\ batch' \subseteq Row /\ processed' \subseteq Row
      /\ UNCHANGED <<later, staged, blank, site, state, blocks, cooling, next, count, mem, ended, faults>>
  BY DEF Claim, source
<1>2. /\ status' \in [Row -> Statuses] /\ attempts' \in [Row -> Nat]
      /\ here' = here \cup {r}
  BY DEF Claim, Statuses
<1>3. last' \in [completed : BOOLEAN, limited : BOOLEAN]
  BY DEF Claim
<1>4. CASE Lost(r)
  <2>1. pc' = "scan" /\ cur' = None
    BY <1>4 DEF Claim
  <2> QED
    BY <1>1, <1>2, <1>3, <2>1
<1>5. CASE ~Lost(r)
  <2>1. pc' = "work" /\ cur' = r /\ status'[r] = "in_progress" /\ r # None
    BY <1>5, RowAssumption DEF Claim
  <2> QED
    BY <1>1, <1>2, <1>3, <2>1
<1> QED
  BY <1>4, <1>5

LEMMA TypesWork ==
  ASSUME Types, Outcome \/ CommitRow \/ EndRun \/ Dies \/ Deploy
  PROVE  Types'
<1> USE DEF Types, RowTypeOK, SourceTypeOK, RunTypeOK
<1>1. CASE Outcome
  BY <1>1, OutcomeType DEF frontier, source
<1>2. CASE CommitRow
  <2>1. mem.status \in Statuses /\ mem.attempts \in Nat /\ mem.later \in BOOLEAN
        /\ mem.text \subseteq Document /\ mem.block \in BOOLEAN
    BY DEF Outcomes, Mem
  <2>2. status' \in [Row -> Statuses]
    BY <1>2, <2>1 DEF CommitRow, Statuses
  <2>3. /\ attempts' \in [Row -> Nat] /\ later' \in [Row -> BOOLEAN] /\ staged' \subseteq Document
        /\ blank' \in [Document -> {"no", "young", "old"}]
    BY <1>2, <2>1 DEF CommitRow
  <2>4. /\ state' \in {"ACTIVE", "HALTED"} /\ blocks' \in 0..Retries
        /\ cooling' \in BOOLEAN /\ next' \in {"now", "later", "retry"}
    <3>1. CASE Halt
      <4>1. count < Retries => count + 1 \in 0..Retries
        BY LimitAssumption
      <4> QED
        BY <3>1, <4>1 DEF Halt
    <3>2. CASE UNCHANGED source
      BY <3>2 DEF source
    <3> QED
      BY <1>2, <3>1, <3>2 DEF CommitRow
  <2>5. last' \in [completed : BOOLEAN, limited : BOOLEAN]
    BY <1>2 DEF CommitRow
  <2>6. /\ pc' \in {"scan", "blocked"} /\ batch' \subseteq Row /\ cur' = None /\ mem' \in Outcomes
        /\ UNCHANGED <<here, site, count, processed, ended, faults>>
    BY <1>2, NoMemType DEF CommitRow
  <2> QED
    BY <2>2, <2>3, <2>4, <2>5, <2>6
<1>3. CASE EndRun
  <2>1. /\ blocks' \in 0..Retries /\ next' \in {"now", "later", "retry"}
        /\ last' \in [completed : BOOLEAN, limited : BOOLEAN]
    <3>1. 0 \in 0..Retries
      BY LimitAssumption
    <3>2. CASE UNCHANGED <<blocks, next, last>>
      BY <3>2
    <3>3. CASE /\ blocks' = IF count > 0 THEN 0 ELSE blocks
               /\ next' = IF AtLimit /\ last.completed /\ Unfinished # {} THEN "now" ELSE next
               /\ last' = [last EXCEPT !.limited = AtLimit]
      <4>1. AtLimit \in BOOLEAN
        BY DEF AtLimit
      <4>2. last' \in [completed : BOOLEAN, limited : BOOLEAN]
        BY <3>3, <4>1
      <4>3. blocks' \in 0..Retries /\ next' \in {"now", "later", "retry"}
        BY <3>1, <3>3
      <4> QED
        BY <4>2, <4>3
    <3> QED
      BY <1>3, <3>2, <3>3 DEF EndRun
  <2>2. UNCHANGED <<status, attempts, later, here, staged, blank, site, state, cooling, ended, faults>>
    BY <1>3 DEF EndRun, frontier
  <2>3. Forget
    BY <1>3 DEF EndRun
  <2> QED
    BY <2>1, <2>2, <2>3, ForgetType
<1>4. CASE Dies
  <2>1. UNCHANGED <<status, attempts, later, here, staged, blank, site, state, blocks, cooling, next, last>>
    BY <1>4 DEF Dies, frontier, source
  <2>2. ended' \in [Row -> 0..Lives] /\ faults' \in 0..MaxFaults
    <3>1. faults' \in 0..MaxFaults
      BY <1>4, FaultType DEF Dies
    <3>2. ended' \in [Row -> 0..Lives]
      BY <1>4, LimitAssumption DEF Dies
    <3> QED
      BY <3>1, <3>2
  <2>3. Forget
    BY <1>4 DEF Dies
  <2> QED
    BY <2>1, <2>2, <2>3, ForgetType
<1>5. CASE Deploy
  <2>1. UNCHANGED <<status, attempts, later, staged, blank, site, state, blocks, cooling, next, last, ended>>
    BY <1>5 DEF Deploy, source
  <2>2. Forget /\ here' = {} /\ Fault
    BY <1>5 DEF Deploy
  <2> QED
    BY <2>1, <2>2, ForgetType, FaultType
<1> QED
  BY <1>1, <1>2, <1>3, <1>4, <1>5

Aging == \E d \in Document : Ages(d)

LEMMA TypesAround ==
  ASSUME Types, \/ Elapse \/ CoolDown \/ Review
                \/ (\E r \in Row : RowDue(r)) \/ Aging
                \/ UNCHANGED vars
  PROVE  Types'
<1> USE DEF Types, RowTypeOK, SourceTypeOK, RunTypeOK, frontier, source, run
<1>1. CASE Elapse \/ CoolDown
  BY <1>1 DEF Elapse, CoolDown
<1>2. CASE Review
  <2>1. /\ state' = "ACTIVE" /\ blocks' \in 0..Retries /\ cooling' \in BOOLEAN
        /\ next' \in {"now", "later", "retry"}
    <3>1. 0 \in 0..Retries
      BY LimitAssumption
    <3> QED
      BY <1>2, <3>1 DEF Review
  <2> QED
    BY <1>2, <2>1 DEF Review
<1>3. ASSUME NEW r \in Row, RowDue(r)
      PROVE  Types'
  BY <1>3 DEF RowDue
<1>4. CASE Aging
  BY <1>4 DEF Aging, Ages
<1>5. CASE UNCHANGED vars
  BY <1>5 DEF vars
<1> QED
  BY <1>1, <1>2, <1>3, <1>4, <1>5

LEMMA TypesStep ==
  ASSUME Types, [Next]_vars
  PROVE  Types'
BY TypesBegin, TypesClaim, TypesWork, TypesAround DEF Next, Step, Aging

LEMMA TypesInit == Init => Types
<1>1. 0 \in 0..Lives /\ 0 \in 0..Retries /\ 0 \in 0..MaxFaults /\ 0 \in Nat
  BY LimitAssumption
<1>2. Init => RowTypeOK
  BY <1>1 DEF Init, RowTypeOK, Statuses
<1>3. Init => SourceTypeOK
  <2>1. Init => /\ site \in Sites /\ state = "ACTIVE" /\ blocks = 0 /\ cooling = FALSE
                /\ next = "now" /\ faults = 0
    BY DEF Init
  <2>2. Init => last \in [completed : BOOLEAN, limited : BOOLEAN]
    BY DEF Init
  <2> QED
    BY <1>1, <2>1, <2>2 DEF SourceTypeOK
<1>4. Init => RunTypeOK
  <2>1. Init => /\ pc = "idle" /\ count = 0 /\ batch = {} /\ processed = {} /\ cur = None
                /\ mem = NoMem
    BY DEF Init
  <2> QED
    BY <1>1, <2>1, NoMemType DEF RunTypeOK
<1> QED
  BY <1>2, <1>3, <1>4 DEF Types

\* Every variable has its type; a run that works on a row has claimed it, and the claim is
\* committed.
THEOREM ClaimCommitted == Spec => []TypeOK
BY TypesInit, TypesStep, TypesGive, PTL DEF Spec

--------------------------------------------------------------------------------
(***************************************************************************)
(* Done is done.  What a row's done brings with it is committed in the     *)
(* same transaction, and nothing that is in the frontier ever leaves it.   *)
(***************************************************************************)
MemInv ==
  pc = "commit" /\ mem.status = "done" /\ cur \notin site.statutes =>
    /\ cur \in Document => cur \in mem.text
    /\ cur \notin Document => Links[cur] \subseteq mem.links

Known(r) == status[r] # "unknown"

DoneOf(r) ==
  status[r] = "done" /\ r \notin site.statutes =>
    IF r \in Document THEN r \in staged ELSE \A d \in Links[r] : Known(d)

DoneInv == MemInv /\ \A r \in Row : DoneOf(r)

\* What stays known, staged or short of done keeps the promise.
LEMMA DoneKept ==
  ASSUME Types, DoneInv, staged \subseteq staged', site' = site,
         \A r \in Row : Known(r) => Known(r)',
         \A r \in Row : status'[r] = "done" => status[r] = "done"
  PROVE  \A r \in Row : DoneOf(r)'
<1>1. \A r \in Row \ Document : Links[r] \subseteq Row
  BY RowAssumption DEF Row
<1> QED
  BY <1>1 DEF DoneInv, DoneOf

LEMMA DoneStep ==
  ASSUME Types, DoneInv, [Next]_vars
  PROVE  DoneInv'
<1> USE DEF Types, RowTypeOK, RunTypeOK
<1>1. CASE BeginRun
  <2>1. staged' = staged /\ pc' = "scan" /\ site' = site
    BY <1>1 DEF BeginRun
  <2>2. \A r \in Row : Known(r) => Known(r)'
    BY <1>1 DEF BeginRun, Known
  <2>3. \A r \in Row : status'[r] = "done" => status[r] = "done"
    BY <1>1 DEF BeginRun
  <2> QED
    BY <2>1, <2>2, <2>3, DoneKept DEF DoneInv, MemInv
<1>2. ASSUME NEW r \in Row, Claim(r)
      PROVE  DoneInv'
  <2>1. staged' = staged /\ pc' # "commit" /\ site' = site
    BY <1>2 DEF Claim
  <2>2. \A s \in Row : Known(s) => Known(s)'
    BY <1>2 DEF Claim, Known
  <2>3. \A s \in Row : status'[s] = "done" => status[s] = "done"
    BY <1>2 DEF Claim
  <2> QED
    BY <2>1, <2>2, <2>3, DoneKept DEF DoneInv, MemInv
<1>3. CASE Outcome
  BY <1>3, OutcomeType DEF DoneInv, MemInv, DoneOf, Known, frontier
<1>4. CASE CommitRow
  <2>1. /\ pc = "commit" /\ pc' # "commit" /\ cur \in Row /\ site' = site
        /\ staged' = staged \cup mem.text
        /\ \A r \in Row \ {cur} :
             status'[r] = IF r \in mem.links /\ status[r] = "unknown" THEN "pending" ELSE status[r]
        /\ status'[cur] = mem.status
    BY <1>4 DEF CommitRow
  <2>2. mem.status \in {"pending", "done", "retired"}
    BY DEF Outcomes
  <2>3. \A r \in Row : Known(r) => Known(r)'
    BY <2>1, <2>2 DEF Known
  <2>4. \A r \in mem.links \cap Row : Known(r)'
    BY <2>1, <2>2 DEF Known
  <2>5. \A r \in Row \ Document : Links[r] \subseteq Row
    BY RowAssumption DEF Row
  <2>6. ASSUME NEW r \in Row, r = cur
        PROVE  DoneOf(r)'
    <3> SUFFICES ASSUME mem.status = "done", r \notin site.statutes
                 PROVE  IF r \in Document THEN r \in staged' ELSE \A d \in Links[r] : Known(d)'
      BY <2>1, <2>6 DEF DoneOf
    <3>1. CASE r \in Document
      BY <2>1, <2>6, <3>1 DEF DoneInv, MemInv
    <3>2. CASE r \notin Document
      <4>1. Links[r] \subseteq mem.links \cap Row
        BY <2>1, <2>5, <2>6, <3>2 DEF DoneInv, MemInv
      <4> QED
        BY <2>4, <3>2, <4>1
    <3> QED
      BY <3>1, <3>2
  <2>7. ASSUME NEW r \in Row \ {cur}
        PROVE  DoneOf(r)'
    <3>1. status'[r] = "done" => status[r] = "done"
      BY <2>1
    <3>2. CASE r \in Document
      BY <2>1, <3>1, <3>2 DEF DoneInv, DoneOf
    <3>3. CASE r \notin Document
      <4>1. status[r] = "done" /\ r \notin site.statutes => \A d \in Links[r] : Known(d)
        BY <3>3 DEF DoneInv, DoneOf
      <4> QED
        BY <2>1, <2>3, <2>5, <3>1, <3>3, <4>1 DEF DoneOf
    <3> QED
      BY <3>2, <3>3
  <2> QED
    BY <2>1, <2>6, <2>7 DEF DoneInv, MemInv
<1>5. CASE Query \/ EndRun \/ Dies \/ Deploy
  <2>1. UNCHANGED <<status, staged, site>> /\ pc' # "commit"
    BY <1>5 DEF Query, EndRun, Dies, Deploy, Forget, frontier
  <2> QED
    BY <2>1, DoneKept DEF DoneInv, MemInv, Known
<1>6. CASE Elapse \/ CoolDown \/ Review \/ (\E r \in Row : RowDue(r)) \/ Aging \/ UNCHANGED vars
  <2>1. UNCHANGED <<status, staged, site, pc, mem, cur>>
    BY <1>6 DEF Elapse, CoolDown, Review, RowDue, Aging, Ages, vars, frontier, run
  <2> QED
    BY <2>1 DEF DoneInv, MemInv, DoneOf, Known
<1> QED
  BY <1>1, <1>2, <1>3, <1>4, <1>5, <1>6 DEF Next, Step, Aging

\* A judgment's row that is done has its text staged, a listing's its links in the frontier, whatever
\* run died in between.
THEOREM DoneMeansStaged == Spec => []DoneIsDone
<1> DEFINE Inv == Types /\ DoneInv
<1>1. Init => Inv
  BY TypesInit DEF Init, DoneInv, MemInv, DoneOf
<1>2. Inv /\ [Next]_vars => Inv'
  BY TypesStep, DoneStep
<1>3. Inv => DoneIsDone
  BY DEF DoneInv, DoneOf, Known, DoneIsDone
<1> QED
  BY <1>1, <1>2, <1>3, PTL DEF Spec

--------------------------------------------------------------------------------
(***************************************************************************)
(* A block is obeyed.  In backfill mode the cooldown of a block holds back *)
(* next_scrape_at, and no run is under way.                                *)
(***************************************************************************)
BlockInv ==
  site.mode = "backfill" =>
    /\ pc \in {"scan", "work", "commit"} => state = "ACTIVE" /\ ~cooling
    /\ cooling => next = "retry"

LEMMA BlockStep ==
  ASSUME BlockInv, [Next]_vars
  PROVE  BlockInv'
<1> USE DEF BlockInv
<1>1. CASE BeginRun
  BY <1>1 DEF BeginRun, BacklogDispatch
<1>2. CASE Query \/ Outcome \/ \E r \in Row : Claim(r)
  <2>1. UNCHANGED <<site, state, cooling, next>> /\ pc \in {"scan", "work"}
    BY <1>2 DEF Query, Outcome, Claim, Fetch, Discard, Refuse, Defer, Insist, Empty, Fail, NoRobots, Block,
         ComesTo, source
  <2> QED
    BY <2>1
<1>3. CASE CommitRow
  BY <1>3 DEF CommitRow, Halt, source
<1>4. CASE EndRun \/ Dies \/ Deploy
  BY <1>4 DEF EndRun, Dies, Deploy, Forget, source
<1>5. CASE Elapse \/ CoolDown \/ Review
  BY <1>5 DEF Elapse, CoolDown, Review, run
<1>6. CASE (\E r \in Row : RowDue(r)) \/ Aging \/ UNCHANGED vars
  BY <1>6 DEF RowDue, Aging, Ages, vars, source, run
<1> QED
  BY <1>1, <1>2, <1>3, <1>4, <1>5, <1>6 DEF Next, Step, Aging

\* In backfill mode nothing is fetched after an explicit block until its cooldown is over or a
\* person has looked at it.
THEOREM NoFetchWhileBlocked == Spec => []BlockObeyed
<1>1. Init => BlockInv
  BY DEF Init, BlockInv
<1>2. BlockInv /\ [Next]_vars => BlockInv'
  BY BlockStep
<1>3. BlockInv => BlockObeyed
  BY DEF BlockInv, BlockObeyed
<1> QED
  BY <1>1, <1>2, <1>3, PTL DEF Spec

--------------------------------------------------------------------------------
(***************************************************************************)
(* Only a death counts.  A row in progress that no run is on, and that was *)
(* claimed in the present container, was left by a run that died on it.    *)
(***************************************************************************)
LeftInv == \A r \in here : status[r] = "in_progress" /\ cur # r => ended[r] > 0

LEMMA LeftStep ==
  ASSUME Types, LeftInv, [Next]_vars
  PROVE  LeftInv'
<1> USE DEF Types, RowTypeOK, RunTypeOK, LeftInv
<1>1. CASE BeginRun
  <2>1. \A r \in Row : status'[r] = "in_progress" => status[r] = "in_progress" /\ ended'[r] = ended[r]
    BY <1>1 DEF BeginRun, Reopened
  <2>2. UNCHANGED <<here, cur>>
    BY <1>1 DEF BeginRun
  <2> QED
    BY <2>1, <2>2
<1>2. ASSUME NEW r \in Row, Claim(r)
      PROVE  LeftInv'
  <2>1. /\ cur = None /\ here' = here \cup {r} /\ ended' = ended
        /\ \A s \in Row \ {r} : status'[s] = status[s]
        /\ status'[r] = "retired" \/ cur' = r
    BY <1>2 DEF Claim
  <2>2. \A s \in Row : s # None
    BY RowAssumption
  <2> QED
    BY <2>1, <2>2
<1>3. CASE Outcome
  BY <1>3, OutcomeType DEF frontier
<1>4. CASE CommitRow
  <2>1. /\ cur \in Row /\ UNCHANGED <<here, ended>>
        /\ \A r \in Row \ {cur} : status'[r] = "in_progress" => status[r] = "in_progress"
        /\ status'[cur] = mem.status
    BY <1>4 DEF CommitRow
  <2>2. mem.status # "in_progress"
    BY DEF Outcomes
  <2> QED
    BY <2>1, <2>2
<1>5. CASE Query \/ EndRun
  <2>1. UNCHANGED <<here, ended, status, cur>>
    BY <1>5 DEF Query, EndRun, Forget, frontier
  <2> QED
    BY <2>1
<1>6. CASE Dies
  <2>1. cur \in Row /\ ended' = [ended EXCEPT ![cur] = IF @ < Lives THEN @ + 1 ELSE @]
        /\ UNCHANGED <<here, status>>
    BY <1>6 DEF Dies, frontier
  <2>2. ended'[cur] > 0 /\ \A r \in Row \ {cur} : ended'[r] = ended[r]
    BY <2>1, LimitAssumption
  <2> QED
    BY <2>1, <2>2
<1>7. CASE Deploy
  BY <1>7 DEF Deploy
<1>8. CASE Elapse \/ CoolDown \/ Review \/ (\E r \in Row : RowDue(r)) \/ Aging \/ UNCHANGED vars
  <2>1. UNCHANGED <<here, ended, status, cur>>
    BY <1>8 DEF Elapse, CoolDown, Review, RowDue, Aging, Ages, vars, frontier, run
  <2> QED
    BY <2>1
<1> QED
  BY <1>1, <1>2, <1>3, <1>4, <1>5, <1>6, <1>7, <1>8 DEF Next, Step, Aging

\* A row is given up as deadly only if a run died on it in the container that had claimed it.
THEOREM DeploysKillNoRow == Spec => DeadlyRowKilled
<1> DEFINE Inv == Types /\ LeftInv
           Fine == [\A r \in Row : cur # r /\ status[r] = "in_progress" /\ status'[r] = "retired"
                                     => ended[r] > 0]_vars
<1>1. Init => Inv
  BY TypesInit DEF Init, LeftInv
<1>2. Inv /\ [Next]_vars => Inv'
  BY TypesStep, LeftStep
<1>3. Inv /\ [Next]_vars => Fine
  <2> SUFFICES ASSUME Inv, Next, NEW r \in Row, cur # r, status[r] = "in_progress", status'[r] = "retired"
               PROVE  ended[r] > 0
    OBVIOUS
  <2> USE DEF Types, RowTypeOK, RunTypeOK
  <2>1. CASE BeginRun
    BY <2>1 DEF BeginRun
  <2>2. ASSUME NEW s \in Row, Claim(s)
        PROVE  ended[r] > 0
    BY <2>2 DEF Claim, Lost, Died, LeftInv
  <2>3. CASE CommitRow
    BY <2>3 DEF CommitRow
  <2>4. CASE Outcome
    BY <2>4, OutcomeType DEF frontier
  <2>5. CASE Query \/ EndRun \/ Dies \/ Deploy \/ Elapse \/ CoolDown \/ Review \/ (\E s \in Row : RowDue(s)) \/ Aging
    <3>1. UNCHANGED status
      BY <2>5 DEF Query, EndRun, Dies, Deploy, Elapse, CoolDown, Review, RowDue, Aging, Ages, frontier
    <3> QED
      BY <3>1
  <2> QED
    BY <2>1, <2>2, <2>3, <2>4, <2>5 DEF Next, Step, Aging
<1> QED
  BY <1>1, <1>2, <1>3, PTL DEF Spec, DeadlyRowKilled
================================================================================
