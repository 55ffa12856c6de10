---------------------------- MODULE PromotionProofs ----------------------------
(* Machine-checked proofs about Promotion, for any number of jobs, workers, reviewers, pages *)
(* and faults, and any batch.                                                                *)
EXTENDS Promotion, FiniteSetTheorems, SequenceTheorems, TLAPS

Function(f, S) == f = [x \in S |-> f[x]]

\* The worker in a run, and no other, holds the lock; only reviewers review.
LockInv ==
  /\ lock \in Worker \cup {None}
  /\ pc \in [Actor -> {"idle", "release", "select", "rows", "commit", "unlock", "review"}]
  /\ \A w \in Worker : pc[w] # "review" /\ (pc[w] # "idle" <=> lock = w)

StagingType ==
  /\ arrival \in Seq(Page)
  /\ status \in [Page -> {"none", "extracted", "quarantined", "promoted", "duplicate", "failed"}]
  /\ why \in [Page -> {"", "low", "page", "nocite", "held", "conflict", "belongs", "invalid", "error"}]
  /\ items \in [Page -> Nat] /\ open \subseteq Page /\ judged \subseteq Page

CorpusType ==
  /\ Function(name, Page)
  /\ body \in [Page -> Page \cup {None}] /\ owner \in [Cite -> Page \cup {None}]
  /\ benched \subseteq Page /\ links \subseteq Page \X Page
  /\ \A j \in Page : (name[j] # <<>>) <=> (body[j] # None)

RunType ==
  pin \in [Worker -> Key] /\ batch \in [Worker -> SUBSET Page] /\ full \in [Worker -> BOOLEAN]

\* What a decision says can be carried out.
Sound(v) ==
  /\ v.of \in Page \cup {None} /\ v.twin \subseteq Page
  /\ v.do = "refuse" => /\ v.why \in {"page", "nocite", "held", "conflict", "belongs", "invalid"}
                        /\ v.why = "nocite" => Unreported(v.row)
  /\ v.do = "save" => v.name # <<>>
  /\ v.do \in {"same", "upgrade"} => v.of \in Page

PlanInv ==
  /\ Function(plan, Actor)
  /\ \A a \in Actor :
       /\ plan[a].row \in Page \cup {None} /\ plan[a].of \in Page \cup {None}
       /\ pc[a] \in {"review", "commit"} => plan[a].row \in Page
       /\ pc[a] = "commit" => Sound(plan[a])
       /\ pc[a] = "commit" /\ plan[a].do = "upgrade" => plan[a].of \in Judgment

Typed == RequestsTypeOK /\ LockInv /\ StagingType /\ CorpusType /\ RunType /\ PlanInv

LEMMA TypedImplies ==
  ASSUME Typed
  PROVE  TypeOK
BY DEF Typed, TypeOK, LockInv, StagingType, CorpusType, RunType, PlanInv
--------------------------------------------------------------------------------
(* One run at a time. *)

LEMMA LeaveLock ==
  ASSUME LockInv, NEW w \in Worker, Leave(w)
  PROVE  LockInv'
BY NobodyAssumption DEF LockInv, Leave, Decided, Goto, Actor

LEMMA LockStep ==
  ASSUME LockInv, Next
  PROVE  LockInv'
<1> USE DEF LockInv, At, Goto, Actor
<1>1. ASSUME NEW j \in Job, Commit(j) \/ JobDies(j)
      PROVE  LockInv'
  BY <1>1 DEF Commit, JobDies, run
<1>2. CASE OthersSame
  BY <1>2 DEF OthersSame, run
<1>3. ASSUME NEW w \in Worker, NEW k \in Key, BeginPromotion(w, k)
      PROVE  LockInv'
  <2>1. CASE lock = None /\ lock' = w /\ Start(w, k)
    BY <2>1, NobodyAssumption DEF Start
  <2>2. CASE UNCHANGED <<lock, pc>>
    BY <2>2
  <2> QED
    BY <1>3, <2>1, <2>2 DEF BeginPromotion
<1>4. ASSUME NEW w \in Worker, Release(w) \/ SelectBatch(w) \/ Decide(w)
      PROVE  LockInv'
  BY <1>4 DEF Release, SelectBatch, Decide
<1>5. ASSUME NEW w \in Worker, CommitRow(w) \/ AskForNext(w)
      PROVE  LockInv'
  BY <1>5 DEF CommitRow, AskForNext, Decided, run
<1>6. ASSUME NEW w \in Worker, RowRaises(w)
      PROVE  LockInv'
  <2>1. CASE Leave(w)
    BY <2>1, LeaveLock
  <2>2. CASE Decided(w, "rows") /\ UNCHANGED run
    BY <1>6, <2>2 DEF Decided, run, RowRaises
  <2> QED
    BY <1>6, <2>1, <2>2 DEF RowRaises
<1>7. ASSUME NEW w \in Worker, EndPromotion(w) \/ WorkerDies(w)
      PROVE  LockInv'
  BY <1>7, LeaveLock DEF EndPromotion, WorkerDies
<1>8. ASSUME NEW v \in Reviewer, Open(v) \/ Reject(v) \/ Accept(v) \/ CommitReview(v)
      PROVE  LockInv'
  <2>1. v \notin Worker /\ v \in Actor
    BY ProcAssumption
  <2> QED
    BY <1>8, <2>1 DEF Open, Reject, Accept, CommitReview, Decided, run
<1> QED
  BY <1>1, <1>2, <1>3, <1>4, <1>5, <1>6, <1>7, <1>8 DEF Next, Step
--------------------------------------------------------------------------------
(* What a decision can be. *)

LEMMA NameNotEmpty ==
  ASSUME NEW r \in Page
  PROVE  CanonicalName(r) # <<>>
<1> DEFINE n == <<Info[r].source, Info[r].case>>
           S == {Info[r].source, Info[r].case, Info[r].text}
<1>1. n \in Seq(S) /\ Info[r].text \in S /\ Len(n) = 2
  OBVIOUS
<1>2. Append(n, Info[r].text) # <<>>
  BY <1>1, AppendProperties
<1>3. /\ <<Info[r].cites[1]>> # <<>> /\ <<Info[r].source, Info[r].text>> # <<>>
      /\ <<Info[r].source, Info[r].case>> # <<>>
  OBVIOUS
<1> QED
  BY <1>2, <1>3 DEF CanonicalName

LEMMA KnownPages ==
  ASSUME CorpusType, NEW r \in Page
  PROVE  Known(r) \subseteq Page /\ Namesake(r) \subseteq Judgment
<1>1. Namesake(r) \subseteq Judgment /\ SameOrder(r) \subseteq Judgment /\ Judgment \subseteq Page
  BY DEF Namesake, Named, SameOrder, SameText, Holding, Judgment
<1>2. Holder(r) \subseteq Page
  <2>1. CASE Unreported(r)
    BY <2>1 DEF Holder
  <2>2. CASE ~Unreported(r)
    <3>1. Info[r].cites \in Seq(Cite) /\ Info[r].cites # <<>>
      BY <2>2, PageAssumption DEF Unreported
    <3>2. Info[r].cites[1] \in Cite
      BY <3>1
    <3> QED
      BY <2>2, <3>2 DEF Holder, CorpusType
  <2> QED
    BY <2>1, <2>2
<1> QED
  BY <1>1, <1>2 DEF Known

LEMMA VerdictSound ==
  ASSUME CorpusType, NEW r \in Page, NEW i
  PROVE  /\ Verdict(r, i).row = r /\ Sound(Verdict(r, i))
         /\ Verdict(r, i).do = "upgrade" =>
              Verdict(r, i).of \in Judgment /\ Upgrades(r, Verdict(r, i).of)
<1> DEFINE known == Known(r)
           j == IF known = {} THEN None ELSE CHOOSE k \in known : TRUE
           refusal == Refusal(r)
           do == IF refusal # "" THEN "refuse"
                 ELSE IF known = {} THEN "save" ELSE IF Upgrades(r, j) THEN "upgrade" ELSE "same"
           v == Verdict(r, i)
<1>1. /\ v.row = r /\ v.of = j /\ v.why = refusal /\ v.name = CanonicalName(r) /\ v.twin = Twin(r)
      /\ v.do = do
  BY DEF Verdict
<1>2. j \in Page \cup {None} /\ (known # {} => j \in Page)
  BY KnownPages
<1>3. Twin(r) \subseteq Page
  BY DEF Twin, SameOrder, SameText, Holding, Judgment
<1>4. refusal # "" => /\ refusal \in {"page", "nocite", "held", "conflict", "belongs", "invalid"}
                      /\ refusal = "nocite" => Unreported(r)
  BY DEF Refusal
<1>5. Upgrades(r, j) => j \in Judgment
  BY KnownPages DEF Upgrades
<1> HIDE DEF known, j, refusal, v
<1>6. /\ v.do = "refuse" => refusal # ""
      /\ v.do = "save" => known = {}
      /\ v.do = "same" => known # {}
      /\ v.do = "upgrade" => Upgrades(r, j)
  BY <1>1
<1>7. CanonicalName(r) # <<>>
  BY NameNotEmpty
<1>8. v.of \in Page \cup {None} /\ v.twin \subseteq Page /\ (v.do = "same" => v.of \in Page)
  BY <1>1, <1>2, <1>3, <1>6
<1>9. v.do = "refuse" => /\ v.why \in {"page", "nocite", "held", "conflict", "belongs", "invalid"}
                         /\ v.why = "nocite" => Unreported(v.row)
  BY <1>1, <1>4, <1>6
<1>10. v.do = "upgrade" => v.of \in Judgment /\ Upgrades(r, v.of)
  BY <1>1, <1>5, <1>6
<1>11. v.do = "save" => v.name # <<>>
  BY <1>1, <1>7
<1>12. Judgment \subseteq Page
  BY DEF Judgment
<1>13. Sound(v)
  BY <1>1, <1>8, <1>9, <1>10, <1>11, <1>12 DEF Sound
<1> QED
  BY <1>1, <1>10, <1>13 DEF v

LEMMA AttachType ==
  ASSUME CorpusType, NEW r, NEW j \in Page, Attach(r, j)
  PROVE  owner' \in [Cite -> Page \cup {None}]
BY DEF Attach, CorpusType

LEMMA SettleType ==
  ASSUME StagingType, NEW r \in Page, NEW outcome \in {"promoted", "duplicate"},
         NEW waiting \in SUBSET Page, Settle(r, outcome, waiting)
  PROVE  /\ status' \in [Page -> {"none", "extracted", "quarantined", "promoted", "duplicate", "failed"}]
         /\ open' \subseteq Page /\ why' = why /\ items' = items
BY DEF Settle, StagingType

LEMMA NewItemsType ==
  ASSUME StagingType, NEW R \in SUBSET Page, NEW waiting \in SUBSET Page, NewItems(R, waiting)
  PROVE  items' \in [Page -> Nat] /\ open' \subseteq Page
<1>1. \A r \in Page : items[r] \in Nat
  BY DEF StagingType
<1>2. \A n \in Nat : n + 1 \in Nat
  OBVIOUS
<1>3. items' \in [Page -> Nat]
  BY <1>1, <1>2 DEF NewItems
<1> QED
  BY <1>3 DEF NewItems

\* The four kinds of decision, with what each leaves of the corpus.
LEMMA ApplyCases ==
  ASSUME NEW v, NEW waiting, Apply(v, waiting)
  PROVE  \/ v.do = "refuse" /\ NewItems({v.row}, waiting) /\ UNCHANGED corpus
            /\ status' = [status EXCEPT ![v.row] = "quarantined"] /\ why' = [why EXCEPT ![v.row] = v.why]
         \/ v.do = "same" /\ Settle(v.row, "duplicate", waiting) /\ Attach(v.row, v.of)
            /\ UNCHANGED <<name, body, benched, links>>
         \/ v.do = "upgrade" /\ Settle(v.row, "promoted", waiting) /\ Attach(v.row, v.of)
            /\ body' = [body EXCEPT ![v.of] = v.row]
            /\ benched' = benched \cup Benches(v.row, v.of) /\ UNCHANGED <<name, links>>
         \/ v.do = "save" /\ Settle(v.row, "promoted", waiting) /\ Attach(v.row, v.row)
            /\ name' = [name EXCEPT ![v.row] = v.name] /\ body' = [body EXCEPT ![v.row] = v.row]
            /\ benched' = benched \cup Benches(v.row, v.row)
            /\ links' = links \cup (v.twin \X {v.row})
BY DEF Apply

LEMMA ApplyType ==
  ASSUME StagingType, CorpusType, NEW v, v.row \in Page, Sound(v),
         v.do = "upgrade" => v.of \in Judgment, NEW waiting \in SUBSET Page,
         Apply(v, waiting), UNCHANGED arrival, judged' \subseteq Page
  PROVE  StagingType' /\ CorpusType' /\ Judgment \subseteq Judgment'
<1>1. CASE v.do = "refuse"
  <2>1. NewItems({v.row}, waiting) /\ UNCHANGED <<name, body, benched, owner, links>>
    BY <1>1, ApplyCases DEF corpus
  <2>2. CorpusType'
    BY <2>1 DEF CorpusType, Function
  <2>5. Judgment' = Judgment
    BY <2>1 DEF Judgment
  <2>3. items' \in [Page -> Nat] /\ open' \subseteq Page
    BY <2>1, NewItemsType
  <2>4. status' = [status EXCEPT ![v.row] = "quarantined"] /\ why' = [why EXCEPT ![v.row] = v.why]
    BY <1>1, ApplyCases
  <2> QED
    BY <1>1, <2>2, <2>3, <2>4, <2>5 DEF StagingType, Sound
<1>2. CASE v.do = "same"
  <2>1. Settle(v.row, "duplicate", waiting) /\ Attach(v.row, v.of) /\ UNCHANGED <<name, body, benched, links>>
    BY <1>2, ApplyCases
  <2>2. v.of \in Page
    BY <1>2 DEF Sound
  <2>3. CorpusType'
    BY <2>1, <2>2, AttachType DEF CorpusType, Function
  <2>4. Judgment' = Judgment
    BY <2>1 DEF Judgment
  <2> QED
    BY <2>1, <2>3, <2>4, SettleType DEF StagingType
<1>3. CASE v.do = "upgrade"
  <2>1. /\ Settle(v.row, "promoted", waiting) /\ Attach(v.row, v.of)
        /\ body' = [body EXCEPT ![v.of] = v.row]
        /\ benched' = benched \cup Benches(v.row, v.of) /\ UNCHANGED <<name, links>>
    BY <1>3, ApplyCases
  <2>2. v.of \in Page /\ name[v.of] # <<>>
    BY <1>3 DEF Judgment
  <2>3. owner' \in [Cite -> Page \cup {None}]
    BY <2>1, <2>2, AttachType
  <2>4. CorpusType'
    BY <2>1, <2>2, <2>3, NobodyAssumption DEF CorpusType, Function, Benches
  <2>5. Judgment' = Judgment
    BY <2>1 DEF Judgment
  <2> QED
    BY <2>1, <2>4, <2>5, SettleType DEF StagingType
<1>4. CASE v.do = "save"
  <2>1. /\ Settle(v.row, "promoted", waiting) /\ Attach(v.row, v.row)
        /\ name' = [name EXCEPT ![v.row] = v.name] /\ body' = [body EXCEPT ![v.row] = v.row]
        /\ benched' = benched \cup Benches(v.row, v.row)
        /\ links' = links \cup (v.twin \X {v.row})
    BY <1>4, ApplyCases
  <2>2. v.name # <<>> /\ v.twin \subseteq Page
    BY <1>4 DEF Sound
  <2>3. owner' \in [Cite -> Page \cup {None}]
    BY <2>1, AttachType
  <2>4. links' \subseteq Page \X Page
    BY <2>1, <2>2 DEF CorpusType
  <2>5. CorpusType'
    BY <2>1, <2>2, <2>3, <2>4, NobodyAssumption DEF CorpusType, Function, Benches
  <2>6. Judgment \subseteq Judgment'
    BY <2>1, <2>2 DEF Judgment, CorpusType, Function
  <2> QED
    BY <2>1, <2>5, <2>6, SettleType DEF StagingType
<1> QED
  BY <1>1, <1>2, <1>3, <1>4, ApplyCases
--------------------------------------------------------------------------------
(* Types. *)

LEMMA AskForType ==
  ASSUME asks \in [Proc -> Seq(Key)], NEW p \in Proc, NEW ks \in Seq(Key), AskFor(p, ks)
  PROVE  asks' \in [Proc -> Seq(Key)]
BY DEF AskFor

LEMMA FaultType ==
  ASSUME faults \in 0..MaxFaults, Fault \/ UNCHANGED faults
  PROVE  faults' \in 0..MaxFaults
BY FaultAssumption DEF Fault

LEMMA RequestStep ==
  ASSUME RequestsTypeOK,
         (\E p \in Proc : Request(p)) \/ (\E k \in Key : Elapse(k)) \/ Beat(All)
  PROVE  RequestsTypeOK'
<1>1. ASSUME NEW p \in Proc, Request(p)
      PROVE  RequestsTypeOK'
  <2>1. Head(asks[p]) \in Key /\ Tail(asks[p]) \in Seq(Key)
    BY <1>1, HeadTailProperties DEF Request, Quiet, RequestsTypeOK
  <2>2. asks' \in [Proc -> Seq(Key)]
    BY <1>1, <2>1, AskForType DEF Request, RequestsTypeOK
  <2>3. faults' \in 0..MaxFaults
    BY <1>1, FaultType DEF Request, RequestsTypeOK
  <2> QED
    BY <1>1, <2>1, <2>2, <2>3 DEF Request, RequestsTypeOK
<1>2. ASSUME NEW k \in Key, Elapse(k) \/ Beat(k)
      PROVE  RequestsTypeOK'
  BY <1>2 DEF Elapse, Beat, RequestsTypeOK
<1>3. All \in Key
  BY KeyAssumption
<1> QED
  BY <1>1, <1>2, <1>3

LEMMA DiesType ==
  ASSUME RequestsTypeOK, NEW p \in Proc, DiesAsking(p)
  PROVE  key' \in [Key -> {"free", "set", "sent"}] /\ asks' \in [Proc -> Seq(Key)]
<1>1. <<>> \in Seq(Key)
  OBVIOUS
<1> QED
  BY <1>1, AskForType DEF DiesAsking, RequestsTypeOK

LEMMA FaultOnly ==
  ASSUME RequestsTypeOK, UNCHANGED requests, Fault \/ UNCHANGED faults
  PROVE  RequestsTypeOK'
<1>1. faults' \in 0..MaxFaults
  BY FaultType DEF RequestsTypeOK
<1> QED
  BY <1>1 DEF RequestsTypeOK, requests

\* Plans, when nobody's changes, and when actor a's does.
LEMMA PlanStays ==
  ASSUME PlanInv, UNCHANGED plan, Judgment \subseteq Judgment',
         \A a \in Actor : pc'[a] = pc[a] \/ pc'[a] \notin {"review", "commit"}
  PROVE  PlanInv'
BY DEF PlanInv

LEMMA PlanMade ==
  ASSUME PlanInv, Judgment \subseteq Judgment', NEW a \in Actor, NEW p,
         plan' = [plan EXCEPT ![a] = p], p.row \in Page \cup {None}, p.of \in Page \cup {None},
         \A b \in Actor \ {a} : pc'[b] = pc[b] \/ pc'[b] \notin {"review", "commit"},
         pc'[a] \in {"review", "commit"} => p.row \in Page,
         pc'[a] = "commit" => Sound(p) /\ (p.do = "upgrade" => p.of \in Judgment)
  PROVE  PlanInv'
<1>1. Function(plan', Actor) /\ plan'[a] = p /\ \A b \in Actor \ {a} : plan'[b] = plan[b]
  BY DEF PlanInv, Function
<1>2. ASSUME NEW b \in Actor, b # a
      PROVE  /\ plan'[b].row \in Page \cup {None} /\ plan'[b].of \in Page \cup {None}
             /\ pc'[b] \in {"review", "commit"} => plan'[b].row \in Page
             /\ pc'[b] = "commit" => Sound(plan'[b])
             /\ pc'[b] = "commit" /\ plan'[b].do = "upgrade" => plan'[b].of \in Judgment'
  BY <1>1, <1>2 DEF PlanInv
<1>3. ASSUME NEW b \in Actor, b = a
      PROVE  /\ plan'[b].row \in Page \cup {None} /\ plan'[b].of \in Page \cup {None}
             /\ pc'[b] \in {"review", "commit"} => plan'[b].row \in Page
             /\ pc'[b] = "commit" => Sound(plan'[b])
             /\ pc'[b] = "commit" /\ plan'[b].do = "upgrade" => plan'[b].of \in Judgment'
  BY <1>1, <1>3
<1> QED
  BY <1>1, <1>2, <1>3 DEF PlanInv

LEMMA PlanDropped ==
  ASSUME LockInv, PlanInv, Judgment \subseteq Judgment', NEW a \in Actor, NEW l \in {"idle", "rows"},
         Decided(a, l)
  PROVE  PlanInv'
<1>1. NoPlan.row = None /\ NoPlan.of = None
  BY DEF NoPlan
<1>2. pc'[a] = l /\ \A b \in Actor \ {a} : pc'[b] = pc[b]
  BY DEF Decided, Goto, LockInv
<1>3. plan' = [plan EXCEPT ![a] = NoPlan]
  BY DEF Decided
<1> QED
  BY <1>1, <1>2, <1>3, PlanMade

LEMMA CorpusSame ==
  ASSUME CorpusType, UNCHANGED corpus
  PROVE  CorpusType' /\ Judgment' = Judgment
BY DEF CorpusType, corpus, Function, Judgment

LEMMA StagingSame ==
  ASSUME StagingType, UNCHANGED staging
  PROVE  StagingType'
BY DEF StagingType, staging

LEMMA LeaveType ==
  ASSUME LockInv, RunType, PlanInv, Judgment \subseteq Judgment', NEW w \in Worker, Leave(w)
  PROVE  RunType' /\ PlanInv'
<1>1. w \in Actor /\ All \in Key
  BY KeyAssumption DEF Actor
<1>2. PlanInv'
  BY <1>1, PlanDropped DEF Leave
<1> QED
  BY <1>1, <1>2 DEF Leave, RunType

LEMMA JobStep ==
  ASSUME Typed, NEW j \in Job, Commit(j) \/ JobDies(j)
  PROVE  RequestsTypeOK' /\ StagingType' /\ CorpusType' /\ RunType' /\ PlanInv'
<1> USE DEF Typed
<1>0. j \in Proc
  BY ProcAssumption
<1>1. UNCHANGED corpus /\ UNCHANGED run /\ UNCHANGED <<pc, plan>>
  BY DEF Commit, JobDies
<1>2. CorpusType' /\ PlanInv' /\ RunType'
  BY <1>1, CorpusSame, PlanStays DEF run, RunType
<1>3. CASE Commit(j)
  <2>1. PICK r \in Page : Commit(j)!(r)
    BY <1>3 DEF Commit
  <2>2. <<Info[r].source>> \in Seq(Key)
    BY PageAssumption, KeyAssumption
  <2>3. asks' \in [Proc -> Seq(Key)]
    BY <1>0, <2>1, <2>2, AskForType DEF RequestsTypeOK
  <2>4. RequestsTypeOK'
    BY <2>1, <2>3 DEF RequestsTypeOK
  <2>5. Info[r].found \in {"extracted", "nocite", "low"}
    BY PageAssumption
  <2>6. StagingType'
    BY <2>1, <2>5 DEF StagingType
  <2> QED
    BY <1>2, <2>4, <2>6
<1>4. CASE JobDies(j)
  <2>1. key' \in [Key -> {"free", "set", "sent"}] /\ asks' \in [Proc -> Seq(Key)]
    BY <1>0, <1>4, DiesType DEF JobDies
  <2>2. faults' \in 0..MaxFaults
    BY <1>4, FaultType DEF JobDies, RequestsTypeOK
  <2>3. RequestsTypeOK' /\ StagingType'
    BY <1>4, <2>1, <2>2, StagingSame DEF JobDies, RequestsTypeOK
  <2> QED
    BY <1>2, <2>3
<1> QED
  BY <1>3, <1>4

LEMMA BeginStep ==
  ASSUME Typed, NEW w \in Worker, NEW k \in Key, BeginPromotion(w, k)
  PROVE  RequestsTypeOK' /\ StagingType' /\ CorpusType' /\ RunType' /\ PlanInv'
<1> USE DEF Typed
<1>0. w \in Proc /\ w \in Actor
  BY ProcAssumption DEF Actor
<1>1. UNCHANGED corpus /\ UNCHANGED <<arrival, status, why, judged, key, full, plan, faults>>
  BY DEF BeginPromotion
<1>2. due' \subseteq Key
  BY DEF BeginPromotion, Ready, RequestsTypeOK
<1>3. CASE Start(w, k) /\ UNCHANGED asks
  <2>1. RequestsTypeOK'
    BY <1>1, <1>2, <1>3 DEF RequestsTypeOK
  <2>2. items' \in [Page -> Nat] /\ open' \subseteq Page
    BY <1>3, NewItemsType DEF Start, StagingType
  <2>3. StagingType'
    BY <1>1, <2>2 DEF StagingType
  <2>4. RunType'
    BY <1>1, <1>3 DEF Start, RunType
  <2>5. \A a \in Actor : pc'[a] = pc[a] \/ pc'[a] = "release"
    BY <1>3 DEF Start, Goto, LockInv
  <2>6. PlanInv'
    BY <1>1, <2>5, CorpusSame, PlanStays
  <2> QED
    BY <1>1, <2>1, <2>3, <2>4, <2>6, CorpusSame
<1>4. CASE AskFor(w, <<k>>) /\ UNCHANGED <<lock, pc, pin, items, open, batch>>
  <2>1. <<k>> \in Seq(Key)
    OBVIOUS
  <2>2. asks' \in [Proc -> Seq(Key)]
    BY <1>0, <1>4, <2>1, AskForType DEF RequestsTypeOK
  <2>3. RequestsTypeOK' /\ StagingType' /\ RunType'
    BY <1>1, <1>2, <1>4, <2>2 DEF RequestsTypeOK, StagingType, RunType
  <2> QED
    BY <1>1, <1>4, <2>3, CorpusSame, PlanStays
<1> QED
  BY <1>3, <1>4 DEF BeginPromotion

LEMMA ReadStep ==
  ASSUME Typed, NEW w \in Worker, Release(w) \/ SelectBatch(w) \/ Decide(w)
  PROVE  RequestsTypeOK' /\ StagingType' /\ CorpusType' /\ RunType' /\ PlanInv'
<1> USE DEF Typed
<1>0. w \in Actor
  BY DEF Actor
<1>1. UNCHANGED corpus /\ UNCHANGED requests /\ UNCHANGED <<faults, pin>>
  BY DEF Release, SelectBatch, Decide
<1>2. RequestsTypeOK' /\ CorpusType' /\ Judgment' = Judgment
  BY <1>1, CorpusSame, FaultOnly
<1>3. CASE Release(w)
  <2>1. StagingType'
    BY <1>3 DEF Release, StagingType
  <2>2. RunType'
    BY <1>3 DEF Release, RunType
  <2>3. \A a \in Actor : pc'[a] = pc[a] \/ pc'[a] = "select"
    BY <1>3 DEF Release, Goto, LockInv
  <2>4. PlanInv'
    BY <1>2, <1>3, <2>3, PlanStays DEF Release
  <2> QED
    BY <1>2, <2>1, <2>2, <2>4
<1>4. CASE SelectBatch(w)
  <2>1. Preferred(w) \subseteq Page /\ Waiting(w) \subseteq Page
    BY DEF Preferred, Waiting, Pending
  <2>2. RunType'
    BY <1>4, <2>1 DEF SelectBatch, RunType
  <2>3. \A a \in Actor : pc'[a] = pc[a] \/ pc'[a] = "rows"
    BY <1>4 DEF SelectBatch, Goto, LockInv
  <2>4. PlanInv'
    BY <1>2, <1>4, <2>3, PlanStays DEF SelectBatch
  <2>5. StagingType'
    BY <1>4, StagingSame DEF SelectBatch
  <2> QED
    BY <1>2, <2>2, <2>4, <2>5
<1>5. CASE Decide(w)
  <2>1. PICK r \in batch[w] : Decide(w)!(r)
    BY <1>5 DEF Decide
  <2>2. r \in Page
    BY <2>1 DEF RunType
  <2>3. RunType'
    BY <1>1, <2>1 DEF RunType
  <2>4. /\ Verdict(r, 0).row = r /\ Sound(Verdict(r, 0))
        /\ Verdict(r, 0).do = "upgrade" => Verdict(r, 0).of \in Judgment
    BY <2>2, VerdictSound
  <2>5. Verdict(r, 0).of \in Page \cup {None}
    BY <2>4 DEF Sound
  <2>6. \A b \in Actor \ {w} : pc'[b] = pc[b]
    BY <2>1 DEF Goto, LockInv
  <2>7. plan' = [plan EXCEPT ![w] = Verdict(r, 0)]
    BY <2>1
  <2>8. PlanInv'
    BY <1>0, <1>2, <2>2, <2>4, <2>5, <2>6, <2>7, PlanMade
  <2>9. StagingType'
    BY <2>1, StagingSame
  <2> QED
    BY <1>2, <2>3, <2>8, <2>9
<1> QED
  BY <1>3, <1>4, <1>5

LEMMA WriteStep ==
  ASSUME Typed, NEW w \in Worker, CommitRow(w) \/ RowRaises(w)
  PROVE  RequestsTypeOK' /\ StagingType' /\ CorpusType' /\ RunType' /\ PlanInv'
<1> USE DEF Typed
<1>0. w \in Actor /\ pc[w] = "commit"
  BY DEF Actor, CommitRow, RowRaises, At
<1>1. plan[w].row \in Page /\ Sound(plan[w]) /\ (plan[w].do = "upgrade" => plan[w].of \in Judgment)
  BY <1>0 DEF PlanInv
<1>2. UNCHANGED requests /\ (Fault \/ UNCHANGED faults) /\ UNCHANGED <<arrival, judged>>
  BY DEF CommitRow, RowRaises
<1>3. RequestsTypeOK' /\ open \in SUBSET Page /\ judged' \subseteq Page
  BY <1>2, FaultOnly DEF StagingType
<1>4. CASE CommitRow(w)
  <2>1. Apply(plan[w], open) /\ Decided(w, "rows") /\ UNCHANGED run
    BY <1>4 DEF CommitRow
  <2>2. StagingType' /\ CorpusType' /\ Judgment \subseteq Judgment'
    BY <1>1, <1>2, <1>3, <2>1, ApplyType
  <2>3. PlanInv' /\ RunType'
    BY <1>0, <2>1, <2>2, PlanDropped DEF run, RunType
  <2> QED
    BY <1>3, <2>2, <2>3
<1>5. CASE RowRaises(w)
  <2>1. CorpusType' /\ Judgment' = Judgment
    BY <1>5, CorpusSame DEF RowRaises
  <2>2. CASE Leave(w) /\ UNCHANGED <<status, why, items, open>>
    BY <1>2, <1>3, <2>1, <2>2, LeaveType DEF StagingType
  <2>3. CASE /\ Decided(w, "rows") /\ NewItems({plan[w].row}, open) /\ UNCHANGED run
             /\ status' = [status EXCEPT ![plan[w].row] = "quarantined"]
             /\ why' = [why EXCEPT ![plan[w].row] = "error"]
    <3>1. items' \in [Page -> Nat] /\ open' \subseteq Page
      BY <1>1, <1>3, <2>3, NewItemsType
    <3>2. StagingType'
      BY <1>1, <1>2, <2>3, <3>1 DEF StagingType
    <3>3. PlanInv' /\ RunType'
      BY <1>0, <2>1, <2>3, PlanDropped DEF run, RunType
    <3> QED
      BY <1>3, <2>1, <3>2, <3>3
  <2> QED
    BY <1>5, <2>2, <2>3 DEF RowRaises
<1> QED
  BY <1>4, <1>5

LEMMA EndStep ==
  ASSUME Typed, NEW w \in Worker, AskForNext(w) \/ EndPromotion(w) \/ WorkerDies(w)
  PROVE  RequestsTypeOK' /\ StagingType' /\ CorpusType' /\ RunType' /\ PlanInv'
<1> USE DEF Typed
<1>0. w \in Proc /\ w \in Actor /\ pin[w] \in Key
  BY ProcAssumption DEF Actor, RunType
<1>1. StagingType' /\ CorpusType' /\ Judgment' = Judgment
  BY CorpusSame, StagingSame DEF AskForNext, EndPromotion, WorkerDies
<1>2. CASE AskForNext(w)
  <2>1. <<pin[w]>> \in Seq(Key)
    BY <1>0
  <2>2. asks' \in [Proc -> Seq(Key)]
    BY <1>0, <1>2, <2>1, AskForType DEF AskForNext, RequestsTypeOK
  <2>3. RequestsTypeOK'
    BY <1>2, <2>2 DEF AskForNext, RequestsTypeOK
  <2>4. \A a \in Actor : pc'[a] = pc[a] \/ pc'[a] = "unlock"
    BY <1>2 DEF AskForNext, Goto, LockInv
  <2>5. PlanInv' /\ RunType'
    BY <1>1, <1>2, <2>4, PlanStays DEF AskForNext, run, RunType
  <2> QED
    BY <1>1, <2>3, <2>5
<1>3. CASE EndPromotion(w)
  <2>1. RequestsTypeOK'
    BY <1>3, FaultOnly DEF EndPromotion
  <2>2. PlanInv' /\ RunType'
    BY <1>1, <1>3, LeaveType DEF EndPromotion
  <2> QED
    BY <1>1, <2>1, <2>2
<1>4. CASE WorkerDies(w)
  <2>1. faults' \in 0..MaxFaults
    BY <1>4, FaultType DEF WorkerDies, RequestsTypeOK
  <2>2. RequestsTypeOK'
    <3>1. CASE DiesAsking(w) /\ UNCHANGED due
      BY <1>0, <2>1, <3>1, DiesType DEF RequestsTypeOK
    <3>2. CASE due' \in {due, due \cup {pin[w]}} /\ UNCHANGED <<key, asks>>
      BY <1>0, <2>1, <3>2 DEF RequestsTypeOK
    <3> QED
      BY <1>4, <3>1, <3>2 DEF WorkerDies
  <2>3. PlanInv' /\ RunType'
    BY <1>1, <1>4, LeaveType DEF WorkerDies
  <2> QED
    BY <1>1, <2>2, <2>3
<1> QED
  BY <1>2, <1>3, <1>4

LEMMA ReviewStep ==
  ASSUME Typed, NEW v \in Reviewer, Open(v) \/ Reject(v) \/ Accept(v) \/ CommitReview(v)
  PROVE  RequestsTypeOK' /\ StagingType' /\ CorpusType' /\ RunType' /\ PlanInv'
<1> USE DEF Typed
<1>0. v \in Actor
  BY DEF Actor
<1>1. UNCHANGED requests /\ UNCHANGED faults /\ UNCHANGED run
  BY DEF Open, Reject, Accept, CommitReview
<1>2. RequestsTypeOK' /\ RunType'
  BY <1>1, FaultOnly DEF run, RunType
<1>3. CASE Open(v)
  <2>1. PICK r \in open : Open(v)!(r)
    BY <1>3 DEF Open
  <2> DEFINE p == [NoPlan EXCEPT !.row = r, !.item = items[r]]
  <2>2. p.row = r /\ p.of = None /\ r \in Page
    BY DEF NoPlan, StagingType
  <2>3. pc'[v] = "review" /\ \A b \in Actor \ {v} : pc'[b] = pc[b]
    BY <1>0, <2>1 DEF Goto, LockInv
  <2>4. CorpusType' /\ Judgment' = Judgment /\ StagingType'
    BY <2>1, CorpusSame, StagingSame
  <2>5. plan' = [plan EXCEPT ![v] = p]
    BY <2>1
  <2> HIDE DEF p
  <2>6. PlanInv'
    BY <1>0, <2>2, <2>3, <2>4, <2>5, PlanMade
  <2> QED
    BY <1>2, <2>4, <2>6
<1>4. CASE Reject(v)
  <2>1. plan[v].row \in Page
    BY <1>0, <1>4 DEF Reject, At, PlanInv
  <2>2. CorpusType' /\ Judgment' = Judgment
    BY <1>4, CorpusSame DEF Reject
  <2>3. StagingType'
    BY <1>4, <2>1 DEF Reject, StillOpen, StagingType
  <2>4. PlanInv'
    BY <1>0, <1>4, <2>2, PlanDropped DEF Reject
  <2> QED
    BY <1>2, <2>2, <2>3, <2>4
<1>5. CASE Accept(v)
  <2> DEFINE r == plan[v].row
             p == Verdict(plan[v].row, plan[v].item)
  <2>1. r \in Page
    BY <1>0, <1>5 DEF Accept, At, PlanInv
  <2>2. p.row = r /\ Sound(p) /\ (p.do = "upgrade" => p.of \in Judgment)
    BY <2>1, VerdictSound
  <2>3. p.of \in Page \cup {None}
    BY <2>2 DEF Sound
  <2>4. CorpusType' /\ Judgment' = Judgment /\ StagingType'
    BY <1>5, CorpusSame, StagingSame DEF Accept
  <2>5. plan' = [plan EXCEPT ![v] = p] /\ \A b \in Actor \ {v} : pc'[b] = pc[b]
    BY <1>5 DEF Accept, Goto, LockInv
  <2> HIDE DEF r, p
  <2>6. PlanInv'
    BY <1>0, <2>1, <2>2, <2>3, <2>4, <2>5, PlanMade
  <2> QED
    BY <1>2, <2>4, <2>6
<1>6. CASE CommitReview(v)
  <2>1. plan[v].row \in Page /\ Sound(plan[v]) /\ (plan[v].do = "upgrade" => plan[v].of \in Judgment)
    BY <1>0, <1>6 DEF CommitReview, At, PlanInv
  <2>2. StagingType' /\ CorpusType' /\ Judgment \subseteq Judgment'
    <3>1. CASE UNCHANGED <<staging, corpus>>
      BY <3>1, CorpusSame, StagingSame
    <3>2. CASE /\ Apply(plan[v], StillOpen(v))
               /\ judged' = judged \cup {plan[v].row} /\ UNCHANGED arrival
      <4>1. StillOpen(v) \in SUBSET Page /\ judged' \subseteq Page
        BY <2>1, <3>2 DEF StillOpen, StagingType
      <4> QED
        BY <2>1, <3>2, <4>1, ApplyType
    <3> QED
      BY <1>6, <3>1, <3>2 DEF CommitReview
  <2>3. PlanInv'
    BY <1>0, <1>6, <2>2, PlanDropped DEF CommitReview
  <2> QED
    BY <1>2, <2>2, <2>3
<1> QED
  BY <1>3, <1>4, <1>5, <1>6

LEMMA TypedStep ==
  ASSUME Typed, Next
  PROVE  Typed'
<1>1. LockInv'
  BY LockStep DEF Typed
<1>2. ASSUME OthersSame, RequestsTypeOK'
      PROVE  Typed'
  <2>1. CorpusType' /\ Judgment' = Judgment /\ StagingType'
    BY <1>2, CorpusSame, StagingSame DEF OthersSame, Typed
  <2>2. PlanInv'
    BY <1>2, <2>1, PlanStays DEF OthersSame, Typed
  <2>3. RunType'
    BY <1>2 DEF OthersSame, Typed, run, RunType
  <2> QED
    BY <1>1, <1>2, <2>1, <2>2, <2>3 DEF Typed
<1>3. ASSUME NEW j \in Job, Commit(j) \/ JobDies(j)
      PROVE  Typed'
  BY <1>1, <1>3, JobStep DEF Typed
<1>4. ASSUME NEW w \in Worker, (\E k \in Key : BeginPromotion(w, k)) \/ Step(w) \/ WorkerDies(w)
      PROVE  Typed'
  <2>1. ASSUME NEW k \in Key, BeginPromotion(w, k)
        PROVE  Typed'
    BY <1>1, <2>1, BeginStep DEF Typed
  <2>2. CASE Release(w) \/ SelectBatch(w) \/ Decide(w)
    BY <1>1, <2>2, ReadStep DEF Typed
  <2>3. CASE CommitRow(w) \/ RowRaises(w)
    BY <1>1, <2>3, WriteStep DEF Typed
  <2>4. CASE AskForNext(w) \/ EndPromotion(w) \/ WorkerDies(w)
    BY <1>1, <2>4, EndStep DEF Typed
  <2> QED
    BY <1>4, <2>1, <2>2, <2>3, <2>4 DEF Step
<1>5. ASSUME NEW v \in Reviewer, Open(v) \/ Reject(v) \/ Accept(v) \/ CommitReview(v)
      PROVE  Typed'
  <2>1. RequestsTypeOK' /\ StagingType' /\ CorpusType' /\ RunType' /\ PlanInv'
    BY <1>5, ReviewStep
  <2> QED
    BY <1>1, <2>1 DEF Typed
<1>6. ASSUME NEW p \in Proc, Request(p), OthersSame
      PROVE  Typed'
  BY <1>2, <1>6, RequestStep DEF Typed
<1>7. ASSUME NEW k \in Key, Elapse(k), OthersSame
      PROVE  Typed'
  BY <1>2, <1>7, RequestStep DEF Typed
<1>8. ASSUME Beat(All), OthersSame
      PROVE  Typed'
  BY <1>2, <1>8, RequestStep DEF Typed
<1> QED
  BY <1>3, <1>4, <1>5, <1>6, <1>7, <1>8 DEF Next

LEMMA TypedInit ==
  ASSUME Init
  PROVE  Typed
<1>1. RequestsTypeOK
  <2>1. <<>> \in Seq(Key)
    OBVIOUS
  <2>2. 0 \in 0..MaxFaults
    BY FaultAssumption
  <2> QED
    BY <2>1, <2>2 DEF Init, RequestsInit, RequestsTypeOK
<1> USE NobodyAssumption DEF Init
<1>2. LockInv
  BY DEF LockInv, Actor
<1>3. StagingType
  BY PageAssumption DEF StagingType
<1>4. CorpusType
  BY DEF CorpusType, Function
<1>5. RunType
  BY KeyAssumption DEF RunType
<1>6. PlanInv
  BY DEF PlanInv, NoPlan, Function
<1> QED
  BY <1>1, <1>2, <1>3, <1>4, <1>5, <1>6 DEF Typed

LEMMA TypedStutter ==
  ASSUME Typed, UNCHANGED vars
  PROVE  Typed'
BY DEF Typed, vars, staging, corpus, run, requests, RequestsTypeOK, LockInv, StagingType,
   CorpusType, Function, RunType, PlanInv, Sound, Judgment

\* Types, and one run at a time: the worker in a run is the one that holds the lock.
THEOREM OneRun == Spec => []TypeOK
<1>1. Init => Typed
  BY TypedInit
<1>2. Typed /\ [Next]_vars => Typed'
  BY TypedStep, TypedStutter
<1>3. Typed => TypeOK
  BY TypedImplies
<1> QED
  BY <1>1, <1>2, <1>3, PTL DEF Spec
--------------------------------------------------------------------------------
(* Pages and what is done with them. *)

PageOK(r) ==
  /\ status[r] = "none" => items[r] = 0 /\ r \notin open /\ r \notin judged
  /\ why[r] = "nocite" => Unreported(r)
  /\ r \in Judgment => status[r] = "promoted" \/ r \in judged
  /\ status[r] = "quarantined" => r \in open \/ items[r] = 0

PageInv == \A r \in Page : PageOK(r)

\* An actor is on a page that has been staged.
RowInv == \A a \in Actor : pc[a] \in {"review", "commit"} => status[plan[a].row] # "none"

\* Judgment j is incomplete and page r is fuller, unless a person has had one of the two texts.
Poorer(j, r) == \/ r \in judged \/ body[j] \in judged
                \/ ~Complete(j) /\ Fuller(r, j)

\* What a run has read stays as it was read, but for what reviewers do to it.
HeldBy(w) ==
  /\ pc[w] = "release" =>
       \A r \in batch[w] : Unreported(r) /\ (status[r] = "quarantined" \/ r \in judged)
  /\ pc[w] \in {"rows", "commit"} => \A r \in batch[w] : status[r] = "extracted" \/ r \in judged
  /\ pc[w] = "commit" =>
       (status[plan[w].row] = "extracted" \/ plan[w].row \in judged) /\ plan[w].row \notin batch[w]
  /\ pc[w] = "commit" /\ plan[w].do = "upgrade" => Poorer(plan[w].of, plan[w].row)

HeldInv == \A w \in Worker : HeldBy(w)

Inv == Typed /\ PageInv /\ RowInv /\ HeldInv

\* What a step that is not one of a run, or one of a run's commits, may do to a page.
Mild(r) == \/ status'[r] = status[r] \/ r \in judged' \/ status[r] = "none"
           \/ status[r] = "quarantined" /\ status'[r] = "duplicate" /\ ~Unreported(r)

\* The text of a judgment, and whether its judges are known, stay as they are.
TextSame(j) == body'[j] = body[j] /\ (j \in benched' <=> j \in benched)

\* What such a step may do to the text of a judgment.
MildText(j) == TextSame(j) \/ body'[j] \in judged'

LEMMA SettleEffect ==
  ASSUME StagingType, NEW r \in Page, NEW outcome, NEW waiting \in SUBSET open,
         open \ {r} \subseteq waiting, Settle(r, outcome, waiting)
  PROVE  /\ status'[r] = outcome /\ UNCHANGED <<why, items>>
         /\ open' \subseteq open
         /\ \A s \in Page \ {r} : 
              \/ status'[s] = status[s] /\ (s \in open => s \in open')
              \/ status[s] = "quarantined" /\ status'[s] = "duplicate" /\ ~Unreported(s)
<1>1. \A s \in Superseded(r) : status[s] = "quarantined" /\ ~Unreported(s) /\ s # r
  BY DEF Superseded
<1> QED
  BY <1>1 DEF Settle

LEMMA ApplyEffect ==
  ASSUME Typed, PageInv, NEW v, v.row \in Page, Sound(v), v.do = "upgrade" => v.of \in Judgment,
         NEW waiting \in SUBSET open, open \ {v.row} \subseteq waiting, Apply(v, waiting),
         judged \subseteq judged', judged' \subseteq judged \cup {v.row}, status[v.row] # "none",
         status[v.row] = "extracted" \/ v.row \in judged'
  PROVE  /\ PageInv'
         /\ \A r \in Page \ {v.row} : Mild(r)
         /\ status'[v.row] # "none"
         /\ \A j \in Judgment : \/ TextSame(j)
                                \/ body'[j] = v.row /\ j = v.row
                                \/ body'[j] = v.row /\ v.do = "upgrade" /\ j = v.of /\ benched' = benched \cup Benches(v.row, j)
<1> USE DEF Typed
<1>1. CASE v.do = "refuse"
  <2>1. /\ NewItems({v.row}, waiting) /\ UNCHANGED corpus
        /\ status' = [status EXCEPT ![v.row] = "quarantined"] /\ why' = [why EXCEPT ![v.row] = v.why]
    BY <1>1, ApplyCases
  <2>2. v.why = "nocite" => Unreported(v.row)
    BY <1>1 DEF Sound
  <2>3. Judgment' = Judgment /\ UNCHANGED body
    BY <2>1 DEF corpus, Judgment
  <2>4. ASSUME NEW r \in Page, r # v.row
        PROVE  PageOK(r)' /\ status'[r] = status[r]
    <3>1. /\ status'[r] = status[r] /\ why'[r] = why[r] /\ items'[r] = items[r]
          /\ r \in open' <=> r \in open
      BY <2>1, <2>4 DEF NewItems, StagingType
    <3> QED
      BY <2>3, <2>4, <3>1 DEF PageInv, PageOK
  <2>5. PageOK(v.row)' /\ status'[v.row] = "quarantined"
    <3>1. status'[v.row] = "quarantined" /\ why'[v.row] = v.why /\ v.row \in open'
      BY <2>1 DEF NewItems, StagingType
    <3>2. v.row \in Judgment => v.row \in judged'
      BY DEF PageInv, PageOK
    <3> QED
      BY <2>2, <2>3, <3>1, <3>2 DEF PageOK
  <2>6. PageInv' /\ \A r \in Page \ {v.row} : Mild(r)
    BY <2>4, <2>5 DEF PageInv, Mild
  <2>7. status'[v.row] # "none" /\ \A j \in Judgment : TextSame(j)
    BY <2>1, <2>3, <2>5 DEF corpus, TextSame
  <2>8. \A j \in Judgment : \/ TextSame(j)
                            \/ body'[j] = v.row /\ j = v.row
                            \/ body'[j] = v.row /\ v.do = "upgrade" /\ j = v.of /\ benched' = benched \cup Benches(v.row, j)
    BY <2>7
  <2> QED
    BY <2>6, <2>7, <2>8
<1>2. CASE v.do # "refuse"
  <2>1. PICK outcome \in {"promoted", "duplicate"} :
          Settle(v.row, outcome, waiting) /\ (v.do = "save" => outcome = "promoted")
    BY <1>2, ApplyCases
  <2>2. /\ status'[v.row] = outcome /\ UNCHANGED <<why, items>> /\ open' \subseteq open
        /\ \A s \in Page \ {v.row} : 
             \/ status'[s] = status[s] /\ (s \in open => s \in open')
             \/ status[s] = "quarantined" /\ status'[s] = "duplicate" /\ ~Unreported(s)
    BY <2>1, SettleEffect
  <2>3. Judgment' = Judgment \/ (Judgment' = Judgment \cup {v.row} /\ v.do = "save")
    <3>1. CASE UNCHANGED name
      BY <3>1 DEF Judgment
    <3>2. CASE v.do = "save" /\ name' = [name EXCEPT ![v.row] = v.name]
      <4>1. v.name # <<>>
        BY <3>2 DEF Sound
      <4>2. \A j \in Page : name'[j] = IF j = v.row THEN v.name ELSE name[j]
        BY <3>2 DEF CorpusType, Function
      <4> QED
        BY <3>2, <4>1, <4>2 DEF Judgment
    <3> QED
      BY <1>2, <3>1, <3>2, ApplyCases
  <2>4. ASSUME NEW r \in Page, r # v.row
        PROVE  PageOK(r)' /\ Mild(r)
    <3>1. r \in Judgment' <=> r \in Judgment
      BY <2>3, <2>4
    <3> QED
      BY <2>2, <2>4, <3>1 DEF PageInv, PageOK, Mild
  <2>5. PageOK(v.row)' /\ status'[v.row] # "none"
    <3>1. v.row \in Judgment => v.row \in judged'
      BY DEF PageInv, PageOK
    <3>2. v.row \in Judgment' => outcome = "promoted" \/ v.row \in judged'
      BY <2>1, <2>3, <3>1
    <3> QED
      BY <2>2, <3>2 DEF PageInv, PageOK
  <2>6. \A j \in Judgment : \/ TextSame(j)
                            \/ body'[j] = v.row /\ j = v.row
                            \/ body'[j] = v.row /\ v.do = "upgrade" /\ j = v.of /\ benched' = benched \cup Benches(v.row, j)
    <3>1. \/ UNCHANGED <<body, benched>>
          \/ v.do = "upgrade" /\ body' = [body EXCEPT ![v.of] = v.row]
             /\ benched' = benched \cup Benches(v.row, v.of)
          \/ body' = [body EXCEPT ![v.row] = v.row] /\ benched' = benched \cup Benches(v.row, v.row)
      BY <1>2, ApplyCases
    <3>2. Judgment \subseteq Page /\ body \in [Page -> Page \cup {None}]
      BY DEF Judgment, CorpusType
    <3>3. ASSUME NEW j \in Judgment, NEW x, body' = [body EXCEPT ![x] = v.row],
                 benched' = benched \cup Benches(v.row, x)
          PROVE  TextSame(j) \/ (body'[j] = v.row /\ j = x)
      BY <3>2, <3>3 DEF TextSame, Benches
    <3>4. CASE UNCHANGED <<body, benched>>
      BY <3>4 DEF TextSame
    <3>5. CASE v.do = "upgrade" /\ body' = [body EXCEPT ![v.of] = v.row]
               /\ benched' = benched \cup Benches(v.row, v.of)
      BY <3>3, <3>5
    <3>6. CASE body' = [body EXCEPT ![v.row] = v.row] /\ benched' = benched \cup Benches(v.row, v.row)
      BY <3>3, <3>6
    <3> QED
      BY <3>1, <3>4, <3>5, <3>6
  <2> QED
    BY <2>4, <2>5, <2>6 DEF PageInv
<1> QED
  BY <1>1, <1>2

\* A step that is mild to pages and texts.
Gentle == /\ \A r \in Page : Mild(r)
          /\ \A j \in Judgment : MildText(j)
          /\ judged \subseteq judged'
          /\ \A r \in Page : status'[r] = "none" => status[r] = "none"

LEMMA HeldStays ==
  ASSUME Inv, Gentle, NEW w \in Worker, pc'[w] = pc[w], batch'[w] = batch[w], plan'[w] = plan[w]
  PROVE  HeldBy(w)'
<1>1. HeldBy(w) /\ batch[w] \subseteq Page
  BY DEF Inv, HeldInv, Typed, RunType
<1>2. pc[w] = "commit" => plan[w].row \in Page
  BY DEF Inv, Typed, PlanInv, Actor
<1>3. pc[w] = "commit" /\ plan[w].do = "upgrade" => plan[w].of \in Judgment
  BY DEF Inv, Typed, PlanInv, Actor
<1>4. \A r \in Page : status[r] = "extracted" \/ r \in judged => status'[r] = "extracted" \/ r \in judged'
  BY DEF Gentle, Mild
<1>5. \A r \in Page : Unreported(r) /\ (status[r] = "quarantined" \/ r \in judged)
                     => status'[r] = "quarantined" \/ r \in judged'
  BY DEF Gentle, Mild
<1>6. ASSUME NEW j \in Judgment, NEW r, Poorer(j, r)
      PROVE  \/ r \in judged' \/ body'[j] \in judged'
             \/ (~Complete(j) /\ Fuller(r, j))'
  BY <1>6 DEF Poorer, Gentle, MildText, TextSame, Complete, Fuller
<1>7. pc[w] = "commit" /\ plan[w].do = "upgrade" =>
        LET j == plan[w].of  r == plan[w].row
        IN \/ r \in judged' \/ body'[j] \in judged'
           \/ ~Complete(j)' /\ Fuller(r, j)'
  BY <1>1, <1>3, <1>6 DEF HeldBy, Complete, Fuller
<1> QED
  BY <1>1, <1>2, <1>4, <1>5, <1>7 DEF HeldBy, Poorer, Complete, Fuller

LEMMA RowStays ==
  ASSUME Inv, Gentle, UNCHANGED plan,
         \A a \in Actor : pc'[a] = pc[a] \/ pc'[a] \notin {"review", "commit"}
  PROVE  RowInv'
BY DEF Inv, RowInv, Gentle, Typed, PlanInv

LEMMA Alone ==
  ASSUME Typed, NEW w \in Worker, pc[w] # "idle"
  PROVE  \A x \in Worker \ {w} : pc[x] = "idle"
BY NobodyAssumption DEF Typed, LockInv

LEMMA HeldAlone ==
  ASSUME Typed, NEW w \in Worker, pc[w] # "idle", \A x \in Worker \ {w} : pc'[x] = pc[x], HeldBy(w)'
  PROVE  HeldInv'
<1>1. \A x \in Worker \ {w} : pc'[x] = "idle"
  BY Alone
<1>2. ASSUME NEW x \in Worker \ {w}
      PROVE  HeldBy(x)'
  BY <1>1 DEF HeldBy
<1> QED
  BY <1>2 DEF HeldInv

\* What the two action properties ask of a step.
Once   == \A r \in Page \ judged' : status[r] \in {"promoted", "duplicate"} => status'[r] = status[r]
NotPoorer ==
  \A j \in Judgment : body'[j] # body[j] /\ {body[j], body'[j]} \cap judged' = {} =>
    /\ ~Complete(j) /\ (j \in benched => j \in benched')
    /\ \/ Info[body'[j]].size > Info[body[j]].size
       \/ j \notin benched /\ j \in benched'

LEMMA GentleKeeps ==
  ASSUME Gentle
  PROVE  Once /\ NotPoorer
BY DEF Gentle, Mild, MildText, TextSame, Once, NotPoorer

LEMMA SameIsGentle ==
  ASSUME UNCHANGED <<status, judged, body, benched>>
  PROVE  Gentle
BY DEF Gentle, Mild, MildText, TextSame

LEMMA PagesSame ==
  ASSUME PageInv, UNCHANGED <<status, why, items, open, judged, name>>
  PROVE  PageInv'
<1>1. Judgment' = Judgment
  BY DEF Judgment
<1> QED
  BY <1>1 DEF PageInv, PageOK
--------------------------------------------------------------------------------
(* The steps. *)

Keeps == PageInv' /\ RowInv' /\ HeldInv' /\ Once /\ NotPoorer

LEMMA JobKeeps ==
  ASSUME Inv, NEW j \in Job, Commit(j) \/ JobDies(j)
  PROVE  Keeps
<1>1. UNCHANGED <<pc, plan, batch, judged, name, body, benched>>
  BY DEF Commit, JobDies, corpus, run, staging
<1>2. CASE Commit(j)
  <2>1. PICK r \in Page : Commit(j)!(r)
    BY <1>2 DEF Commit
  <2>2. status[r] = "none" /\ items[r] = 0 /\ r \notin open /\ r \notin Judgment /\ r \notin judged
    BY <2>1 DEF ComesNext, Inv, PageInv, PageOK
  <2>3. Info[r].found = "nocite" => Unreported(r)
    BY PageAssumption DEF Unreported
  <2>4. /\ \A s \in Page \ {r} : status'[s] = status[s] /\ why'[s] = why[s]
        /\ status'[r] \in {"extracted", "quarantined"} /\ UNCHANGED <<items, open>>
        /\ why'[r] = why[r] \/ why'[r] = Info[r].found
    BY <2>1 DEF Inv, Typed, StagingType
  <2>5. Gentle
    BY <1>1, <2>2, <2>4 DEF Gentle, Mild, MildText, TextSame
  <2>6. Judgment' = Judgment
    BY <1>1 DEF Judgment
  <2>7. PageInv'
    BY <1>1, <2>2, <2>3, <2>4, <2>6 DEF Inv, PageInv, PageOK
  <2> QED
    BY <1>1, <2>5, <2>7, GentleKeeps, HeldStays, RowStays DEF Keeps, HeldInv
<1>3. CASE JobDies(j)
  <2>1. UNCHANGED <<status, why, items, open>>
    BY <1>3 DEF JobDies, staging
  <2> QED
    BY <1>1, <2>1, SameIsGentle, PagesSame, GentleKeeps, HeldStays, RowStays DEF Inv, Keeps, HeldInv
<1> QED
  BY <1>2, <1>3

LEMMA OthersKeep ==
  ASSUME Inv, OthersSame \/ UNCHANGED vars
  PROVE  Keeps
<1>1. UNCHANGED <<staging, corpus, run, pc, plan>>
  BY DEF OthersSame, vars
<1> QED
  BY <1>1, SameIsGentle, PagesSame, GentleKeeps, HeldStays, RowStays
     DEF staging, corpus, run, Inv, Keeps, HeldInv

LEMMA BeginKeeps ==
  ASSUME Inv, NEW w \in Worker, NEW k \in Key, BeginPromotion(w, k)
  PROVE  Keeps
<1>1. UNCHANGED <<status, why, judged, name, body, benched, plan>>
  BY DEF BeginPromotion, corpus
<1>2. Gentle /\ Once /\ NotPoorer /\ Judgment' = Judgment
  BY <1>1, SameIsGentle, GentleKeeps DEF Judgment
<1>3. CASE lock = None /\ Start(w, k)
  <2>1. \A a \in Actor : pc'[a] = pc[a] \/ pc'[a] = "release"
    BY <1>3 DEF Start, Goto, Inv, Typed, LockInv
  <2>2. RowInv'
    BY <1>1, <1>2, <2>1, RowStays
  <2> DEFINE R == {r \in Page : status[r] = "quarantined" /\ items[r] = 0}
  <2>3. NewItems(R, open)
    BY <1>3 DEF Start
  <2>4. ASSUME NEW r \in Page
        PROVE  /\ status[r] # "quarantined" => items'[r] = items[r] /\ (r \in open' => r \in open)
               /\ status[r] = "quarantined" /\ items[r] = 0 => r \in open'
               /\ r \in open => r \in open'
    BY <2>3 DEF NewItems, Inv, Typed, StagingType
  <2>5. PageInv'
    BY <1>1, <1>2, <2>4 DEF Inv, PageInv, PageOK
  <2>6. pc'[w] = "release" /\ \A x \in Worker \ {w} : pc[x] = "idle" /\ pc'[x] = pc[x]
    BY <1>3, NobodyAssumption DEF Start, Goto, Actor, Inv, Typed, LockInv
  <2>7. \A r \in batch'[w] : r \in Page /\ status[r] = "quarantined" /\ why[r] = "nocite"
    BY <1>3 DEF Start, Inv, Typed, RunType
  <2>8. HeldBy(w)'
    BY <1>1, <2>6, <2>7 DEF HeldBy, Inv, PageInv, PageOK
  <2>9. ASSUME NEW x \in Worker \ {w}
        PROVE  HeldBy(x)'
    BY <2>6 DEF HeldBy
  <2> QED
    BY <1>2, <2>2, <2>5, <2>8, <2>9 DEF Keeps, HeldInv
<1>4. CASE UNCHANGED <<lock, pc, pin, items, open, batch>>
  BY <1>1, <1>2, <1>4, PagesSame, HeldStays, RowStays DEF Inv, Keeps, HeldInv
<1> QED
  BY <1>3, <1>4 DEF BeginPromotion

LEMMA ReleaseKeeps ==
  ASSUME Inv, NEW w \in Worker, Release(w)
  PROVE  Keeps
<1>1. pc[w] = "release" /\ UNCHANGED <<items, judged, name, body, benched, plan>> /\ Judgment' = Judgment
  BY DEF Release, At, corpus, Judgment
<1>2. \A r \in batch[w] : r \in Page /\ Unreported(r) /\ (status[r] = "quarantined" \/ r \in judged)
                       /\ status[r] # "none"
  BY <1>1 DEF Inv, HeldInv, HeldBy, Typed, RunType, PageInv, PageOK
<1>3. ASSUME NEW r \in Page
      PROVE  \/ UNCHANGED <<status[r], why[r]>> /\ (r \in open' <=> r \in open)
             \/ r \in batch[w] /\ status'[r] = status[r] /\ why'[r] = "held" /\ (r \in open' <=> r \in open)
             \/ r \in batch[w] /\ status'[r] = "extracted" /\ why'[r] = ""
  BY DEF Release, Inv, Typed, StagingType
<1>4. PageInv'
  BY <1>1, <1>2, <1>3 DEF Inv, PageInv, PageOK
<1>5. Once /\ NotPoorer
  BY <1>1, <1>2, <1>3 DEF Once, NotPoorer
<1>6. \A a \in Actor : pc'[a] = pc[a] \/ pc'[a] = "select"
  BY DEF Release, Goto, Inv, Typed, LockInv
<1>7. RowInv'
  BY <1>1, <1>3, <1>6 DEF Inv, RowInv, Typed, PlanInv
<1>8. pc'[w] = "select" /\ \A x \in Worker \ {w} : pc'[x] = pc[x]
  BY DEF Release, Goto, Actor, Inv, Typed, LockInv
<1>9. HeldInv'
  BY <1>1, <1>8, HeldAlone DEF HeldBy, Inv
<1> QED
  BY <1>4, <1>5, <1>7, <1>9 DEF Keeps

LEMMA SelectKeeps ==
  ASSUME Inv, NEW w \in Worker, SelectBatch(w)
  PROVE  Keeps
<1>1. pc[w] = "select" /\ UNCHANGED <<status, why, items, open, judged, name, body, benched, plan>>
  BY DEF SelectBatch, At, corpus, staging
<1>2. Gentle /\ Once /\ NotPoorer /\ PageInv'
  BY <1>1, SameIsGentle, GentleKeeps, PagesSame DEF Inv
<1>3. /\ pc'[w] = "rows" /\ \A x \in Worker \ {w} : pc'[x] = pc[x]
      /\ \A a \in Actor : pc'[a] = pc[a] \/ pc'[a] = "rows"
  BY DEF SelectBatch, Goto, Actor, Inv, Typed, LockInv
<1>4. RowInv'
  BY <1>1, <1>2, <1>3, RowStays
<1>5. \A r \in batch'[w] : r \in Page /\ status[r] = "extracted"
  <2>1. PICK P \in SUBSET Preferred(w), Q \in SUBSET Waiting(w) : batch' = [batch EXCEPT ![w] = P \cup Q]
    BY DEF SelectBatch
  <2>2. batch'[w] = P \cup Q
    BY <2>1 DEF Inv, Typed, RunType
  <2> QED
    BY <2>2 DEF Preferred, Waiting, Pending
<1>6. HeldBy(w)'
  BY <1>1, <1>3, <1>5 DEF HeldBy
<1>7. HeldInv'
  BY <1>1, <1>3, <1>6, HeldAlone DEF Inv
<1> QED
  BY <1>2, <1>4, <1>7 DEF Keeps

LEMMA DecideKeeps ==
  ASSUME Inv, NEW w \in Worker, Decide(w)
  PROVE  Keeps
<1>1. PICK r \in batch[w] : Decide(w)!(r)
  BY DEF Decide
<1>2. pc[w] = "rows" /\ UNCHANGED <<status, why, items, open, judged, name, body, benched>>
  BY <1>1 DEF At, corpus, staging
<1>3. Gentle /\ Once /\ NotPoorer /\ PageInv'
  BY <1>2, SameIsGentle, GentleKeeps, PagesSame DEF Inv
<1>4. r \in Page /\ w \in Actor /\ batch[w] \subseteq Page
  BY <1>1 DEF Inv, Typed, RunType, Actor
<1>5. /\ pc'[w] = "commit" /\ \A x \in Actor \ {w} : pc'[x] = pc[x]
      /\ batch'[w] \subseteq batch[w] /\ r \notin batch'[w]
  BY <1>1, <1>4 DEF Goto, Inv, Typed, LockInv, RunType
<1>6. plan'[w] = Verdict(r, 0) /\ \A x \in Actor \ {w} : plan'[x] = plan[x]
  BY <1>1, <1>4 DEF Inv, Typed, PlanInv, Function
<1>7. \A s \in batch[w] : (status[s] = "extracted" \/ s \in judged) /\ status[s] # "none"
  BY <1>2, <1>4 DEF Inv, HeldInv, HeldBy, PageInv, PageOK
<1>8. plan'[w].row = r
  BY <1>4, <1>6, VerdictSound DEF Inv, Typed
<1>9. RowInv'
  BY <1>1, <1>2, <1>5, <1>6, <1>7, <1>8 DEF Inv, RowInv
<1>10. plan'[w].do = "upgrade" => Upgrades(r, plan'[w].of)
  BY <1>4, <1>6, VerdictSound DEF Inv, Typed
<1>11. plan'[w].do = "upgrade" =>
         ~Complete(plan'[w].of) /\ Fuller(r, plan'[w].of)
  BY <1>10 DEF Upgrades
<1>12. HeldBy(w)'
  <2>1. \A s \in batch'[w] : status'[s] = "extracted" \/ s \in judged'
    BY <1>2, <1>5, <1>7
  <2>2. status'[plan'[w].row] = "extracted" \/ plan'[w].row \in judged'
    BY <1>1, <1>2, <1>7, <1>8
  <2> QED
    BY <1>2, <1>5, <1>8, <1>11, <2>1, <2>2 DEF HeldBy, Poorer, Complete, Fuller
<1>13. HeldInv'
  BY <1>2, <1>5, <1>12, HeldAlone DEF Inv, Actor
<1> QED
  BY <1>3, <1>9, <1>13 DEF Keeps

LEMMA RowsKept ==
  ASSUME Inv, NEW w \in Actor, NEW l \in {"idle", "rows"}, Decided(w, l),
         \A r \in Page : status'[r] = "none" => status[r] = "none"
  PROVE  RowInv'
<1>1. pc'[w] = l /\ \A a \in Actor \ {w} : pc'[a] = pc[a] /\ plan'[a] = plan[a]
  BY DEF Decided, Goto, Inv, Typed, LockInv, PlanInv, Function
<1>2. \A a \in Actor : pc[a] \in {"review", "commit"} => plan[a].row \in Page
  BY DEF Inv, Typed, PlanInv
<1> QED
  BY <1>1, <1>2 DEF Inv, RowInv

LEMMA LeaveKeeps ==
  ASSUME Inv, NEW w \in Worker, Leave(w), UNCHANGED <<status, why, items, open, judged, name, body, benched>>
  PROVE  Keeps
<1>1. Gentle /\ Once /\ NotPoorer /\ PageInv'
  BY SameIsGentle, GentleKeeps, PagesSame DEF Inv
<1>2. RowInv'
  BY <1>1, RowsKept DEF Leave, Actor
<1>3. pc'[w] = "idle" /\ HeldBy(w)'
  BY DEF Leave, Decided, Goto, Actor, Inv, Typed, LockInv, HeldBy
<1>4. ASSUME NEW x \in Worker \ {w}
      PROVE  HeldBy(x)'
  <2>1. pc'[x] = pc[x] /\ batch'[x] = batch[x] /\ plan'[x] = plan[x]
    BY DEF Leave, Decided, Goto, Actor, Inv, Typed, LockInv, RunType, PlanInv, Function
  <2> QED
    BY <1>1, <2>1, HeldStays
<1> QED
  BY <1>1, <1>2, <1>3, <1>4 DEF Keeps, HeldInv

LEMMA EndKeeps ==
  ASSUME Inv, NEW w \in Worker, EndPromotion(w) \/ WorkerDies(w) \/ AskForNext(w)
  PROVE  Keeps
<1>1. CASE EndPromotion(w) \/ WorkerDies(w)
  BY <1>1, LeaveKeeps DEF EndPromotion, WorkerDies, staging, corpus
<1>2. CASE AskForNext(w)
  <2>1. pc[w] = "rows" /\ UNCHANGED <<status, why, items, open, judged, name, body, benched, plan>>
    BY <1>2 DEF AskForNext, At, staging, corpus
  <2>2. Gentle /\ Once /\ NotPoorer /\ PageInv'
    BY <2>1, SameIsGentle, GentleKeeps, PagesSame DEF Inv
  <2>3. /\ pc'[w] = "unlock" /\ \A x \in Worker \ {w} : pc'[x] = pc[x]
        /\ \A a \in Actor : pc'[a] = pc[a] \/ pc'[a] = "unlock"
    BY <1>2 DEF AskForNext, Goto, Actor, Inv, Typed, LockInv
  <2>4. RowInv' /\ HeldBy(w)'
    BY <2>1, <2>2, <2>3, RowStays DEF HeldBy
  <2> QED
    BY <2>1, <2>2, <2>3, <2>4, HeldAlone DEF Inv, Keeps
<1> QED
  BY <1>1, <1>2

LEMMA CommitKeeps ==
  ASSUME Inv, NEW w \in Worker, CommitRow(w)
  PROVE  Keeps
<1> DEFINE v == plan[w]
<1>0. w \in Actor /\ pc[w] = "commit"
  BY DEF Actor, CommitRow, At
<1>1. v.row \in Page /\ Sound(v) /\ (v.do = "upgrade" => v.of \in Judgment)
  BY <1>0 DEF Inv, Typed, PlanInv
<1>2. status[v.row] # "none" /\ (status[v.row] = "extracted" \/ v.row \in judged)
  BY <1>0, <1>1 DEF Inv, RowInv, HeldInv, HeldBy
<1>3. Apply(v, open) /\ UNCHANGED judged /\ Decided(w, "rows") /\ UNCHANGED batch
  BY DEF CommitRow, run
<1>4. v.do = "upgrade" => Poorer(v.of, v.row)
  BY <1>0 DEF Inv, HeldInv, HeldBy
<1>5. /\ PageInv' /\ status'[v.row] # "none" /\ \A r \in Page \ {v.row} : Mild(r)
      /\ \A j \in Judgment :
           \/ TextSame(j)
           \/ body'[j] = v.row /\ j = v.row
           \/ body'[j] = v.row /\ v.do = "upgrade" /\ j = v.of /\ benched' = benched \cup Benches(v.row, j)
  <2> HIDE DEF v
  <2> QED
    BY <1>1, <1>2, <1>3, ApplyEffect DEF Inv
<1> HIDE DEF v
<1>6. Once
  BY <1>2, <1>3, <1>5 DEF Once, Mild
<1>7. v.row \in Judgment => v.row \in judged
  BY <1>1, <1>2 DEF Inv, PageInv, PageOK
<1>8. NotPoorer
  <2>1. ASSUME NEW j \in Judgment, body'[j] # body[j], {body[j], body'[j]} \cap judged' = {}
        PROVE  /\ ~Complete(j) /\ (j \in benched => j \in benched')
               /\ \/ Info[body'[j]].size > Info[body[j]].size
                  \/ j \notin benched /\ j \in benched'
    BY <1>3, <1>4, <1>5, <1>7, <2>1 DEF Poorer, Fuller, Benches, TextSame
  <2> QED
    BY <2>1 DEF NotPoorer
<1>9. \A r \in Page : status'[r] = "none" => status[r] = "none"
  BY <1>5, <1>3 DEF Mild, Inv, PageInv, PageOK
<1>10. RowInv'
  BY <1>0, <1>3, <1>9, RowsKept
<1>11. HeldBy(w)'
  <2>1. pc'[w] = "rows" /\ batch'[w] = batch[w] /\ batch[w] \subseteq Page
    BY <1>0, <1>3 DEF Decided, Goto, Inv, Typed, LockInv, RunType
  <2>2. \A r \in batch[w] : status[r] = "extracted" \/ r \in judged
    BY <1>0 DEF Inv, HeldInv, HeldBy
  <2>3. v.row \notin batch[w]
    BY <1>0 DEF Inv, HeldInv, HeldBy, v
  <2>4. ASSUME NEW r \in batch[w]
        PROVE  status'[r] = "extracted" \/ r \in judged'
    BY <1>3, <1>5, <2>1, <2>2, <2>3 DEF Mild
  <2> QED
    BY <2>1, <2>4 DEF HeldBy
<1>12. HeldInv'
  <2>1. \A x \in Worker \ {w} : pc'[x] = pc[x]
    BY <1>0, <1>3 DEF Decided, Goto, Inv, Typed, LockInv, Actor
  <2> QED
    BY <1>0, <1>11, <2>1, HeldAlone DEF Inv
<1> QED
  BY <1>5, <1>6, <1>8, <1>10, <1>12 DEF Keeps

LEMMA RaiseKeeps ==
  ASSUME Inv, NEW w \in Worker, RowRaises(w)
  PROVE  Keeps
<1> DEFINE s == plan[w].row
<1>0. w \in Actor /\ pc[w] = "commit" /\ UNCHANGED <<judged, name, body, benched>>
  BY DEF Actor, RowRaises, At, corpus
<1>1. s \in Page /\ s # None
  BY <1>0, NobodyAssumption DEF Inv, Typed, PlanInv
<1>2. status[s] # "none" /\ (status[s] = "extracted" \/ s \in judged)
  BY <1>0, <1>1 DEF Inv, RowInv, HeldInv, HeldBy
<1>3. CASE Leave(w) /\ UNCHANGED <<status, why, items, open>>
  BY <1>0, <1>3, LeaveKeeps
<1>4. CASE /\ Decided(w, "rows") /\ NewItems({s}, open) /\ UNCHANGED run
           /\ status' = [status EXCEPT ![s] = "quarantined"]
           /\ why' = [why EXCEPT ![s] = "error"]
  <2> HIDE DEF s
  <2>1. /\ \A r \in Page \ {s} :
             status'[r] = status[r] /\ why'[r] = why[r] /\ items'[r] = items[r] /\ (r \in open' <=> r \in open)
        /\ status'[s] = "quarantined" /\ why'[s] = "error" /\ s \in open'
    BY <1>1, <1>4 DEF NewItems, Inv, Typed, StagingType
  <2>2. Judgment' = Judgment /\ (s \in Judgment => s \in judged)
    BY <1>0, <1>1, <1>2 DEF Judgment, Inv, PageInv, PageOK
  <2>3. PageInv'
    BY <1>0, <1>1, <2>1, <2>2 DEF Inv, PageInv, PageOK
  <2>4. Once /\ NotPoorer
    BY <1>0, <1>2, <2>1 DEF Once, NotPoorer
  <2>5. RowInv'
    BY <1>0, <1>2, <1>4, <2>1, RowsKept
  <2>6. HeldBy(w)'
    <3>1. pc'[w] = "rows" /\ batch'[w] = batch[w] /\ batch[w] \subseteq Page
      BY <1>0, <1>4 DEF Decided, Goto, Inv, Typed, LockInv, RunType, run
    <3>2. \A r \in batch[w] : r # s /\ (status[r] = "extracted" \/ r \in judged)
      BY <1>0 DEF Inv, HeldInv, HeldBy, s
    <3> QED
      BY <1>0, <2>1, <3>1, <3>2 DEF HeldBy
  <2>7. HeldInv'
    <3>1. \A x \in Worker \ {w} : pc'[x] = pc[x]
      BY <1>0, <1>4 DEF Decided, Goto, Inv, Typed, LockInv, Actor
    <3> QED
      BY <1>0, <2>6, <3>1, HeldAlone DEF Inv
  <2> QED
    BY <2>3, <2>4, <2>5, <2>7 DEF Keeps
<1> QED
  BY <1>3, <1>4 DEF RowRaises

LEMMA ReviewerKeeps ==
  ASSUME Inv, NEW v \in Reviewer, Open(v) \/ Reject(v) \/ Accept(v) \/ CommitReview(v)
  PROVE  Keeps
<1>0. v \in Actor /\ v \notin Worker /\ UNCHANGED batch
  BY ProcAssumption DEF Actor, Open, Reject, Accept, CommitReview, run
<1>1. \A x \in Worker : x \in Actor /\ x # v
  BY <1>0 DEF Actor
<1>2. CASE Open(v)
  <2>1. PICK r \in open : Open(v)!(r)
    BY <1>2 DEF Open
  <2>2. UNCHANGED <<status, why, items, open, judged, name, body, benched>>
    BY <2>1 DEF staging, corpus
  <2>3. Gentle /\ Once /\ NotPoorer /\ PageInv'
    BY <2>2, SameIsGentle, GentleKeeps, PagesSame DEF Inv
  <2>4. \A a \in Actor \ {v} : pc'[a] = pc[a] /\ plan'[a] = plan[a]
    BY <2>1 DEF Goto, Inv, Typed, LockInv, PlanInv, Function
  <2> DEFINE p == [NoPlan EXCEPT !.row = r, !.item = items[r]]
  <2>5. p.row = r /\ plan'[v] = p
    BY <1>0, <2>1 DEF NoPlan, Inv, Typed, PlanInv, Function
  <2> HIDE DEF p
  <2>6. r \in Page /\ status[r] # "none"
    BY DEF Inv, Typed, StagingType, PageInv, PageOK
  <2>7. RowInv'
    BY <2>2, <2>4, <2>5, <2>6 DEF Inv, RowInv
  <2>8. HeldInv'
    BY <1>0, <1>1, <2>3, <2>4, HeldStays DEF HeldInv
  <2> QED
    BY <2>3, <2>7, <2>8 DEF Keeps
<1>3. CASE Reject(v)
  <2> DEFINE r == plan[v].row
  <2>1. pc[v] = "review" /\ Decided(v, "idle") /\ UNCHANGED <<why, items, name, body, benched>>
    BY <1>3 DEF Reject, At, corpus
  <2>2. r \in Page /\ status[r] # "none"
    BY <1>0, <2>1 DEF Inv, Typed, PlanInv, RowInv
  <2>3. /\ status' = [status EXCEPT ![r] = "failed"] /\ judged' = judged \cup {r}
        /\ open \ {r} \subseteq open' /\ open' \subseteq open
    BY <1>3 DEF Reject, StillOpen
  <2> HIDE DEF r
  <2>4. (\A s \in Page \ {r} : status'[s] = status[s]) /\ status'[r] = "failed"
    BY <2>2, <2>3 DEF Inv, Typed, StagingType
  <2>5. Gentle
    BY <2>1, <2>2, <2>3, <2>4 DEF Gentle, Mild, MildText, TextSame
  <2>6. Judgment' = Judgment
    BY <2>1 DEF Judgment
  <2>7. PageInv'
    BY <2>1, <2>2, <2>3, <2>4, <2>6 DEF Inv, PageInv, PageOK
  <2>8. RowInv'
    BY <1>0, <2>1, <2>5, RowsKept DEF Gentle
  <2>9. \A a \in Actor \ {v} : pc'[a] = pc[a] /\ plan'[a] = plan[a]
    BY <2>1 DEF Decided, Goto, Inv, Typed, LockInv, PlanInv, Function
  <2>10. HeldInv'
    BY <1>0, <1>1, <2>5, <2>9, HeldStays DEF HeldInv
  <2> QED
    BY <2>5, <2>7, <2>8, <2>10, GentleKeeps DEF Keeps
<1>4. CASE Accept(v)
  <2> DEFINE r == plan[v].row
             p == Verdict(plan[v].row, plan[v].item)
  <2>1. pc[v] = "review" /\ UNCHANGED <<status, why, items, open, judged, name, body, benched>>
    BY <1>4 DEF Accept, At, staging, corpus
  <2>2. r \in Page /\ status[r] # "none"
    BY <1>0, <2>1 DEF Inv, Typed, PlanInv, RowInv
  <2>3. Gentle /\ Once /\ NotPoorer /\ PageInv'
    BY <2>1, SameIsGentle, GentleKeeps, PagesSame DEF Inv
  <2>4. p.row = r
    BY <2>2, VerdictSound DEF Inv, Typed
  <2> HIDE DEF p
  <2>5. plan'[v] = p /\ \A a \in Actor \ {v} : pc'[a] = pc[a] /\ plan'[a] = plan[a]
    BY <1>0, <1>4 DEF Accept, Goto, Inv, Typed, LockInv, PlanInv, Function, p
  <2>6. RowInv'
    BY <2>1, <2>2, <2>4, <2>5 DEF Inv, RowInv
  <2>7. HeldInv'
    BY <1>0, <1>1, <2>3, <2>5, HeldStays DEF HeldInv
  <2> QED
    BY <2>3, <2>6, <2>7 DEF Keeps
<1>5. CASE CommitReview(v)
  <2> DEFINE d == plan[v]
  <2>1. pc[v] = "commit" /\ Decided(v, "idle")
    BY <1>5 DEF CommitReview, At
  <2>2. d.row \in Page /\ Sound(d) /\ (d.do = "upgrade" => d.of \in Judgment) /\ status[d.row] # "none"
    BY <1>0, <2>1 DEF Inv, Typed, PlanInv, RowInv
  <2>3. PageInv' /\ Gentle
    <3>1. CASE UNCHANGED <<staging, corpus>>
      BY <3>1, SameIsGentle, PagesSame DEF Inv, staging, corpus
    <3>2. CASE Apply(d, StillOpen(v)) /\ judged' = judged \cup {d.row}
      <4>1. StillOpen(v) \in SUBSET open /\ open \ {d.row} \subseteq StillOpen(v)
        BY DEF StillOpen
      <4> HIDE DEF d
      <4>2. /\ PageInv' /\ status'[d.row] # "none" /\ \A r \in Page \ {d.row} : Mild(r)
            /\ \A j \in Judgment :
                 \/ TextSame(j)
                 \/ body'[j] = d.row /\ j = d.row
                 \/ body'[j] = d.row /\ d.do = "upgrade" /\ j = d.of /\ benched' = benched \cup Benches(d.row, j)
        BY <2>2, <3>2, <4>1, ApplyEffect DEF Inv
      <4>3. Gentle
        <5>1. \A r \in Page : Mild(r)
          BY <3>2, <4>2 DEF Mild
        <5>2. \A j \in Judgment : MildText(j)
          BY <3>2, <4>2 DEF MildText
        <5>3. \A r \in Page : status'[r] = "none" => status[r] = "none"
          BY <2>2, <4>2 DEF Mild, PageInv, PageOK, Inv
        <5> QED
          BY <3>2, <5>1, <5>2, <5>3 DEF Gentle
      <4> QED
        BY <4>2, <4>3
    <3> QED
      BY <1>5, <3>1, <3>2 DEF CommitReview
  <2>4. RowInv'
    BY <1>0, <2>1, <2>3, RowsKept DEF Gentle
  <2>5. \A a \in Actor \ {v} : pc'[a] = pc[a] /\ plan'[a] = plan[a]
    BY <2>1 DEF Decided, Goto, Inv, Typed, LockInv, PlanInv, Function
  <2>6. HeldInv'
    BY <1>0, <1>1, <2>3, <2>5, HeldStays DEF HeldInv
  <2> QED
    BY <2>3, <2>4, <2>6, GentleKeeps DEF Keeps
<1> QED
  BY <1>2, <1>3, <1>4, <1>5

LEMMA StepKeeps ==
  ASSUME Inv, Next \/ UNCHANGED vars
  PROVE  Keeps
<1>1. ASSUME OthersSame \/ UNCHANGED vars
      PROVE  Keeps
  BY <1>1, OthersKeep
<1>2. ASSUME NEW j \in Job, Commit(j) \/ JobDies(j)
      PROVE  Keeps
  BY <1>2, JobKeeps
<1>3. ASSUME NEW w \in Worker, (\E k \in Key : BeginPromotion(w, k)) \/ Step(w) \/ WorkerDies(w)
      PROVE  Keeps
  <2>1. ASSUME NEW k \in Key, BeginPromotion(w, k)
        PROVE  Keeps
    BY <2>1, BeginKeeps
  <2> QED
    BY <1>3, <2>1, ReleaseKeeps, SelectKeeps, DecideKeeps, CommitKeeps, RaiseKeeps, EndKeeps DEF Step
<1>4. ASSUME NEW v \in Reviewer, Open(v) \/ Reject(v) \/ Accept(v) \/ CommitReview(v)
      PROVE  Keeps
  BY <1>4, ReviewerKeeps
<1> QED
  BY <1>1, <1>2, <1>3, <1>4 DEF Next
--------------------------------------------------------------------------------
(* The theorems. *)

LEMMA InvInit ==
  ASSUME Init
  PROVE  Inv
<1>1. Judgment = {}
  BY DEF Init, Judgment
<1>2. PageInv
  BY <1>1 DEF Init, PageInv, PageOK
<1>3. RowInv /\ HeldInv
  BY DEF Init, RowInv, HeldInv, HeldBy, Actor
<1> QED
  BY <1>2, <1>3, TypedInit DEF Inv

LEMMA InvStep ==
  ASSUME Inv, [Next]_vars
  PROVE  Inv' /\ Once /\ NotPoorer
<1>1. Keeps
  BY StepKeeps
<1>2. Typed'
  BY TypedStep, TypedStutter DEF Inv
<1> QED
  BY <1>1, <1>2 DEF Inv, Keeps

\* No page is stuck in quarantine without a review item, nor loses the one it has, for any number of
\* runs, crashes and reviewers.
THEOREM QuarantineIsSeen == Spec => []QuarantineSeen
<1>1. Inv => QuarantineSeen
  BY DEF Inv, PageInv, PageOK, QuarantineSeen
<1> QED
  BY <1>1, InvInit, InvStep, PTL DEF Spec

\* A page that is promoted, or found to be a duplicate, is never decided again by a run.
THEOREM NoPageDecidedAgain == Spec => DecidedOnce
<1>1. Inv /\ [Next]_vars =>
        [\A r \in Page \ judged' : status[r] \in {"promoted", "duplicate"} => status'[r] = status[r]]_vars
  BY InvStep DEF Once
<1> QED
  BY <1>1, InvInit, InvStep, PTL DEF Spec, DecidedOnce

\* An incomplete text alone is replaced, by a longer one or by one that names the judges it lacks,
\* and judges once known stay known, for any pages, runs and crashes.
THEOREM TextsNeverPoorer == Spec => NeverPoorer
<1>1. Inv /\ [Next]_vars =>
        [\A j \in Judgment : body'[j] # body[j] /\ {body[j], body'[j]} \cap judged' = {} =>
           /\ ~Complete(j) /\ (j \in benched => j \in benched')
           /\ \/ Info[body'[j]].size > Info[body[j]].size
              \/ j \notin benched /\ j \in benched']_vars
  BY InvStep DEF NotPoorer
<1> QED
  BY <1>1, InvInit, InvStep, PTL DEF Spec, NeverPoorer
--------------------------------------------------------------------------------
(* One order, one judgment.  What a step can do to the corpus and to the decisions in hand. *)

Others(a) == \A b \in Actor \ {a} : pc'[b] = pc[b] /\ plan'[b] = plan[b]

\* Nothing is written, and no decision is made; an actor may drop its own.
Rests == /\ UNCHANGED corpus /\ judged \subseteq judged'
         /\ \A a \in Actor : pc'[a] = "commit" => pc[a] = "commit" /\ plan'[a] = plan[a]

\* Actor a decides on a page, on the corpus as it stands.
Decides(a) == /\ Others(a) /\ UNCHANGED <<corpus, judged>>
              /\ \E r \in Page : \E i : plan'[a] = Verdict(r, i)

\* Actor a writes what it decided.
Commits(a) == /\ Others(a) /\ pc[a] = "commit" /\ pc'[a] # "commit"
              /\ ~Collides(plan[a]) /\ \E waiting : Apply(plan[a], waiting)
              /\ judged' = IF a \in Worker THEN judged ELSE judged \cup {plan[a].row}

LEMMA GotoOthers ==
  ASSUME Typed, NEW a \in Actor, NEW l, Decided(a, l)
  PROVE  Others(a) /\ pc'[a] = l
BY DEF Typed, LockInv, PlanInv, Function, Decided, Goto, Others

LEMMA KindsOfWorker ==
  ASSUME Inv, NEW w \in Worker, Step(w) \/ WorkerDies(w) \/ \E k \in Key : BeginPromotion(w, k)
  PROVE  Rests \/ \E a \in Actor : Decides(a) \/ Commits(a)
<1>0. w \in Actor /\ Typed
  BY DEF Actor, Inv
<1>1. CASE \/ \E k \in Key : BeginPromotion(w, k)
           \/ Release(w) \/ SelectBatch(w) \/ AskForNext(w)
  <2>1. UNCHANGED <<corpus, plan, judged>>
    BY <1>1 DEF BeginPromotion, Release, SelectBatch, AskForNext, staging
  <2>2. UNCHANGED pc \/ \E l \in {"release", "select", "rows", "unlock"} : Goto(w, l)
    BY <1>1 DEF BeginPromotion, Start, Release, SelectBatch, AskForNext
  <2>3. \A a \in Actor : pc'[a] = pc[a] \/ pc'[a] # "commit"
    BY <1>0, <2>2 DEF Goto, Typed, LockInv
  <2> QED
    BY <2>1, <2>3 DEF Rests
<1>2. CASE RowRaises(w) \/ EndPromotion(w) \/ WorkerDies(w)
  <2>1. UNCHANGED <<corpus, judged>> /\ \E l \in {"rows", "idle"} : Decided(w, l)
    BY <1>2 DEF RowRaises, EndPromotion, WorkerDies, Leave, staging
  <2>2. Others(w) /\ pc'[w] # "commit"
    BY <1>0, <2>1, GotoOthers
  <2> QED
    BY <2>1, <2>2 DEF Rests, Others
<1>3. CASE Decide(w)
  <2>1. PICK r \in batch[w] : Decide(w)!(r)
    BY <1>3 DEF Decide
  <2>2. r \in Page /\ UNCHANGED <<corpus, judged>>
    BY <2>1 DEF Inv, Typed, RunType, staging
  <2>3. Others(w) /\ plan'[w] = Verdict(r, 0)
    BY <1>0, <2>1 DEF Others, Goto, Typed, LockInv, PlanInv, Function
  <2> QED
    BY <1>0, <2>2, <2>3 DEF Decides
<1>4. CASE CommitRow(w)
  <2>1. Others(w) /\ pc'[w] = "rows"
    BY <1>0, <1>4, GotoOthers DEF CommitRow
  <2> QED
    BY <1>0, <1>4, <2>1 DEF CommitRow, Commits, At
<1> QED
  BY <1>1, <1>2, <1>3, <1>4 DEF Step

LEMMA KindsOfReviewer ==
  ASSUME Inv, NEW v \in Reviewer, Open(v) \/ Reject(v) \/ Accept(v) \/ CommitReview(v)
  PROVE  Rests \/ \E a \in Actor : Decides(a) \/ Commits(a)
<1>0. v \in Actor /\ v \notin Worker /\ Typed
  BY ProcAssumption DEF Actor, Inv
<1>1. CASE Open(v)
  BY <1>0, <1>1 DEF Open, Goto, staging, Typed, LockInv, PlanInv, Function, Rests
<1>2. CASE Reject(v)
  BY <1>0, <1>2, GotoOthers DEF Reject, Rests, Others
<1>3. CASE Accept(v)
  <2>1. plan[v].row \in Page /\ UNCHANGED <<corpus, judged>>
    BY <1>0, <1>3 DEF Accept, At, Typed, PlanInv, staging
  <2>2. Others(v) /\ plan'[v] = Verdict(plan[v].row, plan[v].item)
    BY <1>0, <1>3 DEF Accept, Others, Goto, Typed, LockInv, PlanInv, Function
  <2> QED
    BY <1>0, <2>1, <2>2 DEF Decides
<1>4. CASE CommitReview(v)
  <2>1. Others(v) /\ pc'[v] = "idle" /\ pc[v] = "commit"
    BY <1>0, <1>4, GotoOthers DEF CommitReview, At
  <2>2. CASE Collides(plan[v])
    BY <1>4, <2>1, <2>2 DEF CommitReview, Rests, Others, staging
  <2>3. CASE ~Collides(plan[v])
    BY <1>0, <1>4, <2>1, <2>3 DEF CommitReview, Commits
  <2> QED
    BY <2>2, <2>3
<1> QED
  BY <1>1, <1>2, <1>3, <1>4

LEMMA ThreeKinds ==
  ASSUME Inv, Next \/ UNCHANGED vars
  PROVE  Rests \/ \E a \in Actor : Decides(a) \/ Commits(a)
<1>1. ASSUME OthersSame \/ UNCHANGED vars
      PROVE  Rests
  BY <1>1 DEF OthersSame, vars, Rests, staging
<1>2. ASSUME NEW j \in Job, Commit(j) \/ JobDies(j)
      PROVE  Rests
  BY <1>2 DEF Commit, JobDies, Rests, staging
<1> QED
  BY <1>1, <1>2, KindsOfWorker, KindsOfReviewer DEF Next
--------------------------------------------------------------------------------
NamesOnce == \A i, j \in Judgment : name[i] = name[j] => i = j

\* Twins are of one case.
TwinInv ==
  /\ \A i, j \in Page : <<i, j>> \in links => SameCase(i, j)
  /\ \A a \in Actor : pc[a] = "commit" => \A j \in plan[a].twin : SameCase(j, plan[a].row)

\* The decision does not add a second judgment of its text, but a twin's.
Fits(v) ==
  /\ v.do = "save" => Holding(Info[v.row].text) \subseteq v.twin
  /\ v.do = "upgrade" => Holding(Info[v.row].text) = {}

\* Nor does it when the run comes to write it.
TextInv == \A w \in Worker :
  pc[w] = "commit" /\ Untouched(Info[plan[w].row].text) => Fits(plan[w])

CorpusInv == NamesOnce /\ TwinInv /\ TextInv /\ CaseOnce

LEMMA VerdictFits ==
  ASSUME Typed, NamesOnce, TwinInv, CaseOnce, NEW r \in Page, NEW i
  PROVE  /\ \A j \in Verdict(r, i).twin : SameCase(j, r)
         /\ ~Collides(Verdict(r, i))
         /\ Untouched(Info[r].text) => Fits(Verdict(r, i))
<1> DEFINE v == Verdict(r, i)
           known == Known(r)
           x == IF known = {} THEN None ELSE CHOOSE k \in known : TRUE
<1>1. v.row = r /\ v.of = x /\ v.name = CanonicalName(r) /\ v.twin = Twin(r)
  BY DEF Verdict
<1>2. /\ v.do = "save" => known = {} /\ Refusal(r) = ""
      /\ v.do = "upgrade" => Upgrades(r, x) /\ Refusal(r) = ""
  BY DEF Verdict
<1>3. Twin(r) \subseteq SameOrder(r) /\ SameOrder(r) \subseteq SameText(r) /\ SameText(r) \subseteq Judgment
  BY DEF Twin, SameOrder, SameText, Holding
<1>4. \A j \in Twin(r) : SameCase(j, r) /\ Unreported(j) /\ ~Unreported(r)
  BY DEF Twin, SameOrder
<1>5. Refusal(r) = "" => ~IdentityConflict(r)
  BY DEF Refusal
<1>6. Namesake(r) = Named(v.name) /\ SameText(r) = Holding(Info[v.row].text)
  BY <1>1 DEF Namesake, SameText
<1> HIDE DEF v, known, x
<1>7. v.do = "save" => Namesake(r) = {} /\ SameOrder(r) \subseteq Twin(r)
  BY <1>2 DEF Known, known
<1>8. v.do = "upgrade" => SameText(r) = {}
  <2>1. SUFFICES ASSUME v.do = "upgrade", SameText(r) # {}
                 PROVE  FALSE
    OBVIOUS
  <2>2. x \in Namesake(r) /\ x \notin SameText(r) /\ ~IdentityConflict(r)
    BY <1>2, <1>5, <2>1 DEF Upgrades
  <2>3. PICK y \in Namesake(r) : y \in SameText(r)
    BY <2>1, <2>2 DEF IdentityConflict
  <2>4. x \in Judgment /\ y \in Judgment /\ name[x] = name[y]
    BY <2>2 DEF Namesake, Named
  <2> QED
    BY <2>2, <2>3, <2>4 DEF NamesOnce
<1>9. ~Collides(v)
  <2>1. v.do = "save" => Named(v.name) = {} /\ \A j \in SameOrder(v.row) : ~(Unreported(j) <=> Unreported(v.row))
    BY <1>1, <1>4, <1>6, <1>7
  <2>2. v.do = "upgrade" => SameOrder(v.row) = {}
    BY <1>1, <1>3, <1>8
  <2> QED
    BY <2>1, <2>2 DEF Collides
<1>10. ASSUME v.do = "save", Untouched(Info[r].text)
       PROVE  SameText(r) \subseteq Twin(r)
  <2>1. SUFFICES ASSUME SameText(r) # {}
                 PROVE  SameText(r) \subseteq Twin(r)
    OBVIOUS
  <2>2. Cardinality(SameOrder(r)) = 1
    BY <1>2, <1>5, <1>7, <1>10, <2>1 DEF IdentityConflict
  <2>3. IsFiniteSet(SameOrder(r))
    BY <1>3, PageAssumption, FS_Subset DEF Judgment
  <2>4. PICK j : SameOrder(r) = {j}
    BY <2>2, <2>3, FS_Singleton
  <2>5. ASSUME NEW k \in SameText(r), k # j
        PROVE  FALSE
    <3>1. /\ j \in Judgment /\ k \in Judgment /\ j \in Page /\ k \in Page
          /\ Info[body[j]].text = Info[r].text /\ Info[body[k]].text = Info[r].text
      BY <1>3, <2>4 DEF SameText, SameOrder, Holding, Judgment
    <3>2. <<j, k>> \in links \/ <<k, j>> \in links
      BY <1>10, <2>5, <3>1 DEF CaseOnce
    <3>3. SameCase(j, k) \/ SameCase(k, j)
      BY <3>1, <3>2 DEF TwinInv
    <3>4. SameCase(j, r)
      BY <2>4 DEF SameOrder
    <3>5. k \in SameOrder(r)
      BY <3>3, <3>4 DEF SameCase, SameOrder
    <3> QED
      BY <2>4, <2>5, <3>5
  <2> QED
    BY <1>7, <1>10, <2>4, <2>5
<1>11. Untouched(Info[r].text) => Fits(v)
  BY <1>1, <1>6, <1>8, <1>10 DEF Fits
<1> QED
  BY <1>1, <1>4, <1>9, <1>11 DEF v

\* What a commit does to names and texts.
LEMMA ApplyCorpus ==
  ASSUME CorpusType, NEW v, v.row \in Page, Sound(v), v.do = "upgrade" => v.of \in Judgment,
         NEW waiting, Apply(v, waiting)
  PROVE  \/ v.do \in {"refuse", "same"} /\ UNCHANGED <<name, body, benched, links>>
         \/ /\ v.do = "upgrade" /\ UNCHANGED <<name, links>>
            /\ \A j \in Page : body'[j] = IF j = v.of THEN v.row ELSE body[j]
         \/ /\ v.do = "save" /\ v.name # <<>> /\ links' = links \cup (v.twin \X {v.row})
            /\ \A j \in Page : /\ name'[j] = IF j = v.row THEN v.name ELSE name[j]
                               /\ body'[j] = IF j = v.row THEN v.row ELSE body[j]
<1>1. CASE v.do \in {"refuse", "same"}
  <2>1. UNCHANGED <<name, body, benched, links>>
    BY <1>1, ApplyCases DEF corpus
  <2> QED
    BY <1>1, <2>1
<1>2. CASE v.do = "upgrade"
  <2>1. body' = [body EXCEPT ![v.of] = v.row]
            /\ benched' = benched \cup Benches(v.row, v.of) /\ UNCHANGED <<name, links>>
    BY <1>2, ApplyCases
  <2>2. \A j \in Page : body'[j] = IF j = v.of THEN v.row ELSE body[j]
    BY <2>1 DEF CorpusType
  <2> QED
    BY <1>2, <2>1, <2>2
<1>3. CASE v.do = "save"
  <2>1. /\ name' = [name EXCEPT ![v.row] = v.name] /\ body' = [body EXCEPT ![v.row] = v.row]
        /\ benched' = benched \cup Benches(v.row, v.row)
        /\ links' = links \cup (v.twin \X {v.row}) /\ v.name # <<>>
    BY <1>3, ApplyCases DEF Sound
  <2>2. \A j \in Page : /\ name'[j] = IF j = v.row THEN v.name ELSE name[j]
                       /\ body'[j] = IF j = v.row THEN v.row ELSE body[j]
    BY <2>1 DEF CorpusType, Function
  <2> QED
    BY <1>3, <2>1, <2>2
<1>4. v.do \in {"refuse", "same"} \/ v.do = "upgrade" \/ v.do = "save"
  BY ApplyCases
<1> QED
  BY <1>1, <1>2, <1>3, <1>4

LEMMA RestsKeepsCorpus ==
  ASSUME Inv, CorpusInv, Rests
  PROVE  CorpusInv'
<1>1. UNCHANGED <<name, body, benched, links>> /\ Judgment' = Judgment /\ \A t : Holding(t)' = Holding(t)
  BY DEF Rests, corpus, Judgment, Holding
<1>2. \A t : Untouched(t)' => Untouched(t)
  BY DEF Rests, Untouched
<1>3. NamesOnce' /\ CaseOnce'
  BY <1>1, <1>2 DEF CorpusInv, NamesOnce, CaseOnce
<1>4. TwinInv'
  BY <1>1 DEF CorpusInv, TwinInv, Rests
<1>5. ASSUME NEW w \in Worker, pc'[w] = "commit", Untouched(Info[plan[w].row].text)'
      PROVE  Fits(plan[w])'
  <2>1. pc[w] = "commit" /\ plan'[w] = plan[w]
    BY <1>5 DEF Rests, Actor
  <2>2. Fits(plan[w])
    <3>1. Untouched(Info[plan[w].row].text)
      BY <1>2, <1>5, <2>1
    <3> QED
      BY <2>1, <3>1 DEF CorpusInv, TextInv
  <2> QED
    BY <1>1, <2>1, <2>2 DEF Fits
<1>6. TextInv'
  BY <1>5 DEF TextInv
<1> QED
  BY <1>3, <1>4, <1>6 DEF CorpusInv

LEMMA DecidesKeepsCorpus ==
  ASSUME Inv, CorpusInv, NEW a \in Actor, Decides(a)
  PROVE  CorpusInv'
<1>1. UNCHANGED <<name, body, benched, links, judged>> /\ Judgment' = Judgment /\ \A t : Holding(t)' = Holding(t)
  BY DEF Decides, corpus, Judgment, Holding
<1>2. \A t : Untouched(t)' <=> Untouched(t)
  BY <1>1 DEF Untouched
<1>3. NamesOnce' /\ CaseOnce'
  BY <1>1, <1>2 DEF CorpusInv, NamesOnce, CaseOnce
<1>4. PICK r \in Page : \E i : plan'[a] = Verdict(r, i)
  BY DEF Decides
<1>5. PICK i : plan'[a] = Verdict(r, i)
  BY <1>4
<1> DEFINE v == Verdict(r, i)
<1>6. /\ v.row = r /\ \A j \in v.twin : SameCase(j, r)
      /\ Untouched(Info[r].text) => Fits(v)
  BY VerdictFits, VerdictSound DEF CorpusInv, Inv, Typed
<1>7. \A b \in Actor \ {a} : pc'[b] = pc[b] /\ plan'[b] = plan[b]
  BY DEF Decides, Others
<1> HIDE DEF v
<1>8. TwinInv'
  BY <1>1, <1>5, <1>6, <1>7 DEF CorpusInv, TwinInv, v
<1>9. ASSUME NEW w \in Worker, pc'[w] = "commit", Untouched(Info[plan[w].row].text)'
      PROVE  Fits(plan[w])'
  <2>1. CASE w = a
    BY <1>1, <1>2, <1>5, <1>6, <1>9, <2>1 DEF Fits, v
  <2>2. CASE w # a
    <3>1. pc[w] = "commit" /\ plan'[w] = plan[w]
      BY <1>7, <1>9, <2>2 DEF Actor
    <3>2. Untouched(Info[plan[w].row].text)
      BY <1>2, <1>9, <3>1
    <3>3. Fits(plan[w])
      BY <3>1, <3>2 DEF CorpusInv, TextInv
    <3> QED
      BY <1>1, <3>1, <3>3 DEF Fits
  <2> QED
    BY <2>1, <2>2
<1>10. TextInv'
  BY <1>9 DEF TextInv
<1> QED
  BY <1>3, <1>8, <1>10 DEF CorpusInv

\* Of a text that stays untouched, a commit that fits leaves no two judgments that are not linked.
LEMMA CommitKeepsCase ==
  ASSUME Inv, CaseOnce, NEW v, v.row \in Page, Sound(v), v.do = "upgrade" => v.of \in Judgment,
         NEW waiting, Apply(v, waiting),
         \A s : Untouched(s)' => Untouched(s) /\ (s = Info[v.row].text => Fits(v))
  PROVE  CaseOnce' /\ \A s : s # Info[v.row].text => Holding(s)' \subseteq Holding(s)
<1>1. \/ v.do \in {"refuse", "same"} /\ UNCHANGED <<name, body, benched, links>>
      \/ /\ v.do = "upgrade" /\ UNCHANGED <<name, links>>
         /\ \A j \in Page : body'[j] = IF j = v.of THEN v.row ELSE body[j]
      \/ /\ v.do = "save" /\ v.name # <<>> /\ links' = links \cup (v.twin \X {v.row})
         /\ \A j \in Page : /\ name'[j] = IF j = v.row THEN v.name ELSE name[j]
                            /\ body'[j] = IF j = v.row THEN v.row ELSE body[j]
  <2>1. CorpusType
    BY DEF Inv, Typed
  <2> QED
    BY <2>1, ApplyCorpus
<1>2. links \subseteq links'
  BY <1>1
<1>3. \A s : \A k \in Holding(s)' :
         \/ k \in Holding(s)
         \/ /\ s = Info[v.row].text
            /\ (v.do = "upgrade" /\ k = v.of) \/ (v.do = "save" /\ k = v.row)
  BY <1>1 DEF Holding, Judgment
<1>4. \A s : \A i, j \in Holding(s) :
         i # j /\ Untouched(s) => <<i, j>> \in links \/ <<j, i>> \in links
  BY DEF CaseOnce, Holding
<1>5. ASSUME NEW s, NEW i \in Holding(s)', NEW j \in Holding(s)', i # j, Untouched(s)'
      PROVE  <<i, j>> \in links' \/ <<j, i>> \in links'
  <2>1. Untouched(s) /\ (s = Info[v.row].text => Fits(v))
    BY <1>5
  <2>2. CASE i \in Holding(s) /\ j \in Holding(s)
    BY <1>2, <1>4, <1>5, <2>1, <2>2
  <2>3. CASE v.do = "upgrade" /\ s = Info[v.row].text
    BY <1>3, <1>5, <2>1, <2>3 DEF Fits
  <2>4. CASE v.do = "save" /\ s = Info[v.row].text
    <3>1. Holding(s) \subseteq v.twin
      BY <2>1, <2>4 DEF Fits
    <3>2. \A k \in Holding(s) : <<k, v.row>> \in links'
      BY <1>1, <2>4, <3>1
    <3>3. (i \in Holding(s) \/ i = v.row) /\ (j \in Holding(s) \/ j = v.row)
      BY <1>3, <1>5, <2>4
    <3> QED
      BY <1>5, <2>2, <3>2, <3>3
  <2> QED
    BY <1>3, <1>5, <2>2, <2>3, <2>4
<1>6. CaseOnce'
  BY <1>5 DEF CaseOnce, Holding
<1> QED
  BY <1>3, <1>6

LEMMA CommitsKeepsCorpus ==
  ASSUME Inv, CorpusInv, NEW a \in Actor, Commits(a)
  PROVE  CorpusInv'
<1> DEFINE v == plan[a]
<1>1. PICK waiting : Apply(v, waiting)
  BY DEF Commits
<1>2. /\ pc[a] = "commit" /\ ~Collides(v) /\ judged' = IF a \in Worker THEN judged ELSE judged \cup {v.row}
      /\ pc'[a] # "commit" /\ \A b \in Actor \ {a} : pc'[b] = pc[b] /\ plan'[b] = plan[b]
  BY DEF Commits, Others
<1>3. v.row \in Page /\ Sound(v) /\ (v.do = "upgrade" => v.of \in Judgment)
  BY <1>2 DEF Inv, Typed, PlanInv
<1>4. \A j \in v.twin : SameCase(j, v.row)
  BY <1>2 DEF CorpusInv, TwinInv
<1>5. a \in Worker /\ Untouched(Info[v.row].text) => Fits(v)
  BY <1>2 DEF CorpusInv, TextInv
<1> HIDE DEF v
<1>6. \/ v.do \in {"refuse", "same"} /\ UNCHANGED <<name, body, benched, links>>
      \/ /\ v.do = "upgrade" /\ UNCHANGED <<name, links>>
         /\ \A j \in Page : body'[j] = IF j = v.of THEN v.row ELSE body[j]
      \/ /\ v.do = "save" /\ v.name # <<>> /\ links' = links \cup (v.twin \X {v.row})
         /\ \A j \in Page : /\ name'[j] = IF j = v.row THEN v.name ELSE name[j]
                            /\ body'[j] = IF j = v.row THEN v.row ELSE body[j]
  <2>1. CorpusType
    BY DEF Inv, Typed
  <2> QED
    BY <1>1, <1>3, <2>1, ApplyCorpus
<1>7. \A s : Untouched(s)' => Untouched(s) /\ (a \in Worker \/ s # Info[v.row].text)
  BY <1>2, <1>3 DEF Untouched
<1>8. \A s : Untouched(s)' => Untouched(s) /\ (s = Info[v.row].text => Fits(v))
  BY <1>5, <1>7
<1>9. CaseOnce' /\ \A s : s # Info[v.row].text => Holding(s)' \subseteq Holding(s)
  BY <1>1, <1>3, <1>8, CommitKeepsCase DEF CorpusInv
<1>10. NamesOnce'
  <2>1. v.do = "save" => Named(v.name) = {}
    BY <1>2 DEF Collides
  <2> QED
    BY <1>3, <1>6, <2>1 DEF CorpusInv, NamesOnce, Named, Judgment
<1>11. TwinInv'
  <2>1. \A i, j \in Page : <<i, j>> \in links' => SameCase(i, j)
    BY <1>4, <1>6 DEF CorpusInv, TwinInv
  <2>2. \A b \in Actor : pc'[b] = "commit" => pc[b] = "commit" /\ plan'[b] = plan[b]
    BY <1>2
  <2> QED
    BY <2>1, <2>2 DEF CorpusInv, TwinInv
<1>12. ASSUME NEW w \in Worker, pc'[w] = "commit", Untouched(Info[plan[w].row].text)'
       PROVE  Fits(plan[w])'
  <2>1. w \in Actor /\ w # a /\ pc[w] = "commit" /\ plan'[w] = plan[w]
    BY <1>2, <1>12 DEF Actor
  <2>2. a \notin Worker
    BY <1>2, <2>1, Alone DEF Inv
  <2>3. Untouched(Info[plan[w].row].text) /\ Info[plan[w].row].text # Info[v.row].text
    BY <1>7, <1>12, <2>1, <2>2
  <2>4. Fits(plan[w])
    BY <2>1, <2>3 DEF CorpusInv, TextInv
  <2>5. Holding(Info[plan[w].row].text)' \subseteq Holding(Info[plan[w].row].text)
    BY <1>9, <2>1, <2>3
  <2> QED
    BY <2>1, <2>4, <2>5 DEF Fits
<1>13. TextInv'
  BY <1>12 DEF TextInv
<1> QED
  BY <1>9, <1>10, <1>11, <1>13 DEF CorpusInv

LEMMA CorpusStep ==
  ASSUME Inv, CorpusInv, Next \/ UNCHANGED vars
  PROVE  CorpusInv'
BY ThreeKinds, RestsKeepsCorpus, DecidesKeepsCorpus, CommitsKeepsCorpus

LEMMA CorpusInit ==
  ASSUME Init
  PROVE  CorpusInv
BY DEF Init, CorpusInv, NamesOnce, TwinInv, TextInv, CaseOnce, Judgment, Actor

\* One order of a court is one judgment, or an unreported judgment and its report, linked: for any
\* pages, order of arrival, crashes and reviewers, for the texts no reviewer has decided a page of.
THEOREM OneJudgmentPerOrder == Spec => []CaseOnce
<1>1. Init => Inv /\ CorpusInv
  BY InvInit, CorpusInit
<1>2. Inv /\ CorpusInv /\ [Next]_vars => Inv' /\ CorpusInv'
  BY InvStep, CorpusStep
<1>3. CorpusInv => CaseOnce
  BY DEF CorpusInv
<1> QED
  BY <1>1, <1>2, <1>3, PTL DEF Spec
--------------------------------------------------------------------------------
(* No row waits for Beat. *)

\* What a worker has in hand, by its place in the run.
RunOK(w) ==
  /\ pc[w] \notin {"release", "rows", "commit"} => batch[w] = {}
  /\ pc[w] # "commit" => plan[w].row = None
  /\ pc[w] \in {"release", "select", "rows", "commit"} => Quiet(w)
  /\ pc[w] = "release" => \A r \in batch[w] : Pinned(pin[w], r)

RunInv == \A w \in Worker : RunOK(w)

\* One worker moves; what the others have in hand stays.
LEMMA RunOthers ==
  ASSUME RunInv, NEW w \in Worker, RunOK(w)',
         \A x \in Worker \ {w} : /\ pc'[x] = pc[x] /\ batch'[x] = batch[x] /\ plan'[x] = plan[x]
                              /\ pin'[x] = pin[x] /\ (asks[x] = <<>> => asks'[x] = <<>>)
  PROVE  RunInv'
<1>1. ASSUME NEW x \in Worker \ {w}
      PROVE  RunOK(x)'
  BY <1>1 DEF RunInv, RunOK, Quiet, Pinned
<1> QED
  BY <1>1 DEF RunInv

LEMMA LeaveRun ==
  ASSUME Typed, RunInv, NEW w \in Worker, Leave(w),
         \A x \in Worker \ {w} : asks[x] = <<>> => asks'[x] = <<>>
  PROVE  RunInv'
<1>1. /\ pc'[w] = "idle" /\ batch'[w] = {} /\ plan'[w] = NoPlan
      /\ \A x \in Worker \ {w} : /\ pc'[x] = pc[x] /\ batch'[x] = batch[x]
                                /\ pin'[x] = pin[x] /\ plan'[x] = plan[x]
  BY DEF Leave, Decided, Goto, Typed, LockInv, RunType, PlanInv, Function, Actor
<1>2. NoPlan.row = None
  BY DEF NoPlan
<1>3. RunOK(w)'
  BY <1>1, <1>2 DEF RunOK
<1> QED
  BY <1>1, <1>3, RunOthers

LEMMA RunSame ==
  ASSUME RunInv, \A w \in Worker : /\ pc'[w] = pc[w] /\ batch'[w] = batch[w] /\ plan'[w] = plan[w]
                                   /\ pin'[w] = pin[w] /\ (asks[w] = <<>> => asks'[w] = <<>>)
  PROVE  RunInv'
BY DEF RunInv, RunOK, Quiet, Pinned

LEMMA AskForOne ==
  ASSUME Typed, NEW p \in Proc, NEW ks, AskFor(p, ks)
  PROVE  asks'[p] = ks /\ \A q \in Proc \ {p} : asks'[q] = asks[q]
BY DEF AskFor, Typed, RequestsTypeOK

LEMMA RequestsLeaveRun ==
  ASSUME Typed, RunInv, OthersSame,
         (\E p \in Proc : Request(p)) \/ (\E k \in Key : Elapse(k)) \/ Beat(All)
  PROVE  RunInv'
<1>1. \A q \in Proc : asks[q] = <<>> => asks'[q] = <<>>
  <2>1. ASSUME NEW p \in Proc, Request(p)
        PROVE  \A q \in Proc : asks[q] = <<>> => asks'[q] = <<>>
    BY <2>1, AskForOne DEF Request, Quiet
  <2> QED
    BY <2>1 DEF Elapse, Beat
<1>2. Worker \subseteq Proc
  BY ProcAssumption
<1> QED
  BY <1>1, <1>2, RunSame DEF OthersSame, run

LEMMA JobLeavesRun ==
  ASSUME Typed, RunInv, NEW j \in Job, Commit(j) \/ JobDies(j)
  PROVE  RunInv'
<1>1. UNCHANGED <<pc, batch, plan, pin>>
  BY DEF Commit, JobDies, run
<1>2. j \in Proc /\ Worker \subseteq Proc /\ j \notin Worker
  BY ProcAssumption
<1>3. UNCHANGED asks \/ \E ks : AskFor(j, ks)
  BY DEF Commit, JobDies, DiesAsking
<1>4. \A x \in Worker : asks'[x] = asks[x]
  BY <1>2, <1>3, AskForOne
<1> QED
  BY <1>1, <1>4, RunSame

LEMMA WorkerRuns ==
  ASSUME Inv, RunInv, NEW w \in Worker, (\E k \in Key : BeginPromotion(w, k)) \/ Step(w) \/ WorkerDies(w)
  PROVE  RunInv'
<1>0. w \in Actor /\ w \in Proc /\ Worker \subseteq Proc /\ Worker \subseteq Actor /\ Typed /\ RunOK(w)
  BY ProcAssumption DEF Actor, Inv, RunInv
<1> DEFINE Apart == \A x \in Worker \ {w} : /\ pc'[x] = pc[x] /\ batch'[x] = batch[x] /\ plan'[x] = plan[x]
                                           /\ pin'[x] = pin[x] /\ (asks[x] = <<>> => asks'[x] = <<>>)
<1>1. ASSUME NEW k \in Key, BeginPromotion(w, k)
      PROVE  RunInv'
  <2>1. pc[w] = "idle" /\ asks[w] = <<>> /\ UNCHANGED plan /\ plan[w].row = None /\ batch[w] = {}
    BY <1>0, <1>1 DEF BeginPromotion, Ready, Free, At, Quiet, RunOK
  <2>2. CASE Start(w, k) /\ UNCHANGED asks
    <3>1. pc'[w] = "release" /\ pin'[w] = k /\ \A r \in batch'[w] : Pinned(k, r)
      BY <1>0, <2>2 DEF Start, Goto, Typed, LockInv, RunType
    <3>2. RunOK(w)'
      BY <2>1, <2>2, <3>1 DEF RunOK, Quiet, Pinned
    <3>3. Apart
      BY <1>0, <2>1, <2>2 DEF Start, Goto, Typed, LockInv, RunType
    <3> QED
      BY <3>2, <3>3, RunOthers
  <2>3. CASE AskFor(w, <<k>>) /\ UNCHANGED <<pc, pin, batch>>
    <3>1. RunOK(w)'
      BY <2>1, <2>3 DEF RunOK
    <3>2. Apart
      BY <1>0, <2>1, <2>3, AskForOne
    <3> QED
      BY <3>1, <3>2, RunOthers
  <2> QED
    BY <1>1, <2>2, <2>3 DEF BeginPromotion
<1>2. CASE Release(w) \/ SelectBatch(w)
  <2>1. /\ UNCHANGED <<plan, pin, asks>> /\ asks[w] = <<>> /\ plan[w].row = None
        /\ pc'[w] \in {"select", "rows"} /\ (pc'[w] = "select" => batch'[w] = {})
    BY <1>0, <1>2 DEF Release, SelectBatch, At, Goto, requests, RunOK, Quiet, Typed, LockInv, RunType
  <2>2. RunOK(w)'
    BY <2>1 DEF RunOK, Quiet
  <2>3. Apart
    BY <1>0, <1>2, <2>1 DEF Release, SelectBatch, Goto, Typed, LockInv, RunType
  <2> QED
    BY <2>2, <2>3, RunOthers
<1>3. CASE Decide(w)
  <2>1. pc'[w] = "commit" /\ UNCHANGED <<pin, asks>> /\ asks[w] = <<>>
    BY <1>0, <1>3 DEF Decide, At, Goto, requests, RunOK, Quiet, Typed, LockInv
  <2>2. RunOK(w)'
    BY <2>1 DEF RunOK, Quiet
  <2>3. Apart
    BY <1>0, <1>3, <2>1 DEF Decide, Goto, Typed, LockInv, RunType, PlanInv, Function
  <2> QED
    BY <2>2, <2>3, RunOthers
<1>4. CASE AskForNext(w)
  <2>1. pc[w] = "rows" /\ pc'[w] = "unlock" /\ batch[w] = {} /\ UNCHANGED <<batch, plan, pin>>
    BY <1>0, <1>4 DEF AskForNext, At, Goto, run, Typed, LockInv
  <2>2. RunOK(w)'
    BY <1>0, <2>1 DEF RunOK
  <2>3. Apart
    BY <1>0, <1>4, <2>1, AskForOne DEF AskForNext, Goto, Typed, LockInv
  <2> QED
    BY <2>2, <2>3, RunOthers
<1>5. CASE Decided(w, "rows") /\ At(w, "commit") /\ UNCHANGED <<run, requests>>
  <2>1. pc'[w] = "rows" /\ UNCHANGED <<pin, asks, batch>> /\ asks[w] = <<>> /\ plan'[w] = NoPlan
    BY <1>0, <1>5 DEF Decided, At, Goto, requests, run, RunOK, Quiet, Typed, LockInv, PlanInv, Function
  <2>2. NoPlan.row = None
    BY DEF NoPlan
  <2>3. RunOK(w)'
    BY <2>1, <2>2 DEF RunOK, Quiet
  <2>4. Apart
    BY <1>0, <1>5, <2>1 DEF Decided, Goto, Typed, LockInv, PlanInv, Function
  <2> QED
    BY <2>3, <2>4, RunOthers
<1>6. CASE Leave(w) /\ (UNCHANGED asks \/ AskFor(w, <<>>))
  <2>1. \A x \in Worker \ {w} : asks[x] = <<>> => asks'[x] = <<>>
    BY <1>0, <1>6, AskForOne
  <2> QED
    BY <1>0, <1>6, <2>1, LeaveRun
<1>7. CASE CommitRow(w)
  BY <1>5, <1>7 DEF CommitRow
<1>8. CASE RowRaises(w)
  BY <1>5, <1>6, <1>8 DEF RowRaises, requests
<1>9. CASE EndPromotion(w) \/ WorkerDies(w)
  BY <1>6, <1>9 DEF EndPromotion, WorkerDies, DiesAsking, requests
<1> QED
  BY <1>1, <1>2, <1>3, <1>4, <1>7, <1>8, <1>9 DEF Step

LEMMA ReviewerLeavesRun ==
  ASSUME Inv, RunInv, NEW v \in Reviewer, Open(v) \/ Reject(v) \/ Accept(v) \/ CommitReview(v)
  PROVE  RunInv'
<1>1. v \notin Worker /\ Worker \subseteq Actor /\ v \in Actor /\ UNCHANGED <<batch, pin, asks>>
  BY ProcAssumption DEF Actor, Open, Reject, Accept, CommitReview, run, requests
<1>2. \A x \in Actor \ {v} : pc'[x] = pc[x] /\ plan'[x] = plan[x]
  BY DEF Open, Reject, Accept, CommitReview, Decided, Goto, Inv, Typed, LockInv, PlanInv, Function
<1> QED
  BY <1>1, <1>2, RunSame

LEMMA RunStep ==
  ASSUME Inv, RunInv, Next \/ UNCHANGED vars
  PROVE  RunInv'
<1>1. CASE UNCHANGED vars
  BY <1>1, RunSame DEF vars, run, requests
<1>2. ASSUME NEW w \in Worker, (\E k \in Key : BeginPromotion(w, k)) \/ Step(w) \/ WorkerDies(w)
      PROVE  RunInv'
  BY <1>2, WorkerRuns
<1> QED
  BY <1>1, <1>2, RequestsLeaveRun, JobLeavesRun, ReviewerLeavesRun DEF Inv, Next
--------------------------------------------------------------------------------
(* While nothing fails and no reviewer steps in. *)

Calm == faults = 0 /\ judged = {}

\* Worker w sees to page r in its run.
Has(w, r) ==
  \/ r \in batch[w] \/ plan[w].row = r
  \/ /\ Pinned(pin[w], r)
     /\ pc[w] \in {"release", "select"} \/ (pc[w] \in {"rows", "commit"} /\ full[w])

Covered(r) == Coming(All) \/ Coming(Info[r].source) \/ \E w \in Worker : Has(w, r)

SentKeys == \A k \in Key : key[k] # "set"
NoClash  == \A w \in Worker : pc[w] = "commit" => ~Collides(plan[w])
AllCovered == \A r \in Page : status[r] = "extracted" => Covered(r)

ChainInv == Calm => SentKeys /\ NoClash /\ AllCovered

LEMMA ComingStays ==
  ASSUME NEW k, Coming(k), key[k] = "sent" => key'[k] = "sent", k \in due => k \in due',
         \A p \in Proc : asks'[p] = asks[p] \/ asks[p] = <<>>
  PROVE  Coming(k)'
<1>1. ASSUME NEW p \in Proc, NEW i \in DOMAIN asks[p], asks[p][i] = k
      PROVE  asks'[p] = asks[p]
  <2>1. asks[p] # <<>>
    BY <1>1
  <2> QED
    BY <2>1
<1> QED
  BY <1>1 DEF Coming

LEMMA AskedIsComing ==
  ASSUME NEW p \in Proc, NEW k, asks[p] = <<k>>
  PROVE  Coming(k)
<1>1. 1 \in DOMAIN asks[p] /\ asks[p][1] = k
  OBVIOUS
<1> QED
  BY <1>1 DEF Coming

\* The two requests that can stand for a page.
LEMMA CoveredByKey ==
  ASSUME NEW r, NEW k, Coming(k), Pinned(k, r)
  PROVE  Covered(r)
BY DEF Covered, Pinned

LEMMA NoneHas ==
  ASSUME RunInv, NEW w \in Worker, pc[w] \in {"idle", "unlock"}, NEW r \in Page
  PROVE  ~Has(w, r)
BY NobodyAssumption DEF RunInv, RunOK, Has

\* What worker w does leaves a page covered that it does not see to, or still does.
LEMMA RunnerCovers ==
  ASSUME Inv, RunInv, NEW w \in Worker, NEW r \in Page, Covered(r),
         \A x \in Worker \ {w} : /\ pc'[x] = pc[x] /\ batch'[x] = batch[x] /\ plan'[x] = plan[x]
                              /\ pin'[x] = pin[x] /\ full'[x] = full[x],
         \A k \in Key : Coming(k) => Coming(k)',
         Has(w, r) => Covered(r)'
  PROVE  Covered(r)'
<1>1. All \in Key /\ Info[r].source \in Key
  BY KeyAssumption, PageAssumption
<1>2. ASSUME NEW x \in Worker \ {w}, Has(x, r)
      PROVE  Has(x, r)'
  BY <1>2 DEF Has, Pinned
<1> QED
  BY <1>1, <1>2 DEF Covered

LEMMA CollidesSame ==
  ASSUME UNCHANGED <<name, body, benched>>, NEW v
  PROVE  Collides(v)' <=> Collides(v)
<1>1. Judgment' = Judgment
  BY DEF Judgment
<1>2. \A n : Named(n)' = Named(n)
  BY <1>1 DEF Named
<1>3. SameOrder(v.row)' = SameOrder(v.row)
  BY <1>1 DEF SameOrder, SameText, Holding, SameCase
<1> QED
  BY <1>2, <1>3 DEF Collides, Unreported

LEMMA ClashStep ==
  ASSUME Inv, CorpusInv, NoClash, Next \/ UNCHANGED vars, judged' = {}
  PROVE  NoClash'
<1>1. SUFFICES ASSUME NEW w \in Worker, pc'[w] = "commit"
               PROVE  ~Collides(plan[w])'
  BY DEF NoClash
<1>2. w \in Actor
  BY DEF Actor
<1>3. ASSUME pc[w] = "commit", plan'[w] = plan[w], UNCHANGED <<name, body, benched>>
      PROVE  ~Collides(plan[w])'
  BY <1>3, CollidesSame DEF NoClash
<1>4. CASE Rests
  BY <1>1, <1>2, <1>3, <1>4 DEF Rests, corpus
<1>5. ASSUME NEW a \in Actor, Decides(a)
      PROVE  ~Collides(plan[w])'
  <2>1. UNCHANGED <<name, body, benched>>
    BY <1>5 DEF Decides, corpus
  <2>2. CASE w = a
    <3>1. PICK r \in Page : \E i : plan'[a] = Verdict(r, i)
      BY <1>5 DEF Decides
    <3>2. PICK i : plan'[a] = Verdict(r, i)
      BY <3>1
    <3>3. ~Collides(Verdict(r, i))
      BY VerdictFits DEF CorpusInv, Inv
    <3>4. PICK v : v = Verdict(r, i)
      OBVIOUS
    <3>5. ~Collides(v)'
      BY <2>1, <3>3, <3>4, CollidesSame
    <3> QED
      BY <2>2, <3>2, <3>4, <3>5
  <2>3. CASE w # a
    BY <1>1, <1>2, <1>3, <1>5, <2>1, <2>3 DEF Decides, Others
  <2> QED
    BY <2>2, <2>3
<1>6. ASSUME NEW a \in Actor, Commits(a)
      PROVE  ~Collides(plan[w])'
  <2>1. a \in Worker /\ pc[a] = "commit"
    BY <1>6 DEF Commits
  <2>2. w # a /\ pc[w] = "commit"
    BY <1>1, <1>2, <1>6 DEF Commits, Others
  <2> QED
    BY <2>1, <2>2, Alone DEF Inv
<1> QED
  BY <1>4, <1>5, <1>6, ThreeKinds

\* Requests are dropped, sent and become due, and none is lost.
LEMMA RequestsCover ==
  ASSUME Inv, Calm, SentKeys, AllCovered, OthersSame, faults' = 0,
         (\E p \in Proc : Request(p)) \/ (\E k \in Key : Elapse(k)) \/ Beat(All)
  PROVE  SentKeys' /\ AllCovered'
<1> USE DEF Inv, Typed
<1>1. ~Fault
  BY DEF Fault, Calm
<1>2. \A k \in Key : Coming(k) => Coming(k)'
  <2>1. ASSUME NEW p \in Proc, Request(p), NEW k \in Key, Coming(k)
        PROVE  Coming(k)'
    <3> DEFINE h == Head(asks[p])
    <3>1. asks[p] \in Seq(Key) /\ asks[p] # <<>>
      BY <2>1 DEF Request, Quiet, RequestsTypeOK
    <3>2. h \in Key /\ key'[h] = "sent" /\ UNCHANGED due /\ (key[k] = "sent" => key'[k] = "sent")
      BY <1>1, <2>1, <3>1 DEF Request, SentKeys, RequestsTypeOK
    <3>3. CASE key[k] = "sent" \/ k \in due
      BY <3>2, <3>3 DEF Coming
    <3>4. ASSUME NEW q \in Proc, NEW i \in DOMAIN asks[q], asks[q][i] = k
          PROVE  Coming(k)'
      <4>1. CASE q = p /\ i = 1
        <5>1. h = k
          BY <3>1, <3>4, <4>1
        <5> QED
          BY <3>2, <5>1 DEF Coming
      <4>2. CASE q = p /\ i # 1
        <5>1. asks'[p] = Tail(asks[p])
          BY <2>1 DEF Request, AskFor, RequestsTypeOK
        <5>2. i - 1 \in DOMAIN Tail(asks[p]) /\ Tail(asks[p])[i - 1] = asks[p][i]
          BY <3>1, <3>4, <4>2
        <5> QED
          BY <3>4, <4>2, <5>1, <5>2 DEF Coming
      <4>3. CASE q # p
        <5>1. asks'[q] = asks[q]
          BY <2>1, <4>3, AskForOne DEF Request
        <5> QED
          BY <3>4, <5>1 DEF Coming
      <4> QED
        BY <4>1, <4>2, <4>3
    <3> QED
      BY <2>1, <3>3, <3>4 DEF Coming
  <2>2. ASSUME NEW l \in Key, Elapse(l) \/ Beat(l), NEW k \in Key, Coming(k)
        PROVE  Coming(k)'
    <3>1. UNCHANGED asks /\ due \subseteq due'
      BY <2>2 DEF Elapse, Beat
    <3>2. key[k] = "sent" => key'[k] = "sent" \/ k \in due'
      BY <2>2 DEF Elapse, Beat, SentKeys, RequestsTypeOK
    <3> QED
      BY <2>2, <3>1, <3>2 DEF Coming
  <2>3. All \in Key
    BY KeyAssumption
  <2> QED
    BY <2>1, <2>2, <2>3
<1>3. SentKeys'
  <2>1. ASSUME NEW p \in Proc, Request(p)
        PROVE  SentKeys'
    <3>1. Head(asks[p]) \in Key
      BY <2>1, HeadTailProperties DEF Request, Quiet, RequestsTypeOK
    <3> QED
      BY <2>1, <3>1 DEF Request, SentKeys, RequestsTypeOK
  <2>2. ASSUME NEW k \in Key, Elapse(k)
        PROVE  SentKeys'
    BY <2>2 DEF Elapse, SentKeys, RequestsTypeOK
  <2> QED
    BY <2>1, <2>2 DEF Beat, SentKeys
<1>4. UNCHANGED <<status, batch, plan, pin, pc, full>>
  BY DEF OthersSame, staging, run
<1>5. All \in Key /\ \A r \in Page : Info[r].source \in Key
  BY KeyAssumption, PageAssumption
<1>6. ASSUME NEW r \in Page, Covered(r)
      PROVE  Covered(r)'
  BY <1>2, <1>4, <1>5, <1>6 DEF Covered, Has, Pinned
<1> QED
  BY <1>3, <1>4, <1>6 DEF AllCovered

LEMMA CommitCovers ==
  ASSUME Inv, SentKeys, AllCovered, NEW j \in Job, Commit(j)
  PROVE  SentKeys' /\ AllCovered'
<1>1. /\ j \in Proc /\ asks[j] = <<>>
      /\ UNCHANGED <<key, due, batch, plan, pin, pc, full>>
  BY ProcAssumption DEF Commit, Quiet, run
<1>2. UNCHANGED asks \/ \E ks : AskFor(j, ks)
  BY DEF Commit
<1>3. \A p \in Proc : asks'[p] = asks[p] \/ asks[p] = <<>>
  BY <1>1, <1>2, AskForOne DEF Inv
<1>4. \A k : Coming(k) => Coming(k)'
  BY <1>1, <1>3, ComingStays
<1>5. ASSUME NEW r \in Page, Covered(r)
      PROVE  Covered(r)'
  BY <1>1, <1>4, <1>5 DEF Covered, Has, Pinned
<1>6. ASSUME NEW r \in Page, status[r] # "extracted", status'[r] = "extracted"
      PROVE  Covered(r)'
  <2>1. AskFor(j, <<Info[r].source>>)
    BY <1>6 DEF Commit, Inv, Typed, StagingType
  <2>2. asks'[j] = <<Info[r].source>>
    BY <1>1, <2>1, AskForOne DEF Inv
  <2>3. Coming(Info[r].source)'
    <3>1. 1 \in DOMAIN asks'[j] /\ asks'[j][1] = Info[r].source
      BY <2>2
    <3> QED
      BY <1>1, <3>1 DEF Coming
  <2> QED
    BY <2>3 DEF Covered
<1> QED
  BY <1>1, <1>5, <1>6 DEF SentKeys, AllCovered

LEMMA BeginCovers ==
  ASSUME Inv, RunInv, SentKeys, AllCovered, NEW w \in Worker, NEW k \in Key, BeginPromotion(w, k)
  PROVE  SentKeys' /\ AllCovered'
<1>0. w \in Proc /\ w \in Actor /\ Worker \subseteq Actor /\ Typed
  BY ProcAssumption DEF Actor, Inv
<1>1. /\ pc[w] = "idle" /\ asks[w] = <<>> /\ due' = due \ {k}
      /\ UNCHANGED <<status, key, plan, full>>
  BY DEF BeginPromotion, Ready, Free, At, Quiet
<1>2. UNCHANGED asks \/ AskFor(w, <<k>>)
  BY DEF BeginPromotion
<1>3. \A p \in Proc : asks'[p] = asks[p] \/ asks[p] = <<>>
  BY <1>0, <1>1, <1>2, AskForOne
<1>4. \A l : Coming(l) => Coming(l)' \/ l = k
  BY <1>1, <1>3, ComingStays
<1>5. \A r \in Page : ~Has(w, r)
  BY <1>1, NoneHas
<1>6. CASE Start(w, k)
  <2>1. /\ pc'[w] = "release" /\ pin'[w] = k
        /\ \A x \in Worker \ {w} : pc'[x] = pc[x] /\ batch'[x] = batch[x] /\ pin'[x] = pin[x]
    BY <1>0, <1>6 DEF Start, Goto, Typed, LockInv, RunType
  <2>2. ASSUME NEW r \in Page, Covered(r)
        PROVE  Covered(r)'
    <3>1. CASE Pinned(k, r)
      <4>1. Has(w, r)'
        BY <2>1, <3>1 DEF Has, Pinned
      <4> QED
        BY <4>1 DEF Covered
    <3>2. CASE ~Pinned(k, r)
      <4>1. \A x \in Worker : Has(x, r) => Has(x, r)'
        BY <1>1, <1>5, <2>1 DEF Has, Pinned
      <4> QED
        BY <1>4, <2>2, <3>2, <4>1 DEF Covered, Pinned
    <3> QED
      BY <3>1, <3>2
  <2> QED
    BY <1>1, <2>2 DEF SentKeys, AllCovered
<1>7. CASE AskFor(w, <<k>>) /\ UNCHANGED <<pc, pin, batch>>
  <2>1. asks'[w] = <<k>>
    BY <1>0, <1>7, AskForOne
  <2>2. Coming(k)'
    <3>1. 1 \in DOMAIN asks'[w] /\ asks'[w][1] = k
      BY <2>1
    <3> QED
      BY <1>0, <3>1 DEF Coming
  <2>3. ASSUME NEW r \in Page, Covered(r)
        PROVE  Covered(r)'
    BY <1>1, <1>4, <1>7, <2>2, <2>3 DEF Covered, Has, Pinned
  <2> QED
    BY <1>1, <2>3 DEF SentKeys, AllCovered
<1> QED
  BY <1>6, <1>7 DEF BeginPromotion

\* The query takes every row that waits, or is full.
LEMMA SelectTakesAll ==
  ASSUME NEW S, IsFiniteSet(S), NEW P \in SUBSET S, NEW Q \in SUBSET (S \ P), Cardinality(P) \in 0..Limit,
         Cardinality(Q) = IF Cardinality(S \ P) < Limit - Cardinality(P)
                          THEN Cardinality(S \ P) ELSE Limit - Cardinality(P),
         ~(Cardinality(P \cup Q) >= Limit)
  PROVE  P \cup Q = S
<1>1. IsFiniteSet(P) /\ IsFiniteSet(Q) /\ IsFiniteSet(S \ P)
  BY FS_Subset, FS_Difference
<1>2. Cardinality(P) \in Nat /\ Cardinality(Q) \in Nat /\ Cardinality(S \ P) \in Nat
  BY <1>1, FS_CardinalityType
<1>3. Cardinality(P \cup Q) = Cardinality(P) + Cardinality(Q)
  <2>1. P \cap Q = {}
    OBVIOUS
  <2>2. Cardinality(P \cap Q) = 0
    BY <2>1, FS_EmptySet
  <2>3. Cardinality(P \cup Q) = Cardinality(P) + Cardinality(Q) - Cardinality(P \cap Q)
    BY <1>1, FS_Union
  <2> QED
    BY <1>2, <2>2, <2>3
<1>4. Cardinality(Q) = Cardinality(S \ P)
  BY <1>2, <1>3, LimitAssumption
<1>5. Q = S \ P
  BY <1>1, <1>4, FS_Subset
<1> QED
  BY <1>5

\* While a run goes on, no other worker is in one.
LEMMA ReadCovers ==
  ASSUME Inv, RunInv, AllCovered, SentKeys, NEW w \in Worker, Release(w) \/ SelectBatch(w) \/ Decide(w)
  PROVE  SentKeys' /\ AllCovered'
<1>0. w \in Actor /\ Worker \subseteq Actor /\ Typed /\ RunOK(w)
  BY DEF Actor, Inv, RunInv
<1>1. UNCHANGED <<key, due, asks, pin>> /\ \A k : Coming(k) => Coming(k)'
  BY ComingStays DEF Release, SelectBatch, Decide, requests
<1>2. \A x \in Worker \ {w} : /\ pc'[x] = pc[x] /\ batch'[x] = batch[x] /\ plan'[x] = plan[x]
                              /\ pin'[x] = pin[x] /\ full'[x] = full[x]
  <2>1. CASE Release(w)
    BY <1>0, <2>1 DEF Release, Goto, Typed, LockInv, RunType
  <2>2. CASE SelectBatch(w)
    <3>1. \E S, b : batch' = [batch EXCEPT ![w] = S] /\ full' = [full EXCEPT ![w] = b]
      BY <2>2 DEF SelectBatch
    <3> QED
      BY <1>0, <2>2, <3>1 DEF SelectBatch, Goto, Typed, LockInv, RunType
  <2>3. CASE Decide(w)
    BY <1>0, <2>3 DEF Decide, Goto, Typed, LockInv, RunType, PlanInv, Function
  <2> QED
    BY <2>1, <2>2, <2>3
<1>3. SentKeys'
  BY <1>1 DEF SentKeys
<1>4. CASE Release(w)
  <2>1. pc[w] = "release" /\ pc'[w] = "select" /\ plan[w].row = None
    BY <1>0, <1>4 DEF Release, At, Goto, Typed, LockInv, RunOK
  <2>2. \A r \in Page : Has(w, r) => Pinned(pin[w], r)
    BY <1>0, <2>1, NobodyAssumption DEF Has, RunOK
  <2>3. \A r \in Page : Has(w, r) => Has(w, r)'
    BY <1>1, <2>1, <2>2 DEF Has, Pinned
  <2>4. \A r \in Page : status'[r] = "extracted" => status[r] = "extracted" \/ r \in batch[w]
    BY <1>4 DEF Release, Typed, StagingType
  <2>5. ASSUME NEW r \in Page, status'[r] = "extracted"
        PROVE  Covered(r)'
    <3>1. CASE r \in batch[w]
      BY <2>3, <3>1 DEF Has, Covered
    <3>2. CASE status[r] = "extracted"
      <4>1. Covered(r)
        BY <3>2 DEF AllCovered
      <4>2. Has(w, r) => Covered(r)'
        BY <2>3 DEF Covered
      <4> QED
        BY <1>1, <1>2, <4>1, <4>2, RunnerCovers
    <3> QED
      BY <2>4, <2>5, <3>1, <3>2
  <2> QED
    BY <1>3, <2>5 DEF AllCovered
<1>5. CASE SelectBatch(w)
  <2>1. /\ pc[w] = "select" /\ pc'[w] = "rows" /\ plan[w].row = None /\ batch[w] = {}
        /\ UNCHANGED status
    BY <1>0, <1>5 DEF SelectBatch, At, Goto, Typed, LockInv, RunOK, staging
  <2>2. PICK P \in SUBSET Preferred(w), Q \in SUBSET Waiting(w) :
          /\ Q \in SUBSET (Waiting(w) \ P) /\ Oldest(P, Reserved, Preferred(w)) /\ Oldest(Q, Limit - Cardinality(P), Waiting(w) \ P)
          /\ batch' = [batch EXCEPT ![w] = P \cup Q]
          /\ full' = [full EXCEPT ![w] = Cardinality(P \cup Q) >= Limit]
    BY <1>5 DEF SelectBatch
  <2> DEFINE most == Cardinality(P \cup Q) >= Limit
  <2>3. batch'[w] = P \cup Q /\ full'[w] = most
    <3>1. full' = [full EXCEPT ![w] = most]
      BY <2>2
    <3> HIDE DEF most
    <3> QED
      BY <1>0, <2>2, <3>1 DEF Typed, RunType
  <2>4. Preferred(w) \subseteq Waiting(w) /\ IsFiniteSet(Waiting(w)) /\ IsFiniteSet(Preferred(w))
    <3>1. Preferred(w) \subseteq Waiting(w) /\ Waiting(w) \subseteq Page
      BY DEF Preferred, Waiting, Pending
    <3> QED
      BY <3>1, PageAssumption, FS_Subset
  <2>5. Cardinality(P) \in 0..Limit
    <3>1. Cardinality(Preferred(w)) \in Nat
      BY <2>4, FS_CardinalityType
    <3>2. Cardinality(P) = IF Cardinality(Preferred(w)) < Reserved THEN Cardinality(Preferred(w)) ELSE Reserved
      BY <2>2 DEF Oldest
    <3> QED
      BY <3>1, <3>2, LimitAssumption
  <2>6. ASSUME ~full'[w]
        PROVE  batch'[w] = Waiting(w)
    <3>1. Cardinality(Q) = IF Cardinality(Waiting(w) \ P) < Limit - Cardinality(P)
                           THEN Cardinality(Waiting(w) \ P) ELSE Limit - Cardinality(P)
      BY <2>2 DEF Oldest
    <3>2. P \in SUBSET Waiting(w) /\ ~(Cardinality(P \cup Q) >= Limit)
      BY <2>3, <2>4, <2>6
    <3> HIDE DEF Waiting
    <3> QED
      BY <2>2, <2>3, <2>4, <2>5, <3>1, <3>2, SelectTakesAll
  <2>7. ASSUME NEW r \in Page, status[r] = "extracted", Has(w, r)
        PROVE  Covered(r)'
    <3>1. Pinned(pin[w], r)
      BY <2>1, <2>7, NobodyAssumption DEF Has
    <3>2. r \in Waiting(w)
      BY <2>7, <3>1 DEF Waiting, Pending
    <3>3. full'[w] = TRUE \/ r \in batch'[w]
      BY <2>3, <2>6, <3>2
    <3>4. Has(w, r)'
      BY <1>1, <2>1, <3>1, <3>3 DEF Has, Pinned
    <3> QED
      BY <3>4 DEF Covered
  <2>8. ASSUME NEW r \in Page, status[r] = "extracted"
        PROVE  Covered(r)'
    BY <1>1, <1>2, <2>7, <2>8, RunnerCovers DEF AllCovered
  <2> QED
    BY <1>3, <2>1, <2>8 DEF AllCovered
<1>6. CASE Decide(w)
  <2>1. PICK r \in batch[w] : Decide(w)!(r)
    BY <1>6 DEF Decide
  <2>2. /\ pc[w] = "rows" /\ pc'[w] = "commit" /\ plan[w].row = None
        /\ batch'[w] = batch[w] \ {r} /\ UNCHANGED <<full, status>>
    BY <1>0, <2>1 DEF At, Goto, Typed, LockInv, RunType, RunOK, staging
  <2>3. plan'[w].row = r
    <3>1. r \in Page /\ plan'[w] = Verdict(r, 0)
      BY <1>0, <2>1 DEF Typed, RunType, PlanInv, Function
    <3> QED
      BY <1>0, <3>1, VerdictSound DEF Typed
  <2>4. \A s \in Page : Has(w, s) => Has(w, s)'
    BY <1>1, <2>2, <2>3, NobodyAssumption DEF Has, Pinned
  <2>5. \A s \in Page : Has(w, s) => Covered(s)'
    BY <2>4 DEF Covered
  <2>6. ASSUME NEW s \in Page, status[s] = "extracted"
        PROVE  Covered(s)'
    BY <1>1, <1>2, <2>5, <2>6, RunnerCovers DEF AllCovered
  <2> QED
    BY <1>3, <2>2, <2>6 DEF AllCovered
<1> QED
  BY <1>4, <1>5, <1>6

LEMMA ApplyExtracts ==
  ASSUME StagingType, NEW v, v.row \in Page, NEW waiting, Apply(v, waiting)
  PROVE  \A r \in Page : status'[r] = "extracted" => status[r] = "extracted" /\ r # v.row
<1>1. \/ status' = [status EXCEPT ![v.row] = "quarantined"]
      \/ \E outcome \in {"promoted", "duplicate"} : Settle(v.row, outcome, waiting)
  BY ApplyCases
<1> QED
  BY <1>1 DEF Settle, StagingType

LEMMA WriteCovers ==
  ASSUME Inv, RunInv, Calm, SentKeys, AllCovered, NoClash, faults' = 0,
         NEW w \in Worker, CommitRow(w) \/ RowRaises(w)
  PROVE  SentKeys' /\ AllCovered'
<1>0. w \in Actor /\ Worker \subseteq Actor /\ Typed /\ pc[w] = "commit"
  BY DEF Actor, Inv, CommitRow, RowRaises, At
<1>1. CommitRow(w)
  BY <1>0 DEF RowRaises, Fault, Calm, NoClash
<1>2. UNCHANGED <<key, due, asks, pin, batch, full>> /\ \A k : Coming(k) => Coming(k)'
  BY <1>1, ComingStays DEF CommitRow, requests, run
<1>3. Others(w) /\ pc'[w] = "rows"
  BY <1>0, <1>1, GotoOthers DEF CommitRow
<1>4. plan[w].row \in Page
  BY <1>0 DEF Typed, PlanInv
<1>5. \A r \in Page : status'[r] = "extracted" => status[r] = "extracted" /\ r # plan[w].row
  <2> DEFINE v == plan[w]
  <2>1. Apply(v, open) /\ v.row \in Page /\ StagingType
    BY <1>0, <1>1, <1>4 DEF CommitRow, Typed
  <2> HIDE DEF v
  <2>2. \A r \in Page : status'[r] = "extracted" => status[r] = "extracted" /\ r # v.row
    BY <2>1, ApplyExtracts
  <2> QED
    BY <2>2 DEF v
<1>6. \A r \in Page : r # plan[w].row /\ Has(w, r) => Has(w, r)'
  BY <1>0, <1>2, <1>3 DEF Has, Pinned
<1>7. ASSUME NEW r \in Page, status'[r] = "extracted"
      PROVE  Covered(r)'
  <2>1. Covered(r) /\ r # plan[w].row
    BY <1>5, <1>7 DEF AllCovered
  <2>2. Has(w, r) => Covered(r)'
    BY <1>6, <2>1 DEF Covered
  <2>3. \A x \in Worker \ {w} : /\ pc'[x] = pc[x] /\ batch'[x] = batch[x] /\ plan'[x] = plan[x]
                                /\ pin'[x] = pin[x] /\ full'[x] = full[x]
    BY <1>0, <1>2, <1>3 DEF Others
  <2> QED
    BY <1>2, <2>1, <2>2, <2>3, RunnerCovers
<1> QED
  BY <1>2, <1>7 DEF SentKeys, AllCovered

LEMMA EndCovers ==
  ASSUME Inv, RunInv, SentKeys, AllCovered, NEW w \in Worker, AskForNext(w) \/ EndPromotion(w)
  PROVE  SentKeys' /\ AllCovered'
<1>0. w \in Actor /\ w \in Proc /\ Worker \subseteq Actor /\ Typed /\ RunOK(w)
  BY ProcAssumption DEF Actor, Inv, RunInv
<1>1. CASE AskForNext(w)
  <2>1. /\ pc[w] = "rows" /\ batch[w] = {} /\ plan[w].row = None /\ asks[w] = <<>>
        /\ UNCHANGED <<status, key, due, batch, plan, pin, full>>
    BY <1>0, <1>1 DEF AskForNext, At, RunOK, Quiet, run, staging
  <2>2. asks'[w] = <<pin[w]>> /\ \A p \in Proc : asks'[p] = asks[p] \/ asks[p] = <<>>
    BY <1>0, <1>1, <2>1, AskForOne DEF AskForNext
  <2>3. \A k : Coming(k) => Coming(k)'
    BY <2>1, <2>2, ComingStays
  <2>4. Coming(pin[w])'
    <3>1. 1 \in DOMAIN asks'[w] /\ asks'[w][1] = pin'[w]
      BY <2>1, <2>2
    <3> QED
      BY <1>0, <3>1 DEF Coming
  <2>5. \A x \in Worker \ {w} : /\ pc'[x] = pc[x] /\ batch'[x] = batch[x] /\ plan'[x] = plan[x]
                                /\ pin'[x] = pin[x] /\ full'[x] = full[x]
    BY <1>0, <1>1, <2>1 DEF AskForNext, Goto, Typed, LockInv
  <2>6. ASSUME NEW r \in Page, Has(w, r)
        PROVE  Covered(r)'
    <3>1. Pinned(pin[w], r)
      BY <2>1, <2>6, NobodyAssumption DEF Has
    <3> QED
      BY <2>1, <2>4, <3>1 DEF Covered, Pinned
  <2>7. ASSUME NEW r \in Page, status[r] = "extracted"
        PROVE  Covered(r)'
    BY <2>3, <2>5, <2>6, <2>7, RunnerCovers DEF AllCovered
  <2> QED
    BY <2>1, <2>7 DEF SentKeys, AllCovered
<1>2. CASE EndPromotion(w)
  <2>1. Leave(w) /\ UNCHANGED <<status, key, due, asks>>
    BY <1>2 DEF EndPromotion, staging, requests
  <2>2. \A k : Coming(k) => Coming(k)'
    BY <2>1, ComingStays
  <2>3. \A x \in Worker \ {w} : /\ pc'[x] = pc[x] /\ batch'[x] = batch[x] /\ plan'[x] = plan[x]
                                /\ pin'[x] = pin[x] /\ full'[x] = full[x]
    BY <1>0, <2>1 DEF Leave, Decided, Goto, Typed, LockInv, RunType, PlanInv, Function
  <2>4. \A r \in Page : ~Has(w, r)
    <3>1. CASE pc[w] = "unlock"
      BY <3>1, NoneHas
    <3>2. CASE pc[w] = "rows" /\ batch[w] = {} /\ ~full[w]
      BY <1>0, <3>2, NobodyAssumption DEF Has, RunOK
    <3> QED
      BY <1>2, <3>1, <3>2 DEF EndPromotion, At
  <2>5. ASSUME NEW r \in Page, status[r] = "extracted"
        PROVE  Covered(r)'
    BY <2>2, <2>3, <2>4, <2>5, RunnerCovers DEF AllCovered
  <2> QED
    BY <2>1, <2>5 DEF SentKeys, AllCovered
<1> QED
  BY <1>1, <1>2

LEMMA SameCovers ==
  ASSUME SentKeys, AllCovered, UNCHANGED <<status, requests, run>>,
         \A w \in Worker : pc'[w] = pc[w] /\ plan'[w] = plan[w]
  PROVE  SentKeys' /\ AllCovered'
<1>1. \A r \in Page : Covered(r) => Covered(r)'
  BY DEF Covered, Coming, Has, Pinned, requests, run
<1> QED
  BY <1>1 DEF SentKeys, AllCovered, requests

LEMMA ReviewerCovers ==
  ASSUME Inv, SentKeys, AllCovered, judged' = {},
         NEW v \in Reviewer, Open(v) \/ Reject(v) \/ Accept(v) \/ CommitReview(v)
  PROVE  SentKeys' /\ AllCovered'
<1>1. v \notin Worker /\ Worker \subseteq Actor /\ v \in Actor
  BY ProcAssumption DEF Actor
<1>2. \A x \in Actor \ {v} : pc'[x] = pc[x] /\ plan'[x] = plan[x]
  BY DEF Open, Reject, Accept, CommitReview, Decided, Goto, Inv, Typed, LockInv, PlanInv, Function
<1>3. UNCHANGED <<status, requests, run>>
  BY DEF Open, Reject, Accept, CommitReview, staging
<1> QED
  BY <1>1, <1>2, <1>3, SameCovers

LEMMA ChainStep ==
  ASSUME Inv, RunInv, CorpusInv, ChainInv, Next \/ UNCHANGED vars
  PROVE  ChainInv'
<1>1. SUFFICES ASSUME Calm'
               PROVE  SentKeys' /\ NoClash' /\ AllCovered'
  BY DEF ChainInv
<1>2. Calm /\ ~Fault /\ faults' = 0 /\ judged' = {}
  <2>1. judged \subseteq judged'
    BY ThreeKinds DEF Rests, Decides, Commits
  <2>2. faults \in Nat /\ (Fault \/ UNCHANGED faults)
    <3>1. Fault \/ UNCHANGED faults
      BY DEF Next, Step, vars, Commit, JobDies, Request, Elapse, Beat, BeginPromotion, Release, SelectBatch,
             Decide, CommitRow, RowRaises, AskForNext, EndPromotion, WorkerDies, Open, Reject, Accept,
             CommitReview
    <3>2. faults \in Nat
      BY FaultAssumption DEF Inv, Typed, RequestsTypeOK
    <3> QED
      BY <3>1, <3>2
  <2>3. faults = 0 /\ ~Fault
    BY <1>1, <2>2 DEF Calm, Fault
  <2> QED
    BY <1>1, <2>1, <2>3 DEF Calm
<1>3. SentKeys /\ NoClash /\ AllCovered
  BY <1>2 DEF ChainInv
<1>4. NoClash'
  BY <1>2, <1>3, ClashStep
<1>5. ASSUME OthersSame,
             (\E p \in Proc : Request(p)) \/ (\E k \in Key : Elapse(k)) \/ Beat(All)
      PROVE  SentKeys' /\ AllCovered'
  BY <1>2, <1>3, <1>5, RequestsCover
<1>6. ASSUME NEW j \in Job, Commit(j) \/ JobDies(j)
      PROVE  SentKeys' /\ AllCovered'
  BY <1>2, <1>3, <1>6, CommitCovers DEF JobDies
<1>7. ASSUME NEW w \in Worker, (\E k \in Key : BeginPromotion(w, k)) \/ Step(w) \/ WorkerDies(w)
      PROVE  SentKeys' /\ AllCovered'
  BY <1>2, <1>3, <1>7, BeginCovers, ReadCovers, WriteCovers, EndCovers DEF Step, WorkerDies
<1>8. ASSUME NEW v \in Reviewer, Open(v) \/ Reject(v) \/ Accept(v) \/ CommitReview(v)
      PROVE  SentKeys' /\ AllCovered'
  BY <1>2, <1>3, <1>8, ReviewerCovers
<1>9. ASSUME UNCHANGED vars
      PROVE  SentKeys' /\ AllCovered'
  BY <1>3, <1>9, SameCovers DEF vars, staging
<1>10. SentKeys' /\ AllCovered'
  BY <1>5, <1>6, <1>7, <1>8, <1>9 DEF Next
<1> QED
  BY <1>4, <1>10

LEMMA ChainInit ==
  ASSUME Init
  PROVE  RunInv /\ ChainInv
<1>1. RunInv
  BY DEF Init, RunInv, RunOK, NoPlan, Actor
<1>2. ChainInv
  BY DEF Init, RequestsInit, ChainInv, SentKeys, NoClash, AllCovered, Actor
<1> QED
  BY <1>1, <1>2

\* No row waits for Beat: for any number of jobs, workers, pages and batches, while nothing fails and
\* no reviewer has stepped in.
THEOREM NoRowWaitsForBeat == Spec => []RowAskedFor
<1> DEFINE All4 == Inv /\ CorpusInv /\ RunInv /\ ChainInv
<1>1. Init => All4
  BY InvInit, CorpusInit, ChainInit
<1>2. All4 /\ [Next]_vars => All4'
  BY InvStep, CorpusStep, RunStep, ChainStep
<1>3. All4 => RowAskedFor
  BY DEF ChainInv, Calm, AllCovered, Covered, Has, RowAskedFor, InRun, Pending
<1> HIDE DEF All4
<1> QED
  BY <1>1, <1>2, <1>3, PTL DEF Spec
================================================================================
