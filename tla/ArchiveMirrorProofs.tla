-------------------------- MODULE ArchiveMirrorProofs --------------------------
(* Machine-checked proofs about ArchiveMirror, for any number of promotion runs, workers,   *)
(* judgments, targets and faults.                                                           *)
EXTENDS ArchiveMirror, FiniteSetTheorems, SequenceTheorems, TLAPS

RunTypeOK ==
  /\ saved \subseteq Judgment /\ unasked \subseteq Promoter
  /\ pc \in [Worker -> {"idle", "walk", "put", "record"}]
  /\ newest \in [Worker -> SUBSET Judgment] /\ turn \in [Worker -> SUBSET Target]
  /\ todo \in [Worker -> SUBSET Judgment]
  /\ at \in [Worker -> [target : Target \cup {None}, row : Judgment \cup {None}]]
  /\ more \in [Worker -> BOOLEAN] /\ late \in [Worker -> BOOLEAN]
  /\ copy \in [Target -> [Judgment -> {"none", "stored", "written", "failed"}]]
  /\ cutoff \in [Batched -> SUBSET Judgment] /\ old \subseteq Batched

\* The worker in a mirror run, and no other, holds the lock.
LockInv ==
  /\ mirrorLock \in Worker \cup {None}
  /\ pc = [w \in Worker |-> pc[w]]
  /\ \A w \in Worker : pc[w] # "idle" <=> mirrorLock = w

--------------------------------------------------------------------------------
(* The chain's requests. *)

LEMMA AskForType ==
  ASSUME asks \in [Proc -> Seq(Key)], NEW p \in Proc, NEW ks \in Seq(Key), AskFor(p, ks)
  PROVE  asks' \in [Proc -> Seq(Key)]
BY DEF AskFor

LEMMA FaultType ==
  ASSUME faults \in 0..MaxFaults, Fault
  PROVE  faults' \in 0..MaxFaults
BY FaultAssumption DEF Fault

LEMMA RequestStep ==
  ASSUME RequestsTypeOK,
         \/ \E p \in Proc : Request(p)
         \/ \E k \in Key : Elapse(k) \/ Beat(k)
  PROVE  RequestsTypeOK'
<1>1. ASSUME NEW p \in Proc, Request(p)
      PROVE  RequestsTypeOK'
  <2>1. Head(asks[p]) \in Key /\ Tail(asks[p]) \in Seq(Key)
    BY <1>1, HeadTailProperties DEF Request, Quiet, RequestsTypeOK
  <2>2. asks' \in [Proc -> Seq(Key)]
    BY <1>1, <2>1, AskForType DEF Request, RequestsTypeOK
  <2>3. faults' \in 0..MaxFaults
    BY <1>1, FaultType DEF Request, RequestsTypeOK
  <2> QED
    BY <1>1, <2>1, <2>2, <2>3 DEF Request, RequestsTypeOK
<1>2. ASSUME NEW k \in Key, Elapse(k) \/ Beat(k)
      PROVE  RequestsTypeOK'
  BY <1>2 DEF Elapse, Beat, RequestsTypeOK
<1> QED
  BY <1>1, <1>2

LEMMA DiesType ==
  ASSUME RequestsTypeOK, NEW p \in Proc, DiesAsking(p)
  PROVE  key' \in [Key -> {"free", "set", "sent"}] /\ asks' \in [Proc -> Seq(Key)]
<1>1. <<>> \in Seq(Key)
  OBVIOUS
<1> QED
  BY <1>1, AskForType DEF DiesAsking, RequestsTypeOK

--------------------------------------------------------------------------------
(* One run at a time. *)

LEMMA LockStep ==
  ASSUME LockInv, Next
  PROVE  LockInv'
<1> USE NobodyAssumption DEF LockInv, At, Goto
<1>1. ASSUME NEW q \in Promoter, SaveJudgment(q) \/ EndPromotion(q) \/ PromoterDies(q)
      PROVE  LockInv'
  BY <1>1 DEF SaveJudgment, EndPromotion, PromoterDies, run
<1>2. CASE OthersSame
  BY <1>2 DEF OthersSame, run
<1>3. ASSUME NEW w \in Worker, BeginMirror(w)
      PROVE  LockInv'
  BY <1>3 DEF BeginMirror
<1>4. ASSUME NEW w \in Worker, NEW t \in Target, VisitTarget(w, t) \/ PassBy(w, t)
      PROVE  LockInv'
  BY <1>4 DEF VisitTarget, PassBy
<1>5. ASSUME NEW w \in Worker, NEW r \in Judgment, Pick(w, r)
      PROVE  LockInv'
  BY <1>5 DEF Pick
<1>6. ASSUME NEW w \in Worker, Put(w) \/ Record(w)
      PROVE  LockInv'
  <2>1. pc[w] \in {"put", "record"} /\ UNCHANGED mirrorLock
    BY <1>6 DEF Put, Record
  <2>2. pc' = [pc EXCEPT ![w] = "walk"] \/ pc' = [pc EXCEPT ![w] = "record"]
    BY <1>6 DEF Put, Record, NextJudgment
  <2> QED
    BY <2>1, <2>2
<1>7. ASSUME NEW w \in Worker, EndMirror(w)
      PROVE  LockInv'
  BY <1>7 DEF EndMirror
<1>8. ASSUME NEW w \in Worker, WorkerDies(w)
      PROVE  LockInv'
  BY <1>8 DEF WorkerDies
<1>9. ASSUME NEW t \in Batched, GrowOld(t) \/ LoseCutoff(t)
      PROVE  LockInv'
  BY <1>9 DEF GrowOld, LoseCutoff, run
<1> QED
  BY <1>1, <1>2, <1>3, <1>4, <1>5, <1>6, <1>7, <1>8, <1>9 DEF Next, Step
--------------------------------------------------------------------------------
(* Types. *)

LEMMA AskForMirror ==
  ASSUME asks \in [Proc -> Seq(Key)], NEW p \in Proc, AskFor(p, <<Mirror>>) \/ AskFor(p, <<>>)
  PROVE  asks' \in [Proc -> Seq(Key)]
<1>1. <<Mirror>> \in Seq(Key) /\ <<>> \in Seq(Key)
  BY MirrorAssumption
<1> QED
  BY <1>1, AskForType

LEMMA PromoterStep ==
  ASSUME RequestsTypeOK, RunTypeOK, NEW q \in Promoter,
         SaveJudgment(q) \/ EndPromotion(q) \/ PromoterDies(q)
  PROVE  RequestsTypeOK' /\ RunTypeOK'
<1>0. q \in Proc
  BY ProcAssumption
<1>1. CASE SaveJudgment(q)
  <2>1. (CHOOSE r \in Judgment : r \notin saved) \in Judgment
    BY <1>1 DEF SaveJudgment, RunTypeOK
  <2> QED
    BY <1>1, <2>1 DEF SaveJudgment, RequestsTypeOK, RunTypeOK, requests, run, archive
<1>2. CASE EndPromotion(q)
  <2>1. asks' \in [Proc -> Seq(Key)]
    BY <1>0, <1>2, AskForMirror DEF EndPromotion, RequestsTypeOK
  <2> QED
    BY <1>2, <2>1 DEF EndPromotion, RequestsTypeOK, RunTypeOK, run, archive
<1>3. CASE PromoterDies(q)
  <2>1. key' \in [Key -> {"free", "set", "sent"}] /\ asks' \in [Proc -> Seq(Key)]
    BY <1>0, <1>3, DiesType DEF PromoterDies, RequestsTypeOK
  <2>2. faults' \in 0..MaxFaults
    BY <1>3, FaultType DEF PromoterDies, RequestsTypeOK
  <2> QED
    BY <1>3, <2>1, <2>2 DEF PromoterDies, RequestsTypeOK, RunTypeOK, run, archive
<1> QED
  BY <1>1, <1>2, <1>3

LEMMA BeginStep ==
  ASSUME RequestsTypeOK, RunTypeOK, NEW w \in Worker, BeginMirror(w)
  PROVE  RequestsTypeOK' /\ RunTypeOK'
<1>0. w \in Proc
  BY ProcAssumption
<1>1. asks' \in [Proc -> Seq(Key)]
  <2>1. CASE UNCHANGED asks
    BY <2>1 DEF RequestsTypeOK
  <2>2. CASE AskFor(w, <<Mirror>>)
    BY <1>0, <2>2, AskForMirror DEF RequestsTypeOK
  <2> QED
    BY <2>1, <2>2 DEF BeginMirror
<1>2. newest' \in [Worker -> SUBSET Judgment]
  BY DEF BeginMirror, UpTo, RunTypeOK
<1>3. RequestsTypeOK'
  <2>1. UNCHANGED <<key, faults>> /\ due' \subseteq due
    BY DEF BeginMirror
  <2> QED
    BY <1>1, <2>1 DEF RequestsTypeOK
<1>4. pc' \in [Worker -> {"idle", "walk", "put", "record"}] /\ turn' \in [Worker -> SUBSET Target]
  <2>1. \/ pc' = [pc EXCEPT ![w] = "walk"] /\ turn' = [turn EXCEPT ![w] = Target]
        \/ UNCHANGED <<pc, turn>>
    BY DEF BeginMirror, Goto
  <2> QED
    BY <2>1 DEF RunTypeOK
<1>5. RunTypeOK'
  <2>1. UNCHANGED <<saved, unasked, todo, at, more, late, copy, cutoff, old>>
    BY DEF BeginMirror, corpus, archive
  <2> QED
    BY <1>2, <1>4, <2>1 DEF RunTypeOK
<1> QED
  BY <1>3, <1>5

LEMMA RowType ==
  ASSUME at \in [Worker -> [target : Target \cup {None}, row : Judgment \cup {None}]],
         NEW w \in Worker, NEW r \in Judgment \cup {None}, at' = [at EXCEPT ![w].row = r]
  PROVE  at' \in [Worker -> [target : Target \cup {None}, row : Judgment \cup {None}]]
<1> DEFINE Place == [target : Target \cup {None}, row : Judgment \cup {None}]
<1>1. [at[w] EXCEPT !.row = r] \in Place
  OBVIOUS
<1>2. at' = [at EXCEPT ![w] = [at[w] EXCEPT !.row = r]]
  OBVIOUS
<1> QED
  BY <1>1, <1>2

LEMMA CopyType ==
  ASSUME copy \in [Target -> [Judgment -> {"none", "stored", "written", "failed"}]],
         NEW t, NEW r, NEW c \in {"stored", "written", "failed"}, copy' = [copy EXCEPT ![t][r] = c]
  PROVE  copy' \in [Target -> [Judgment -> {"none", "stored", "written", "failed"}]]
OBVIOUS

LEMMA NextType ==
  ASSUME RunTypeOK, NEW w \in Worker, NEW r, NextJudgment(w, r)
  PROVE  /\ pc' \in [Worker -> {"idle", "walk", "put", "record"}]
         /\ at' \in [Worker -> [target : Target \cup {None}, row : Judgment \cup {None}]]
         /\ todo' \in [Worker -> SUBSET Judgment] /\ late' \in [Worker -> BOOLEAN]
<1>1. at' \in [Worker -> [target : Target \cup {None}, row : Judgment \cup {None}]]
  BY RowType DEF NextJudgment, RunTypeOK
<1>2. /\ pc' \in [Worker -> {"idle", "walk", "put", "record"}]
      /\ todo' \in [Worker -> SUBSET Judgment] /\ late' \in [Worker -> BOOLEAN]
  BY DEF RunTypeOK, NextJudgment, Goto
<1> QED
  BY <1>1, <1>2

LEMMA RunStep ==
  ASSUME RequestsTypeOK, RunTypeOK, NEW w \in Worker, Step(w)
  PROVE  RequestsTypeOK' /\ RunTypeOK'
<1>1. CASE Put(w)
  <2>1. copy' \in [Target -> [Judgment -> {"none", "stored", "written", "failed"}]]
    BY <1>1, CopyType DEF Put, RunTypeOK
  <2>2. faults' \in 0..MaxFaults
    BY <1>1, FaultType DEF Put, RequestsTypeOK
  <2>3. /\ pc' \in [Worker -> {"idle", "walk", "put", "record"}]
        /\ at' \in [Worker -> [target : Target \cup {None}, row : Judgment \cup {None}]]
        /\ todo' \in [Worker -> SUBSET Judgment] /\ late' \in [Worker -> BOOLEAN]
    <3>1. CASE NextJudgment(w, at[w].row)
      BY <3>1, NextType
    <3>2. CASE Goto(w, "record") /\ UNCHANGED <<at, todo, late>>
      BY <3>2 DEF Goto, RunTypeOK
    <3>3. CASE /\ Goto(w, "walk") /\ at' = [at EXCEPT ![w].row = None]
               /\ todo' = [todo EXCEPT ![w] = {}] /\ UNCHANGED late
      BY <3>3, RowType DEF Goto, RunTypeOK
    <3> QED
      BY <1>1, <3>1, <3>2, <3>3 DEF Put
  <2> QED
    BY <1>1, <2>1, <2>2, <2>3 DEF Put, RequestsTypeOK, RunTypeOK, corpus, requests
<1>2. CASE Record(w)
  <2>1. copy' \in [Target -> [Judgment -> {"none", "stored", "written", "failed"}]]
    BY <1>2, CopyType DEF Record, RunTypeOK
  <2>2. /\ pc' \in [Worker -> {"idle", "walk", "put", "record"}]
        /\ at' \in [Worker -> [target : Target \cup {None}, row : Judgment \cup {None}]]
        /\ todo' \in [Worker -> SUBSET Judgment] /\ late' \in [Worker -> BOOLEAN]
    BY <1>2, NextType DEF Record
  <2> QED
    BY <1>2, <2>1, <2>2 DEF Record, RequestsTypeOK, RunTypeOK, corpus, requests
<1>3. CASE EndMirror(w)
  <2>1. asks' \in [Proc -> Seq(Key)]
    BY <1>3, AskForMirror, ProcAssumption DEF EndMirror, RequestsTypeOK
  <2>2. RunTypeOK'
    BY <1>3 DEF EndMirror, Forget, Nowhere, Goto, RunTypeOK, corpus, archive
  <2> QED
    BY <1>3, <2>1, <2>2 DEF EndMirror, RequestsTypeOK
<1>4. ASSUME NEW t \in Target, VisitTarget(w, t)
      PROVE  RequestsTypeOK' /\ RunTypeOK'
  <2>1. todo' \in [Worker -> SUBSET Judgment]
    BY <1>4 DEF VisitTarget, UpTo, Backlog, Lacking, Scope, RunTypeOK
  <2>2. cutoff' \in [Batched -> SUBSET Judgment] /\ old' \subseteq Batched
    BY <1>4 DEF VisitTarget, RunTypeOK
  <2>3. more' \in [Worker -> BOOLEAN]
    BY <1>4 DEF VisitTarget, RunTypeOK
  <2>4. /\ at' \in [Worker -> [target : Target \cup {None}, row : Judgment \cup {None}]]
        /\ turn' \in [Worker -> SUBSET Target]
    BY <1>4 DEF VisitTarget, RunTypeOK
  <2> QED
    BY <1>4, <2>1, <2>2, <2>3, <2>4 DEF VisitTarget, RequestsTypeOK, RunTypeOK, corpus, requests
<1>5. ASSUME NEW t \in Target, PassBy(w, t)
      PROVE  RequestsTypeOK' /\ RunTypeOK'
  BY <1>5 DEF PassBy, RequestsTypeOK, RunTypeOK, corpus, requests
<1>6. ASSUME NEW r \in Judgment, Pick(w, r)
      PROVE  RequestsTypeOK' /\ RunTypeOK'
  <2>1. at' \in [Worker -> [target : Target \cup {None}, row : Judgment \cup {None}]]
    BY <1>6, RowType DEF Pick, RunTypeOK
  <2>2. /\ pc' \in [Worker -> {"idle", "walk", "put", "record"}]
        /\ todo' \in [Worker -> SUBSET Judgment]
    BY <1>6 DEF Pick, Goto, RunTypeOK
  <2> QED
    BY <1>6, <2>1, <2>2 DEF Pick, RequestsTypeOK, RunTypeOK, corpus, requests, archive
<1> QED
  BY <1>1, <1>2, <1>3, <1>4, <1>5, <1>6 DEF Step

LEMMA AroundStep ==
  ASSUME RequestsTypeOK, RunTypeOK,
         \/ \E w \in Worker : WorkerDies(w)
         \/ \E t \in Batched : GrowOld(t) \/ LoseCutoff(t)
  PROVE  RequestsTypeOK' /\ RunTypeOK'
<1>1. ASSUME NEW w \in Worker, WorkerDies(w)
      PROVE  RequestsTypeOK' /\ RunTypeOK'
  <2>1. key' \in [Key -> {"free", "set", "sent"}] /\ asks' \in [Proc -> Seq(Key)]
    BY <1>1, DiesType, ProcAssumption DEF WorkerDies, RequestsTypeOK
  <2>2. faults' \in 0..MaxFaults /\ due' \subseteq Key
    BY <1>1, FaultType, MirrorAssumption DEF WorkerDies, RequestsTypeOK
  <2>3. RunTypeOK'
    BY <1>1 DEF WorkerDies, Forget, Nowhere, Goto, RunTypeOK, corpus, archive
  <2> QED
    BY <2>1, <2>2, <2>3 DEF RequestsTypeOK
<1>2. ASSUME NEW t \in Batched, GrowOld(t)
      PROVE  RequestsTypeOK' /\ RunTypeOK'
  BY <1>2 DEF GrowOld, RequestsTypeOK, RunTypeOK, corpus, requests, run
<1>3. ASSUME NEW t \in Batched, LoseCutoff(t)
      PROVE  RequestsTypeOK' /\ RunTypeOK'
  BY <1>3, FaultType DEF LoseCutoff, RequestsTypeOK, RunTypeOK, corpus, requests, run
<1> QED
  BY <1>1, <1>2, <1>3

LEMMA TypesAre == TypeOK <=> RequestsTypeOK /\ RunTypeOK /\ LockInv
BY DEF TypeOK, RunTypeOK, LockInv

LEMMA TypeStep ==
  ASSUME TypeOK, [Next]_vars
  PROVE  TypeOK'
<1>0. RequestsTypeOK /\ RunTypeOK /\ LockInv
  BY TypesAre
<1>1. CASE Next
  <2>1. ASSUME OthersSame, \/ \E p \in Proc : Request(p)
                           \/ \E k \in Key : Elapse(k) \/ Beat(k)
        PROVE  RequestsTypeOK' /\ RunTypeOK'
    <3>1. RunTypeOK'
      BY <1>0, <2>1 DEF OthersSame, RunTypeOK, corpus, run, archive
    <3> QED
      BY <1>0, <2>1, <3>1, RequestStep
  <2>2. RequestsTypeOK' /\ RunTypeOK'
    BY <1>0, <1>1, <2>1, PromoterStep, BeginStep, RunStep, AroundStep DEF Next
  <2>3. LockInv'
    BY <1>0, <1>1, LockStep
  <2> QED
    BY <2>2, <2>3 DEF TypeOK, RunTypeOK, LockInv
<1>2. CASE UNCHANGED vars
  BY <1>2 DEF TypeOK, RequestsTypeOK, vars, corpus, requests, run, archive
<1> QED
  BY <1>1, <1>2

LEMMA TypeInit == Init => TypeOK
<1>1. Init => RequestsTypeOK
  BY FaultAssumption DEF Init, RequestsInit, RequestsTypeOK
<1>2. Init => RunTypeOK
  BY DEF Init, RunTypeOK, Nowhere
<1>3. Init => LockInv
  BY NobodyAssumption DEF Init, LockInv
<1> QED
  BY <1>1, <1>2, <1>3, TypesAre

\* Every variable has its type, and one mirror run goes on at a time: the worker in it, and no
\* other, holds the advisory lock, through dead workers and tasks that come twice.
THEOREM OneMirrorRun == Spec => []TypeOK
BY TypeInit, TypeStep, PTL DEF Spec

--------------------------------------------------------------------------------
(***************************************************************************)
(* No second upload.  What the look at the ledger and at the target has    *)
(* found still holds when the upload is done, for nobody but the run under *)
(* the lock writes to a target.                                            *)
(***************************************************************************)
CopyOf(w) == copy[at[w].target][at[w].row]

PutInv == \A w \in Worker : At(w, "put") => CopyOf(w) \notin {"stored", "written"}

LEMMA PutStep ==
  ASSUME TypeOK, PutInv, [Next]_vars
  PROVE  PutInv'
<1> USE DEF PutInv, CopyOf, At, Goto
<1>0. /\ pc \in [Worker -> {"idle", "walk", "put", "record"}]
      /\ at \in [Worker -> [target : Target \cup {None}, row : Judgment \cup {None}]]
      /\ \A v, w \in Worker : v # w /\ pc[v] # "idle" => pc[w] = "idle"
  BY DEF TypeOK
<1>1. ASSUME NEW q \in Promoter, SaveJudgment(q) \/ EndPromotion(q) \/ PromoterDies(q)
      PROVE  PutInv'
  BY <1>1 DEF SaveJudgment, EndPromotion, PromoterDies, run, archive
<1>2. CASE OthersSame \/ UNCHANGED vars
  BY <1>2 DEF OthersSame, vars, run, archive
<1>3. ASSUME NEW w \in Worker, BeginMirror(w)
      PROVE  PutInv'
  BY <1>0, <1>3 DEF BeginMirror, archive
<1>4. ASSUME NEW w \in Worker, NEW t \in Target, VisitTarget(w, t) \/ PassBy(w, t)
      PROVE  PutInv'
  <2>1. /\ pc[w] = "walk" /\ UNCHANGED <<pc, copy>>
        /\ \A v \in Worker \ {w} : at'[v] = at[v]
    BY <1>0, <1>4 DEF VisitTarget, PassBy
  <2> QED
    BY <2>1
<1>5. ASSUME NEW w \in Worker, NEW r \in Judgment, Pick(w, r)
      PROVE  PutInv'
  <2>1. UNCHANGED copy /\ \A v \in Worker \ {w} : pc'[v] = pc[v] /\ at'[v] = at[v]
    BY <1>0, <1>5 DEF Pick, archive
  <2>2. pc'[w] = "put" => CopyOf(w)' \notin {"stored", "written"}
    BY <1>0, <1>5 DEF Pick, archive
  <2> QED
    BY <2>1, <2>2
<1>6. ASSUME NEW w \in Worker, Put(w) \/ Record(w)
      PROVE  PutInv'
  <2>1. pc[w] # "idle" /\ pc'[w] # "put" /\ \A v \in Worker \ {w} : pc'[v] = pc[v]
    BY <1>0, <1>6 DEF Put, Record, NextJudgment
  <2> QED
    BY <1>0, <2>1
<1>7. ASSUME NEW w \in Worker, EndMirror(w) \/ WorkerDies(w)
      PROVE  PutInv'
  BY <1>0, <1>7 DEF EndMirror, WorkerDies, Forget, archive
<1>8. ASSUME NEW t \in Batched, GrowOld(t) \/ LoseCutoff(t)
      PROVE  PutInv'
  BY <1>8 DEF GrowOld, LoseCutoff, run
<1> QED
  BY <1>1, <1>2, <1>3, <1>4, <1>5, <1>6, <1>7, <1>8 DEF Next, Step

\* No judgment's objects are uploaded to a target that has them, whatever run or crash came
\* before, however many workers take mirror tasks.
THEOREM NothingUploadedTwice == Spec => UploadedOnce
<1> DEFINE Inv == TypeOK /\ PutInv
           Fine == [\A w \in Worker : At(w, "put") /\ pc'[w] = "record" =>
                      copy[at[w].target][at[w].row] \notin {"stored", "written"}]_vars
<1>1. Init => Inv
  BY TypeInit DEF Init, PutInv, At
<1>2. Inv /\ [Next]_vars => Inv'
  BY TypeStep, PutStep
<1>3. Inv => Fine
  BY DEF PutInv, CopyOf
<1> QED
  BY <1>1, <1>2, <1>3, PTL DEF Spec, UploadedOnce

--------------------------------------------------------------------------------
(***************************************************************************)
(* No judgment waits for Beat.  As long as nothing has failed, a key is    *)
(* set only together with its task, a worker in a run has no request under *)
(* way, and each step that takes a judgment out of sight of one of the     *)
(* four who may see to it hands it to another.                             *)
(***************************************************************************)
Seen(t, r) == Coming(Mirror) \/ InMirror(t, r) \/ unasked # {}

Smooth ==
  /\ \A k \in Key : key[k] # "set"
  /\ \A w \in Worker : pc[w] # "idle" => Quiet(w)
  /\ \A t \in Target \ Batched : \A r \in Lacking(t) : Seen(t, r)

AskedInv == faults = 0 => Smooth

\* What stays as it is keeps a judgment in sight.
LEMMA StillSeen ==
  ASSUME NEW t, NEW r, Seen(t, r), UNCHANGED <<key, asks>>, due \subseteq due', unasked' = unasked,
         \A w \in Worker : \/ t \in turn[w] => t \in turn'[w]
                           \/ more'[w] \/ late'[w],
         \A w \in Worker : (more[w] => more'[w]) /\ (late[w] => late'[w]),
         \A w \in Worker : at[w].target = t /\ r \in todo[w] =>
           \/ more'[w] \/ late'[w]
           \/ at'[w].target = t /\ r \in todo'[w]
  PROVE  Seen(t, r)'
BY DEF Seen, Coming, InMirror

\* A request that is made becomes a task, as long as nothing fails.
LEMMA RequestKeeps ==
  ASSUME RequestsTypeOK, NEW p \in Proc, Request(p), ~Fault, \A k \in Key : key[k] # "set",
         Coming(Mirror)
  PROVE  Coming(Mirror)'
<1> DEFINE h == Head(asks[p])
<1>1. /\ asks[p] \in Seq(Key) /\ asks[p] # <<>>
      /\ asks' = [asks EXCEPT ![p] = Tail(asks[p])] /\ asks' [p] = Tail(asks[p]) /\ due' = due
  BY DEF Request, Quiet, AskFor, RequestsTypeOK
<1>2. h \in Key /\ key[h] # "set" /\ key[h] \in {"free", "set", "sent"}
  BY <1>1, HeadTailProperties DEF RequestsTypeOK
<1>3. key'[h] = "sent" /\ \A k \in Key \ {h} : key'[k] = key[k]
  BY <1>2 DEF Request, RequestsTypeOK
<1>4. CASE key[Mirror] = "sent" \/ Mirror \in due
  BY <1>1, <1>3, <1>4, MirrorAssumption DEF Coming
<1>5. ASSUME NEW q \in Proc, NEW i \in DOMAIN asks[q], asks[q][i] = Mirror
      PROVE  Coming(Mirror)'
  <2>1. CASE q # p
    <3>1. asks'[q] = asks[q]
      BY <1>1, <2>1 DEF RequestsTypeOK
    <3> QED
      BY <1>5, <3>1 DEF Coming
  <2>2. CASE q = p /\ i = 1
    BY <1>1, <1>3, <1>5, <2>2 DEF Coming
  <2>3. CASE q = p /\ i # 1
    <3>1. i \in 2..Len(asks[p]) /\ Len(Tail(asks[p])) = Len(asks[p]) - 1
      BY <1>1, <1>5, <2>3, HeadTailProperties
    <3>2. i - 1 \in 1..Len(Tail(asks[p])) /\ Tail(asks[p])[i - 1] = asks[p][(i - 1) + 1]
      BY <1>1, <3>1, HeadTailProperties
    <3>3. Tail(asks[p]) \in Seq(Key)
      BY <1>1, HeadTailProperties
    <3>4. Tail(asks[p])[i - 1] = Mirror
      <4>1. (i - 1) + 1 = i
        BY <3>1
      <4> QED
        BY <1>5, <2>3, <3>2, <4>1
    <3>5. i - 1 \in DOMAIN Tail(asks[p])
      BY <3>2, <3>3
    <3>6. asks'[p] = Tail(asks[p])
      BY <1>1
    <3> QED
      BY <3>4, <3>5, <3>6 DEF Coming
  <2> QED
    BY <2>1, <2>2, <2>3
<1> QED
  BY <1>4, <1>5 DEF Coming

\* The backlog is taken as a whole, unless it is larger than the quota.
LEMMA WholeBacklog ==
  ASSUME NEW S \in SUBSET Judgment, NEW B \in UpTo(Quota, S), ~(Cardinality(S) > Quota)
  PROVE  B = S
<1>1. IsFiniteSet(S) /\ Cardinality(S) \in Nat
  BY ArchiveAssumption, FS_Subset, FS_CardinalityType
<1>2. B \subseteq S /\ Cardinality(B) = Cardinality(S)
  BY <1>1, ArchiveAssumption DEF UpTo
<1> QED
  BY <1>1, <1>2, FS_Subset

\* As long as nothing has failed there is no fault in a step either.
LEMMA NoFault ==
  ASSUME faults \in 0..MaxFaults, faults' = 0
  PROVE  ~Fault
BY FaultAssumption DEF Fault

LEMMA SmoothPromoter ==
  ASSUME TypeOK, Smooth, ~Fault, NEW q \in Promoter, SaveJudgment(q) \/ EndPromotion(q) \/ PromoterDies(q)
  PROVE  Smooth'
<1> USE DEF Smooth
<1>0. q \in Proc /\ ~PromoterDies(q)
  BY ProcAssumption DEF PromoterDies
<1>1. CASE SaveJudgment(q)
  <2>1. unasked' # {}
    BY <1>1 DEF SaveJudgment
  <2> QED
    BY <1>1, <2>1 DEF SaveJudgment, requests, run, Quiet, Seen
<1>2. CASE EndPromotion(q)
  <2>1. asks'[q] = <<Mirror>> /\ \A p \in Proc \ {q} : asks'[p] = asks[p]
    BY <1>0, <1>2 DEF EndPromotion, AskFor, TypeOK, RequestsTypeOK
  <2>2. Coming(Mirror)'
    BY <1>0, <2>1 DEF Coming
  <2>3. \A w \in Worker : Quiet(w)' <=> Quiet(w)
    BY <2>1, ProcAssumption DEF Quiet
  <2> QED
    BY <1>2, <2>2, <2>3 DEF EndPromotion, run, Seen
<1> QED
  BY <1>0, <1>1, <1>2

LEMMA SmoothRequest ==
  ASSUME TypeOK, Smooth, ~Fault, OthersSame,
         \/ \E p \in Proc : Request(p)
         \/ \E k \in Key : Elapse(k) \/ Beat(k)
  PROVE  Smooth'
<1> USE DEF Smooth
<1>0. RequestsTypeOK
  BY DEF TypeOK
<1>1. ASSUME NEW p \in Proc, Request(p)
      PROVE  Smooth'
  <2>1. \A k \in Key : key'[k] # "set"
    BY <1>0, <1>1 DEF Request, RequestsTypeOK
  <2>2. \A w \in Worker : Quiet(w) => Quiet(w)'
    BY <1>0, <1>1, ProcAssumption DEF Request, AskFor, Quiet, RequestsTypeOK
  <2>3. Coming(Mirror) => Coming(Mirror)'
    BY <1>0, <1>1, RequestKeeps
  <2>4. UNCHANGED <<pc, saved, copy, unasked, turn, more, late, at, todo>>
    BY DEF OthersSame, corpus, run, archive
  <2> QED
    BY <2>1, <2>2, <2>3, <2>4 DEF Lacking, Seen, InMirror
<1>2. ASSUME NEW k \in Key, Elapse(k) \/ Beat(k)
      PROVE  Smooth'
  <2>1. Coming(Mirror) => Coming(Mirror)'
    BY <1>0, <1>2, MirrorAssumption DEF Elapse, Beat, Coming, RequestsTypeOK
  <2>2. UNCHANGED <<pc, saved, copy, unasked, turn, more, late, at, todo, asks>>
    BY <1>2 DEF OthersSame, corpus, run, archive, Elapse, Beat
  <2>3. \A j \in Key : key'[j] # "set"
    BY <1>0, <1>2 DEF Elapse, Beat, RequestsTypeOK
  <2> QED
    BY <2>1, <2>2, <2>3 DEF Lacking, Seen, InMirror, Quiet
<1> QED
  BY <1>1, <1>2

LEMMA SmoothBegin ==
  ASSUME TypeOK, Smooth, NEW w \in Worker, BeginMirror(w)
  PROVE  Smooth'
<1> USE DEF Smooth
<1>0. w \in Proc
  BY ProcAssumption
<1>1. UNCHANGED <<saved, unasked, key, todo, at, more, late, copy>>
  BY DEF BeginMirror, corpus, archive
<1>2. CASE Goto(w, "walk") /\ turn' = [turn EXCEPT ![w] = Target] /\ UNCHANGED asks
  <2>1. turn'[w] = Target
    BY <1>2 DEF TypeOK
  <2>2. \A v \in Worker : pc'[v] # "idle" => Quiet(v)'
    BY <1>2 DEF BeginMirror, Goto, Quiet, TypeOK
  <2> QED
    BY <1>1, <2>1, <2>2 DEF Seen, InMirror
<1>3. CASE AskFor(w, <<Mirror>>) /\ UNCHANGED pc
  <2>1. asks'[w] = <<Mirror>> /\ \A p \in Proc \ {w} : asks'[p] = asks[p]
    BY <1>0, <1>3 DEF AskFor, TypeOK, RequestsTypeOK
  <2>2. Coming(Mirror)'
    BY <1>0, <2>1 DEF Coming
  <2>3. \A v \in Worker : pc'[v] # "idle" => Quiet(v)'
    BY <1>3, <2>1, ProcAssumption DEF BeginMirror, At, Quiet
  <2> QED
    BY <1>1, <2>2, <2>3 DEF Seen
<1> QED
  BY <1>2, <1>3 DEF BeginMirror

LEMMA SmoothVisit ==
  ASSUME TypeOK, Smooth, NEW w \in Worker, NEW t \in Target, VisitTarget(w, t)
  PROVE  Smooth'
<1> USE DEF Smooth
<1>0. /\ turn \in [Worker -> SUBSET Target] /\ todo \in [Worker -> SUBSET Judgment]
      /\ at \in [Worker -> [target : Target \cup {None}, row : Judgment \cup {None}]]
      /\ more \in [Worker -> BOOLEAN] /\ late \in [Worker -> BOOLEAN]
      /\ saved \subseteq Judgment
  BY DEF TypeOK
<1>1. UNCHANGED <<saved, unasked, key, due, asks, pc, late, copy>>
  BY DEF VisitTarget, corpus, requests
<1>2. /\ turn' = [turn EXCEPT ![w] = @ \ {t}] /\ todo[w] = {}
      /\ \A v \in Worker \ {w} : todo'[v] = todo[v]
  BY <1>0 DEF VisitTarget
<1>3. /\ more'[w] = (more[w] \/ Cardinality(Backlog(w, t)) > Quota) /\ at'[w].target = t
      /\ \A v \in Worker \ {w} : more'[v] = more[v] /\ at'[v] = at[v]
  BY <1>0 DEF VisitTarget
<1>4. ASSUME NEW s \in Target \ Batched, NEW r \in Lacking(s)
      PROVE  Seen(s, r)'
  <2>1. CASE s # t
    <3>1. \A v \in Worker : s \in turn[v] => s \in turn'[v]
      BY <1>0, <1>2, <2>1
    <3>2. \A v \in Worker : (more[v] => more'[v]) /\ (late[v] => late'[v])
      BY <1>1, <1>3
    <3>3. \A v \in Worker : at[v].target = s /\ r \in todo[v] => at'[v].target = s /\ r \in todo'[v]
      BY <1>2, <1>3
    <3> QED
      BY <1>1, <3>1, <3>2, <3>3, StillSeen
  <2>2. CASE s = t /\ (late[w] \/ Cardinality(Backlog(w, t)) > Quota)
    BY <1>1, <1>3, <2>2 DEF Seen, InMirror
  <2>3. CASE s = t /\ ~late[w] /\ ~(Cardinality(Backlog(w, t)) > Quota)
    <3>1. PICK B \in UpTo(Quota, Backlog(w, t)) : todo' = [todo EXCEPT ![w] = (newest[w] \cap Scope(t)) \cup B]
      BY <2>3 DEF VisitTarget
    <3>2. Scope(t) = saved
      BY <2>3 DEF Scope, Open
    <3>3. Backlog(w, t) \in SUBSET Judgment
      BY <1>0, <3>2 DEF Backlog
    <3>4. B = Backlog(w, t)
      BY <2>3, <3>3, WholeBacklog
    <3>5. r \in todo'[w]
      BY <1>0, <2>3, <3>1, <3>2, <3>4 DEF Backlog, Lacking
    <3> QED
      BY <1>3, <2>3, <3>5 DEF Seen, InMirror
  <2> QED
    BY <2>1, <2>2, <2>3
<1>5. \A s \in Target : Lacking(s)' = Lacking(s)
  BY <1>1 DEF Lacking
<1> QED
  BY <1>1, <1>4, <1>5 DEF Quiet

LEMMA SmoothWork ==
  ASSUME TypeOK, PutInv, Smooth, ~Fault, NEW w \in Worker,
         Put(w) \/ Record(w) \/ EndMirror(w) \/ WorkerDies(w)
  PROVE  Smooth'
<1> USE DEF Smooth
<1>0. /\ turn \in [Worker -> SUBSET Target] /\ todo \in [Worker -> SUBSET Judgment]
      /\ at \in [Worker -> [target : Target \cup {None}, row : Judgment \cup {None}]]
      /\ more \in [Worker -> BOOLEAN] /\ late \in [Worker -> BOOLEAN]
      /\ saved \subseteq Judgment /\ pc \in [Worker -> {"idle", "walk", "put", "record"}]
      /\ copy \in [Target -> [Judgment -> {"none", "stored", "written", "failed"}]]
  BY DEF TypeOK
<1>1. CASE Put(w)
  <2>1. /\ UNCHANGED <<saved, unasked, key, due, asks, turn, more, at, todo, late>>
        /\ pc[w] # "idle" /\ pc' = [pc EXCEPT ![w] = "record"]
        /\ copy' = [copy EXCEPT ![at[w].target][at[w].row] = "stored"]
    BY <1>1 DEF Put, At, Goto, corpus, requests
  <2>2. CopyOf(w) \notin {"stored", "written"}
    BY <1>1 DEF PutInv, Put
  <2>3. \A t \in Target : Lacking(t)' \subseteq Lacking(t)
    BY <1>0, <2>1, <2>2 DEF Lacking, CopyOf
  <2>4. \A v \in Worker : pc'[v] # "idle" => pc[v] # "idle"
    BY <1>0, <2>1
  <2> QED
    BY <2>1, <2>3, <2>4 DEF Seen, Coming, InMirror, Quiet
<1>2. CASE Record(w)
  <2> DEFINE t == at[w].target
             r == at[w].row
  <2>1. /\ UNCHANGED <<saved, unasked, key, due, asks, turn, more>>
        /\ pc[w] # "idle" /\ pc' = [pc EXCEPT ![w] = "walk"] /\ at' = [at EXCEPT ![w].row = None]
        /\ copy' = [copy EXCEPT ![t][r] = "written"]
        /\ \/ todo' = [todo EXCEPT ![w] = @ \ {r}] /\ UNCHANGED late
           \/ todo' = [todo EXCEPT ![w] = {}] /\ late' = [late EXCEPT ![w] = TRUE]
    BY <1>2 DEF Record, NextJudgment, At, Goto, corpus, requests
  <2>2. /\ \A s \in Target : Lacking(s)' \subseteq Lacking(s)
        /\ r \in Judgment /\ t \in Target => r \notin Lacking(t)'
    BY <1>0, <2>1 DEF Lacking
  <2>3. \A v \in Worker : pc'[v] # "idle" => pc[v] # "idle"
    BY <1>0, <2>1
  <2>4. \A v \in Worker : at'[v].target = at[v].target
    BY <1>0, <2>1
  <2>5. \A v \in Worker \ {w} : todo'[v] = todo[v] /\ late'[v] = late[v]
    BY <1>0, <2>1
  <2>6. late'[w] \/ (todo'[w] = todo[w] \ {r} /\ late'[w] = late[w])
    BY <1>0, <2>1
  <2>7. ASSUME NEW s \in Target \ Batched, NEW q \in Lacking(s)'
        PROVE  Seen(s, q)'
    <3>1. q \in Judgment /\ Seen(s, q) /\ ~(s = t /\ q = r)
      BY <1>0, <2>1, <2>2, <2>7 DEF Lacking
    <3>2. \A v \in Worker : at[v].target = s /\ q \in todo[v] =>
            late'[v] \/ (at'[v].target = s /\ q \in todo'[v])
      BY <2>4, <2>5, <2>6, <3>1
    <3>3. \A v \in Worker : late[v] => late'[v]
      BY <2>5, <2>6
    <3> QED
      BY <2>1, <3>1, <3>2, <3>3 DEF Seen, Coming, InMirror
  <2> QED
    BY <2>1, <2>3, <2>7 DEF Quiet
<1>3. CASE EndMirror(w)
  <2>0. w \in Proc
    BY ProcAssumption
  <2>1. /\ UNCHANGED <<saved, unasked, key, due, copy>> /\ Quiet(w)
        /\ pc' = [pc EXCEPT ![w] = "idle"] /\ turn[w] = {} /\ todo[w] = {}
        /\ asks' = [asks EXCEPT ![w] = IF late[w] \/ more[w] THEN <<Mirror>> ELSE <<>>]
    BY <1>3 DEF EndMirror, At, Goto, AskFor, corpus, archive
  <2>2. \A v \in Worker \ {w} : turn'[v] = turn[v] /\ todo'[v] = todo[v] /\ at'[v] = at[v]
                                /\ more'[v] = more[v] /\ late'[v] = late[v] /\ pc'[v] = pc[v]
    BY <1>0, <1>3 DEF EndMirror, Goto, Forget
  <2>3. /\ \A p \in Proc \ {w} : asks'[p] = asks[p]
        /\ asks'[w] = IF late[w] \/ more[w] THEN <<Mirror>> ELSE <<>>
    BY <2>0, <2>1 DEF TypeOK, RequestsTypeOK
  <2>4. CASE late[w] \/ more[w]
    <3>1. Coming(Mirror)'
      BY <2>0, <2>3, <2>4 DEF Coming
    <3> QED
      BY <1>0, <2>1, <2>2, <2>3, <3>1, ProcAssumption DEF Quiet, Seen
  <2>5. CASE ~(late[w] \/ more[w])
    <3>1. asks'[w] = asks[w]
      BY <2>1, <2>3, <2>5 DEF Quiet
    <3>2. Coming(Mirror) => Coming(Mirror)'
      BY <2>1, <2>3, <3>1 DEF Coming
    <3>3. \A t \in Target, r \in Judgment : InMirror(t, r) => InMirror(t, r)'
      BY <2>1, <2>2, <2>5 DEF InMirror
    <3>4. \A t \in Target : Lacking(t)' = Lacking(t) /\ Lacking(t) \subseteq Judgment
      BY <1>0, <2>1 DEF Lacking
    <3>5. \A v \in Worker : pc'[v] # "idle" => Quiet(v)'
      BY <1>0, <2>1, <2>2, <2>3, <3>1, ProcAssumption DEF Quiet
    <3> QED
      BY <2>1, <3>2, <3>3, <3>4, <3>5 DEF Seen
  <2> QED
    BY <2>4, <2>5
<1>4. ~WorkerDies(w)
  BY DEF WorkerDies
<1> QED
  BY <1>1, <1>2, <1>3, <1>4

LEMMA SmoothAround ==
  ASSUME TypeOK, Smooth, ~Fault,
         \/ \E w \in Worker : \/ \E t \in Target : PassBy(w, t)
                              \/ \E r \in Judgment : Pick(w, r)
         \/ \E t \in Batched : GrowOld(t) \/ LoseCutoff(t)
         \/ UNCHANGED vars
  PROVE  Smooth'
<1> USE DEF Smooth
<1>0. /\ turn \in [Worker -> SUBSET Target] /\ todo \in [Worker -> SUBSET Judgment]
      /\ at \in [Worker -> [target : Target \cup {None}, row : Judgment \cup {None}]]
      /\ pc \in [Worker -> {"idle", "walk", "put", "record"}]
  BY DEF TypeOK
<1>1. ASSUME NEW w \in Worker, NEW t \in Target, PassBy(w, t)
      PROVE  Smooth'
  <2>1. /\ UNCHANGED <<saved, unasked, key, due, asks, pc, copy, todo, at, more, late>>
        /\ turn' = [turn EXCEPT ![w] = @ \ {t}] /\ turn[w] \subseteq Batched
    BY <1>1 DEF PassBy, corpus, requests
  <2>2. \A s \in Target \ Batched : \A v \in Worker : s \in turn[v] => s \in turn'[v]
    BY <1>0, <2>1
  <2> QED
    BY <2>1, <2>2 DEF Lacking, Seen, Coming, InMirror, Quiet
<1>2. ASSUME NEW w \in Worker, NEW r \in Judgment, Pick(w, r)
      PROVE  Smooth'
  <2>1. /\ UNCHANGED <<saved, unasked, key, due, asks, turn, copy, more, late>>
        /\ pc[w] = "walk"
    BY <1>2 DEF Pick, At, corpus, requests, archive
  <2>2. \A v \in Worker : at'[v].target = at[v].target /\ (pc'[v] # "idle" => pc[v] # "idle")
    BY <1>0, <1>2, <2>1 DEF Pick, Goto
  <2>3. \A v \in Worker : \A q \in todo[v] : q \in todo'[v] \/ (v = w /\ q = r /\ copy[at[w].target][r] = "written")
    BY <1>0, <1>2 DEF Pick
  <2>4. \A s \in Target : \A q \in Lacking(s) : Seen(s, q) => Seen(s, q)'
    BY <2>1, <2>2, <2>3 DEF Lacking, Seen, Coming, InMirror
  <2> QED
    BY <2>1, <2>2, <2>4 DEF Lacking, Quiet
<1>3. CASE (\E t \in Batched : GrowOld(t) \/ LoseCutoff(t)) \/ UNCHANGED vars
  <2>1. UNCHANGED <<saved, unasked, key, due, asks, pc, copy, turn, todo, at, more, late>>
    BY <1>3 DEF GrowOld, LoseCutoff, vars, corpus, requests, run, archive
  <2> QED
    BY <2>1 DEF Lacking, Seen, Coming, InMirror, Quiet
<1> QED
  BY <1>1, <1>2, <1>3

\* Faults are only ever added.
LEMMA FaultsGrow ==
  ASSUME TypeOK, [Next]_vars, faults' = 0
  PROVE  faults = 0
<1>1. UNCHANGED faults \/ Fault
  BY DEF Next, vars, SaveJudgment, EndPromotion, PromoterDies, Request, Elapse, Beat, BeginMirror,
         Step, Put, Record, EndMirror, VisitTarget, PassBy, Pick, WorkerDies, GrowOld, LoseCutoff
<1> QED
  BY <1>1, FaultAssumption DEF Fault, TypeOK, RequestsTypeOK

LEMMA AskedStep ==
  ASSUME TypeOK, PutInv, AskedInv, [Next]_vars
  PROVE  AskedInv'
<1> SUFFICES ASSUME faults' = 0
             PROVE  Smooth'
  BY DEF AskedInv
<1>1. Smooth /\ ~Fault
  BY FaultsGrow, NoFault DEF AskedInv, TypeOK, RequestsTypeOK
<1>2. CASE Next
  BY <1>1, <1>2, SmoothPromoter, SmoothRequest, SmoothBegin, SmoothVisit, SmoothWork, SmoothAround
  DEF Next, Step
<1>3. CASE UNCHANGED vars
  BY <1>1, <1>3, SmoothAround
<1> QED
  BY <1>2, <1>3

\* As long as nothing fails, no judgment waits for Beat on its way to a target that gets every
\* record as it is saved, however many promotion runs, workers, judgments and targets there are.
THEOREM NoJudgmentForgotten == Spec => []CopyAskedFor
<1> DEFINE Inv == TypeOK /\ PutInv /\ AskedInv
<1>1. Init => Inv
  <2>1. Init => AskedInv
    BY DEF Init, RequestsInit, AskedInv, Smooth, Lacking
  <2> QED
    BY <2>1, TypeInit DEF Init, PutInv, At
<1>2. Inv /\ [Next]_vars => Inv'
  BY TypeStep, PutStep, AskedStep
<1>3. Inv => CopyAskedFor
  BY DEF AskedInv, Smooth, Seen, CopyAskedFor
<1> QED
  BY <1>1, <1>2, <1>3, PTL DEF Spec
================================================================================
