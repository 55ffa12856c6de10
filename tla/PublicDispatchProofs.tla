-------------------------- MODULE PublicDispatchProofs --------------------------
(* Machine-checked proofs about PublicDispatch, for any number of passes, workers, tasks, job *)
(* rows, deaths and Redis errors.                                                             *)
EXTENDS PublicDispatch, FiniteSetTheorems, TLAPS

OnActors(f)    == f = [a \in Actor |-> f[a]]
OnProcesses(f) == f = [p \in Process |-> f[p]]

(***************************************************************************)
(* Types.  A worker that is in a task knows which.                         *)
(***************************************************************************)
InTask == {"start", "starting", "work"}

TypeInv ==
  /\ TypeOK
  /\ \A p \in Process : pc[p] \in InTask \cup {"idle"} /\ (pc[p] \in InTask => task[p] \in Task)

\* A Redis error is within the bound.
LEMMA FaultCount ==
  ASSUME TypeOK, RedisFails
  PROVE  faults' \in 0..MaxTroubles
  BY BoundAssumption DEF TypeOK, RedisFails

LEMMA TypePass ==
  ASSUME NEW d \in Pass, TypeInv, PassStep(d)
  PROVE  TypeInv'
<1> USE DEF TypeInv, TypeOK, At, Goto, Actor, Labels, InTask, source, queue, rows
<1>0. \A p \in Process : p # d
  BY ActorAssumption
<1>1. CASE BeginPass(d)
  BY <1>0, <1>1 DEF BeginPass
<1>2. CASE ReadRows(d)
  BY <1>0, <1>2 DEF ReadRows
<1>3. CASE Decide(d)
  <2>1. faults' \in 0..MaxTroubles
    BY <1>3, FaultCount DEF Decide
  <2> QED
    BY <1>0, <1>3, <2>1 DEF Decide, Active
<1>4. CASE Send(d)
  BY <1>0, <1>4 DEF Send
<1>5. CASE CommitPass(d)
  BY <1>0, <1>5 DEF CommitPass, Active
<1> QED
  BY <1>1, <1>2, <1>3, <1>4, <1>5 DEF PassStep

LEMMA TypeWork ==
  ASSUME NEW p \in Process, TypeInv, WorkStep(p) \/ Redeliver(p) \/ Touch(p)
  PROVE  TypeInv'
<1> USE DEF TypeInv, TypeOK, At, Goto, Actor, Labels, InTask, source, queue, rows
<1>1. CASE Take(p)
  BY <1>1 DEF Take
<1>2. CASE LockSource(p)
  <2>1. faults' \in 0..MaxTroubles
    BY <1>2, FaultCount DEF LockSource
  <2> QED
    BY <1>2, <2>1 DEF LockSource, Done
<1>3. CASE StartJob(p)
  BY <1>3 DEF StartJob, MayStart, Done, Active
<1>4. CASE FinishJob(p)
  BY <1>4 DEF FinishJob, Done
<1>5. CASE Redeliver(p)
  BY <1>5 DEF Redeliver
<1>6. CASE Touch(p)
  BY <1>6 DEF Touch
<1> QED
  BY <1>1, <1>2, <1>3, <1>4, <1>5, <1>6 DEF WorkStep

LEMMA TypeAround ==
  ASSUME TypeInv,
         \/ \E a \in Actor : Crash(a)
         \/ \E j \in Job : GoSilent(j)
         \/ Elapse \/ MarkExpires \/ Trigger \/ Admin
         \/ UNCHANGED vars
  PROVE  TypeInv'
<1> USE BoundAssumption DEF TypeInv, TypeOK, At, Goto, Labels, InTask, source, queue, rows
<1>1. ASSUME NEW a \in Actor, Crash(a)
      PROVE  TypeInv'
  <2>1. a \in Process => task[a] \in Task
    BY <1>1 DEF Crash
  <2>2. queued' \subseteq Task /\ crashes' \in 0..MaxTroubles
    BY <1>1, <2>1 DEF Crash
  <2> QED
    BY <1>1, <2>2 DEF Crash, Actor
<1>2. ASSUME NEW j \in Job, GoSilent(j)
      PROVE  TypeInv'
  BY <1>2 DEF GoSilent
<1>3. CASE Elapse \/ MarkExpires \/ Trigger \/ Admin \/ UNCHANGED vars
  BY <1>3 DEF Elapse, MarkExpires, Trigger, Admin, vars
<1> QED
  BY <1>1, <1>2, <1>3

LEMMA TypeInit == Init => TypeInv
<1> SUFFICES ASSUME Init
             PROVE  TypeInv
  OBVIOUS
<1>1. pc \in [Actor -> Labels] /\ \A p \in Process : pc[p] = "idle"
  BY DEF Init, Actor, Labels
<1>2. crashes \in 0..MaxTroubles /\ faults \in 0..MaxTroubles
  BY BoundAssumption DEF Init
<1>3. open \in BOOLEAN /\ due \in BOOLEAN /\ mark \in BOOLEAN
  BY DEF Init
<1> QED
  BY <1>1, <1>2, <1>3 DEF Init, TypeInv, TypeOK, InTask

LEMMA TypeStep == TypeInv /\ [Next]_vars => TypeInv'
  BY TypePass, TypeWork, TypeAround DEF Next

\* The source's row, its tasks and its jobs keep their types, and a silent row is a running one.
THEOREM TypeCorrect == Spec => []TypeOK
<1>1. TypeInv => TypeOK
  BY DEF TypeInv
<1> QED
  BY <1>1, TypeInit, TypeStep, PTL DEF Spec

(***************************************************************************)
(* One job at a time.  A worker at work owns the only running row, and     *)
(* that row is heard of: so nobody may start another job beside it.        *)
(***************************************************************************)
RowsInv ==
  /\ OnActors(pc) /\ OnProcesses(job)
  /\ \A p \in Process : At(p, "work") =>
       /\ running = {job[p]} /\ job[p] \notin silent
       /\ \A q \in Process \ {p} : ~At(q, "work")

LEMMA RowsPass ==
  ASSUME NEW d \in Pass, RowsInv, PassStep(d)
  PROVE  RowsInv'
<1> USE DEF RowsInv, OnActors, OnProcesses, At, Goto, Actor
<1>0. \A p \in Process : p # d
  BY ActorAssumption
<1>1. CASE BeginPass(d) \/ ReadRows(d) \/ Send(d)
  BY <1>0, <1>1 DEF BeginPass, ReadRows, Send, rows
<1>2. CASE Decide(d)
  <2>1. (running' = Active /\ silent' = {}) \/ UNCHANGED rows
    BY <1>2 DEF Decide
  <2>2. UNCHANGED job /\ OnActors(pc)' /\ \A p \in Process : pc'[p] = pc[p]
    BY <1>0, <1>2 DEF Decide
  <2> QED
    BY <2>1, <2>2 DEF Active, rows
<1>3. CASE CommitPass(d)
  BY <1>0, <1>3 DEF CommitPass, Active
<1> QED
  BY <1>1, <1>2, <1>3 DEF PassStep

LEMMA RowsWork ==
  ASSUME NEW p \in Process, RowsInv, WorkStep(p) \/ Redeliver(p) \/ Touch(p)
  PROVE  RowsInv'
<1> USE DEF RowsInv, OnActors, OnProcesses, At, Goto, Actor
<1>1. CASE Take(p) \/ LockSource(p) \/ Redeliver(p)
  BY <1>1 DEF Take, LockSource, Redeliver, Done, rows
<1>4. CASE Touch(p)
  BY <1>4 DEF Touch
<1>2. CASE StartJob(p)
  <2>1. CASE MayStart
    <3>1. \A q \in Process : pc[q] # "work"
      BY <2>1 DEF MayStart, Active
    <3>2. PICK j \in Job : /\ running' = {j} /\ job' = [job EXCEPT ![p] = j]
                           /\ silent' = {} /\ pc' = [pc EXCEPT ![p] = "work"]
      BY <1>2, <2>1 DEF StartJob, MayStart
    <3> QED
      BY <3>1, <3>2
  <2>2. CASE ~MayStart
    <3>1. /\ pc[p] = "starting" /\ pc' = [pc EXCEPT ![p] = "idle"] /\ UNCHANGED job
          /\ (running' = Active /\ silent' = {}) \/ UNCHANGED rows
      BY <1>2, <2>2 DEF StartJob, Done
    <3> QED
      BY <3>1 DEF Active, rows
  <2> QED
    BY <2>1, <2>2
<1>3. CASE FinishJob(p)
  BY <1>3 DEF FinishJob, Done
<1> QED
  BY <1>1, <1>2, <1>3, <1>4 DEF WorkStep

LEMMA RowsAround ==
  ASSUME ~SlowItems, RowsInv,
         \/ \E a \in Actor : Crash(a)
         \/ \E j \in Job : GoSilent(j)
         \/ Elapse \/ MarkExpires \/ Trigger \/ Admin
         \/ UNCHANGED vars
  PROVE  RowsInv'
<1> USE DEF RowsInv, OnActors, OnProcesses, At, Goto, Actor
<1>1. ASSUME NEW a \in Actor, Crash(a)
      PROVE  RowsInv'
  BY <1>1 DEF Crash, rows
<1>2. ASSUME NEW j \in Job, GoSilent(j)
      PROVE  RowsInv'
  BY <1>2 DEF GoSilent, Worked
<1>3. CASE Elapse \/ MarkExpires \/ Trigger \/ Admin \/ UNCHANGED vars
  BY <1>3 DEF Elapse, MarkExpires, Trigger, Admin, vars, rows
<1> QED
  BY <1>1, <1>2, <1>3

\* As long as no item keeps a live worker silent for 30 minutes, a public source has one job
\* running at a time and its row is the only one with status running, whatever overlaps, is
\* delivered twice, is triggered by hand or dies.
THEOREM OneJobAtATime ==
  ASSUME ~SlowItems
  PROVE  Spec => []OneJob
<1>1. Init => RowsInv
  BY DEF Init, RowsInv, OnActors, OnProcesses, At, Actor
<1>2. RowsInv /\ [Next]_vars => RowsInv'
  BY RowsPass, RowsWork, RowsAround DEF Next
<1>3. RowsInv => OneJob
  BY DEF RowsInv, OneJob
<1> QED
  BY <1>1, <1>2, <1>3, PTL DEF Spec

(***************************************************************************)
(* No duplicate run.  From the second look until the job row is committed  *)
(* the worker holds the source row, and nothing that can make its task a   *)
(* duplicate happens without that row.                                     *)
(***************************************************************************)
Holding == {"locked", "send", "commit", "starting"}

LookInv ==
  /\ OnActors(pc) /\ OnProcesses(task)
  /\ \A a \in Actor : pc[a] \in Holding => rowLock = a
  /\ \A p \in Process : At(p, "starting") => ~Superseded(task[p])

LEMMA LookPass ==
  ASSUME NEW d \in Pass, LookInv, PassStep(d)
  PROVE  LookInv'
<1> USE DEF LookInv, OnActors, OnProcesses, At, Goto, Actor, Holding
<1>0. (\A p \in Process : p # d) /\ d # None
  BY ActorAssumption, NobodyAssumption DEF Actor
<1>1. CASE BeginPass(d)
  BY <1>0, <1>1 DEF BeginPass, queue, Superseded
<1>2. CASE ReadRows(d)
  BY <1>0, <1>2, NobodyAssumption DEF ReadRows, queue, Superseded
<1>3. CASE Decide(d)
  BY <1>0, <1>3 DEF Decide, queue, Superseded
<1>4. CASE Send(d)
  <2>1. /\ pc[d] = "send" /\ pc' = [pc EXCEPT ![d] = "commit"] /\ UNCHANGED <<rowLock, task>>
    BY <1>4 DEF Send
  <2>2. \A p \in Process : pc[p] # "starting"
    BY <1>0, <2>1
  <2> QED
    BY <1>0, <2>1, <2>2
<1>5. CASE CommitPass(d)
  BY <1>0, <1>5 DEF CommitPass, queue, Superseded
<1> QED
  BY <1>1, <1>2, <1>3, <1>4, <1>5 DEF PassStep

LEMMA LookWork ==
  ASSUME NEW p \in Process, LookInv, WorkStep(p) \/ Redeliver(p) \/ Touch(p)
  PROVE  LookInv'
<1> USE DEF LookInv, OnActors, OnProcesses, At, Goto, Actor, Holding
<1>1. CASE Take(p)
  BY <1>1 DEF Take, Superseded
<1>2. CASE LockSource(p)
  BY <1>2, NobodyAssumption DEF LockSource, Done, queue, Superseded
<1>3. CASE StartJob(p)
  <2>1. rowLock = p /\ \A a \in Actor \ {p} : pc[a] \notin Holding
    BY <1>3 DEF StartJob
  <2>2. /\ pc' = [pc EXCEPT ![p] = "work"] \/ pc' = [pc EXCEPT ![p] = "idle"]
        /\ UNCHANGED task \/ task' = [task EXCEPT ![p] = None]
    BY <1>3 DEF StartJob, Done
  <2> QED
    BY <2>1, <2>2
<1>4. CASE FinishJob(p)
  BY <1>4 DEF FinishJob, Done, queue, Superseded
<1>5. CASE Redeliver(p)
  BY <1>5 DEF Redeliver, Superseded
<1>6. CASE Touch(p)
  BY <1>6 DEF Touch, queue, Superseded
<1> QED
  BY <1>1, <1>2, <1>3, <1>4, <1>5, <1>6 DEF WorkStep

LEMMA LookAround ==
  ASSUME LookInv,
         \/ \E a \in Actor : Crash(a)
         \/ \E j \in Job : GoSilent(j)
         \/ Elapse \/ MarkExpires \/ Trigger \/ Admin
         \/ UNCHANGED vars
  PROVE  LookInv'
<1> USE DEF LookInv, OnActors, OnProcesses, At, Goto, Actor, Holding
<1>1. ASSUME NEW a \in Actor, Crash(a)
      PROVE  LookInv'
  BY <1>1, NobodyAssumption DEF Crash, Superseded
<1>2. CASE Trigger
  BY <1>2 DEF Trigger, Live, Held, Superseded
<1>3. CASE (\E j \in Job : GoSilent(j)) \/ Elapse \/ MarkExpires \/ Admin
  BY <1>3 DEF GoSilent, Elapse, MarkExpires, Admin, queue, Superseded
<1>4. CASE UNCHANGED vars
  BY <1>4 DEF vars, queue, Superseded
<1> QED
  BY <1>1, <1>2, <1>3, <1>4

\* A queued task is never run when a job of its source has started since it was queued, though
\* it is delivered twice, or taken beside another at the same moment, or its worker dies.
THEOREM NoDuplicateIsRun == Spec => NoDuplicateRun
<1>1. Init => LookInv
  BY DEF Init, LookInv, OnActors, OnProcesses, At, Actor, Holding
<1>2. LookInv /\ [Next]_vars => LookInv'
  BY LookPass, LookWork, LookAround DEF Next
<1>3. LookInv => (\A p \in Process : At(p, "starting") => ~Superseded(task[p]))
  BY DEF LookInv
<1>4. LookInv /\ [Next]_vars =>
        [\A p \in Process : At(p, "starting") /\ pc'[p] = "work" => ~Superseded(task[p])]_vars
  BY <1>3
<1> QED
  BY <1>1, <1>2, <1>4, PTL DEF Spec, NoDuplicateRun

(***************************************************************************)
(* What waits, counted.  The mark, or the worker that has just cleared it  *)
(* and holds the source row, stands for one task that waits or that a pass *)
(* is about to queue.  Every further one has cost a death or a Redis       *)
(* error.  A task that waits is in one place, so that dropping it is       *)
(* dropping one.                                                           *)
(***************************************************************************)
Calm == ~Manual /\ ~Stalls

Sending == IF \E d \in Pass : At(d, "send") THEN 1 ELSE 0
Marked  == IF mark \/ \E p \in Process : At(p, "starting") THEN 1 ELSE 0

CountInv ==
  /\ IsFiniteSet(Waiting)
  /\ crashes \in Nat /\ faults \in Nat
  /\ Cardinality(Waiting) + Sending <= Marked + crashes + faults

PlaceInv ==
  /\ manual = {}
  /\ \A p \in Process : task[p] \in fresh =>
       /\ task[p] \notin queued /\ ~At(p, "work")
       /\ \A q \in Process \ {p} : task[q] # task[p]

LEMMA PlaceStep ==
  ASSUME TypeInv, LookInv, PlaceInv, [Next]_vars, Calm
  PROVE  PlaceInv'
<1> USE DEF PlaceInv, LookInv, OnActors, OnProcesses, At, Goto, Actor
<1>0. fresh \subseteq Task /\ None \notin Task
  BY NobodyAssumption DEF TypeInv, TypeOK
<1>1. ASSUME NEW d \in Pass, PassStep(d)
      PROVE  PlaceInv'
  <2>0. \A p \in Process : p # d
    BY ActorAssumption
  <2>1. CASE BeginPass(d) \/ ReadRows(d) \/ CommitPass(d)
    BY <2>0, <2>1 DEF BeginPass, ReadRows, CommitPass, queue
  <2>2. CASE Decide(d)
    BY <2>0, <2>2 DEF Decide, queue
  <2>3. CASE Send(d)
    BY <2>0, <2>3 DEF Send, Live, Held
  <2> QED
    BY <1>1, <2>1, <2>2, <2>3 DEF PassStep
<1>2. ASSUME NEW p \in Process, WorkStep(p) \/ Redeliver(p) \/ Touch(p)
      PROVE  PlaceInv'
  <2>1. CASE Take(p)
    BY <1>0, <2>1 DEF Take
  <2>2. CASE LockSource(p) \/ FinishJob(p)
    <3>1. /\ UNCHANGED <<queued, fresh, manual>>
          /\ \/ UNCHANGED task /\ pc' = [pc EXCEPT ![p] = "starting"]
             \/ task' = [task EXCEPT ![p] = None] /\ pc' = [pc EXCEPT ![p] = "idle"]
      BY <2>2 DEF LockSource, FinishJob, Done, queue
    <3> QED
      BY <1>0, <3>1
  <2>3. CASE StartJob(p)
    <3>1. CASE fresh' = {} /\ UNCHANGED manual
      BY <3>1
    <3>2. CASE UNCHANGED <<queued, fresh, manual>> /\ Done(p)
      BY <1>0, <3>2 DEF Done
    <3> QED
      BY <2>3, <3>1, <3>2 DEF StartJob
  <2>4. CASE Redeliver(p)
    BY <2>4 DEF Redeliver
  <2>5. CASE Touch(p)
    BY <2>5 DEF Touch, queue
  <2> QED
    BY <1>2, <2>1, <2>2, <2>3, <2>4, <2>5 DEF WorkStep
<1>3. ASSUME NEW a \in Actor, Crash(a)
      PROVE  PlaceInv'
  BY <1>0, <1>3 DEF Crash
<1>4. ~Trigger
  BY DEF Trigger, Calm
<1>5. CASE (\E j \in Job : GoSilent(j)) \/ Elapse \/ MarkExpires \/ Admin
  BY <1>5 DEF GoSilent, Elapse, MarkExpires, Admin, queue
<1>6. CASE UNCHANGED vars
  BY <1>6 DEF vars, queue
<1> QED
  BY <1>1, <1>2, <1>3, <1>4, <1>5, <1>6 DEF Next

LEMMA Pays ==
  ASSUME NEW W, NEW V, NEW s \in Nat, NEW s2 \in Nat, NEW m \in Nat, NEW m2 \in Nat,
         NEW c \in Nat, NEW c2 \in Nat, NEW f \in Nat, NEW f2 \in Nat,
         IsFiniteSet(W), V \subseteq W,
         Cardinality(W) + s <= m + c + f, s2 + m + c + f <= s + m2 + c2 + f2
  PROVE  IsFiniteSet(V) /\ Cardinality(V) + s2 <= m2 + c2 + f2
<1>1. /\ IsFiniteSet(V) /\ Cardinality(V) \in Nat /\ Cardinality(W) \in Nat
      /\ Cardinality(V) <= Cardinality(W)
  BY FS_Subset, FS_CardinalityType
<1> QED
  BY <1>1

\* A step after which no more tasks wait keeps the count, when it pays for what it changes.
LEMMA NoMoreWait ==
  ASSUME CountInv, Waiting' \subseteq Waiting, crashes' \in Nat, faults' \in Nat,
         NEW s \in Nat, NEW s2 \in Nat, NEW m \in Nat, NEW m2 \in Nat,
         Sending = s, Sending' = s2, Marked = m, Marked' = m2,
         s2 + m + crashes + faults <= s + m2 + crashes' + faults'
  PROVE  CountInv'
<1>1. /\ IsFiniteSet(Waiting) /\ crashes \in Nat /\ faults \in Nat
      /\ Cardinality(Waiting) + s <= m + crashes + faults
  BY DEF CountInv
<1>2. IsFiniteSet(Waiting') /\ Cardinality(Waiting') + s2 <= m2 + crashes' + faults'
  BY <1>1, Pays
<1> QED
  BY <1>2 DEF CountInv

LEMMA CountPass ==
  ASSUME NEW d \in Pass, PassStep(d), LookInv, PlaceInv, CountInv, crashes' \in Nat, faults' \in Nat
  PROVE  CountInv'
<1> USE DEF LookInv, OnActors, OnProcesses, At, Goto, Actor, Holding
<1>0. \A p \in Process : p # d
  BY ActorAssumption
<1>1. CASE BeginPass(d) \/ ReadRows(d) \/ CommitPass(d)
  <2>1. /\ UNCHANGED <<manual, crashes, faults, mark, task, queued, fresh>>
        /\ pc'[d] # "send" /\ \A a \in Actor \ {d} : pc'[a] = pc[a]
    BY <1>1 DEF BeginPass, ReadRows, CommitPass, queue, source
  <2>2. Waiting' = Waiting
    BY <2>1 DEF Waiting, Live, Held
  <2>3. Sending' <= Sending /\ Marked' = Marked
    BY <1>0, <2>1 DEF Sending, Marked
  <2>4. Sending \in Nat /\ Sending' \in Nat /\ Marked \in Nat
    BY DEF Sending, Marked
  <2>5. Sending' + Marked + crashes + faults <= Sending + Marked' + crashes' + faults'
    BY <2>1, <2>3, <2>4
  <2> QED
    BY <2>2, <2>3, <2>4, <2>5, NoMoreWait
<1>2. CASE Decide(d)
  <2>1. /\ pc[d] = "locked" /\ UNCHANGED <<manual, task, queued, fresh, crashes>>
        /\ \A a \in Actor \ {d} : pc'[a] = pc[a] /\ pc[a] \notin Holding
    BY <1>2 DEF Decide, queue
  <2>2. Waiting' = Waiting
    BY <2>1 DEF Waiting, Live, Held
  <2>3. Sending = 0 /\ Marked = (IF mark THEN 1 ELSE 0) /\ Marked' = (IF mark' THEN 1 ELSE 0)
    BY <1>0, <2>1 DEF Sending, Marked
  <2>4. \/ mark' = mark /\ pc'[d] # "send" /\ faults' = faults
        \/ ~mark /\ mark' /\ faults' = faults
        \/ (mark => mark') /\ faults' = faults + 1
    BY <1>2 DEF Decide, RedisFails
  <2>5. Sending' \in {0, 1} /\ (pc'[d] # "send" => Sending' = 0)
    BY <2>1 DEF Sending
  <2>6. Sending' + Marked + faults <= Marked' + faults'
    BY <2>3, <2>4, <2>5 DEF CountInv
  <2> QED
    BY <2>1, <2>2, <2>3, <2>5, <2>6, NoMoreWait DEF CountInv
<1>3. CASE Send(d)
  <2>1. /\ pc[d] = "send" /\ UNCHANGED <<mark, task, crashes, faults>>
        /\ pc' = [pc EXCEPT ![d] = "commit"]
        /\ \A a \in Actor \ {d} : pc[a] \notin Holding
    BY <1>3 DEF Send, source
  <2>2. PICK t \in Task : /\ queued' = queued \cup {t} /\ manual' = manual \ {t}
                          /\ fresh' = fresh \cup {t} \/ fresh' = fresh \ {t}
    BY <1>3 DEF Send
  <2>3. Waiting' \subseteq Waiting \cup {t}
    BY <2>1, <2>2 DEF Waiting, Live, Held, PlaceInv
  <2>4. Sending = 1 /\ Sending' = 0 /\ Marked' = Marked /\ Marked \in {0, 1}
    BY <1>0, <2>1 DEF Sending, Marked
  <2>5. /\ IsFiniteSet(Waiting \cup {t}) /\ Cardinality(Waiting) \in Nat
        /\ Cardinality(Waiting \cup {t}) <= Cardinality(Waiting) + 1
        /\ Cardinality(Waiting \cup {t}) \in Nat
    <3> HIDE DEF Waiting
    <3>1. /\ IsFiniteSet(Waiting \cup {t})
          /\ Cardinality(Waiting \cup {t}) =
               IF t \in Waiting THEN Cardinality(Waiting) ELSE Cardinality(Waiting) + 1
      BY FS_AddElement DEF CountInv
    <3>2. Cardinality(Waiting) \in Nat
      BY FS_CardinalityType DEF CountInv
    <3> QED
      BY <3>1, <3>2
  <2>6. /\ IsFiniteSet(Waiting') /\ Cardinality(Waiting') \in Nat
        /\ Cardinality(Waiting') <= Cardinality(Waiting \cup {t})
    BY <2>3, <2>5, FS_Subset, FS_CardinalityType
  <2> HIDE DEF Sending, Marked, Waiting
  <2> QED
    BY <2>1, <2>4, <2>5, <2>6 DEF CountInv
<1> QED
  BY <1>1, <1>2, <1>3 DEF PassStep

LEMMA CountWork ==
  ASSUME NEW p \in Process, WorkStep(p) \/ Redeliver(p) \/ Touch(p),
         TypeInv, LookInv, PlaceInv, CountInv, crashes' \in Nat, faults' \in Nat
  PROVE  CountInv'
<1> USE DEF LookInv, OnActors, OnProcesses, At, Goto, Actor, Holding
<1>0. (\A d \in Pass : d # p) /\ fresh \subseteq Task /\ None \notin Task
  BY ActorAssumption, NobodyAssumption DEF TypeInv, TypeOK
<1>1. CASE Take(p) \/ FinishJob(p) \/ Redeliver(p) \/ Touch(p)
  <2>1. /\ UNCHANGED <<mark, manual, fresh, crashes, faults>>
        /\ pc'[p] = pc[p] \/ (pc[p] # "starting" /\ pc'[p] # "starting")
        /\ \A a \in Actor \ {p} : pc'[a] = pc[a]
    <3>1. CASE Take(p)
      BY <3>1 DEF Take, source
    <3>2. CASE FinishJob(p)
      BY <3>2 DEF FinishJob, Done, queue
    <3>3. CASE Redeliver(p)
      BY <3>3 DEF Redeliver, source
    <3>4. CASE Touch(p)
      BY <3>4 DEF Touch, source, queue
    <3> QED
      BY <1>1, <3>1, <3>2, <3>3, <3>4
  <2>2. Waiting' \subseteq Waiting
    BY <1>0, <1>1 DEF Take, FinishJob, Redeliver, Touch, Done, queue, Waiting, Live, Held
  <2>3. Sending' = Sending /\ Marked' = Marked
    BY <1>0, <2>1 DEF Sending, Marked
  <2> QED
    BY <2>1, <2>2, <2>3, NoMoreWait DEF CountInv, Sending, Marked
<1>2. CASE LockSource(p)
  <2>1. pc[p] = "start" /\ UNCHANGED <<manual, fresh, queued, crashes>>
    BY <1>2 DEF LockSource, queue
  <2>2. Waiting' \subseteq Waiting
    BY <1>0, <1>2 DEF LockSource, Done, queue, Waiting, Live, Held
  <2>3. Sending' = Sending
    BY <1>0, <1>2 DEF LockSource, Done, Sending
  <2>4. \/ Marked' = Marked /\ faults' = faults
        \/ Marked' = 1 /\ faults' \in {faults, faults + 1}
    BY <1>2 DEF LockSource, Done, Marked, RedisFails
  <2>5. Marked \in {0, 1} /\ Sending \in {0, 1}
    BY DEF Marked, Sending
  <2>6. Marked' \in {0, 1} /\ Sending' \in {0, 1}
    BY DEF Marked, Sending
  <2>7. Sending' + Marked + crashes + faults <= Sending + Marked' + crashes' + faults'
    BY <2>1, <2>3, <2>4, <2>5, <2>6 DEF CountInv
  <2> QED
    BY <2>2, <2>5, <2>6, <2>7, NoMoreWait
<1>3. CASE StartJob(p)
  <2>1. /\ pc[p] = "starting" /\ UNCHANGED <<mark, crashes, faults>>
        /\ \A a \in Actor \ {p} : pc'[a] = pc[a] /\ pc[a] \notin Holding
        /\ pc'[p] \notin Holding
    BY <1>3 DEF StartJob, Done, source
  <2>2. Sending = 0 /\ Sending' = 0 /\ Marked = 1 /\ Marked' \in {0, 1}
    BY <1>0, <2>1 DEF Sending, Marked
  <2>3. CASE fresh' = {}
    <3>1. Waiting' = {}
      BY <2>3 DEF Waiting
    <3>2. IsFiniteSet(Waiting') /\ Cardinality(Waiting') = 0
      BY <3>1, FS_EmptySet
    <3> HIDE DEF Sending, Marked, Waiting
    <3> QED
      BY <2>1, <2>2, <3>2 DEF CountInv
  <2>4. CASE fresh' = fresh /\ Done(p) /\ UNCHANGED <<queued, manual>>
    <3> DEFINE t == task[p]
    <3>1. t \in Waiting
      BY <1>0, <2>1 DEF Superseded, Waiting, Live, Held, PlaceInv
    <3>2. Waiting' \subseteq Waiting \ {t}
      BY <1>0, <2>4, <3>1 DEF Done, Waiting, Live, Held, PlaceInv
    <3> HIDE DEF Waiting, Sending, Marked, t
    <3>3. /\ IsFiniteSet(Waiting \ {t}) /\ Cardinality(Waiting) \in Nat
          /\ Cardinality(Waiting \ {t}) = Cardinality(Waiting) - 1
      BY <3>1, FS_RemoveElement, FS_CardinalityType DEF CountInv
    <3>4. /\ IsFiniteSet(Waiting') /\ Cardinality(Waiting') \in Nat
          /\ Cardinality(Waiting') <= Cardinality(Waiting \ {t})
      BY <3>2, <3>3, FS_Subset, FS_CardinalityType
    <3> QED
      BY <2>1, <2>2, <3>3, <3>4 DEF CountInv
  <2> QED
    BY <1>3, <2>3, <2>4 DEF StartJob
<1> QED
  BY <1>1, <1>2, <1>3 DEF WorkStep

LEMMA CountAround ==
  ASSUME Calm, TypeInv, LookInv, PlaceInv, CountInv, crashes' \in Nat, faults' \in Nat,
         \/ \E a \in Actor : Crash(a)
         \/ \E j \in Job : GoSilent(j)
         \/ Elapse \/ MarkExpires \/ Trigger \/ Admin
         \/ UNCHANGED vars
  PROVE  CountInv'
<1>1. ASSUME NEW a \in Actor, Crash(a)
      PROVE  CountInv'
  <2> USE DEF LookInv, OnActors, OnProcesses, At, Goto
  <2>1. crashes' = crashes + 1 /\ UNCHANGED <<mark, faults>>
    BY <1>1 DEF Crash, source
  <2>2. fresh \subseteq Task /\ None \notin Task
    BY NobodyAssumption DEF TypeInv, TypeOK
  <2>3. Waiting' \subseteq Waiting
    BY <1>1, <2>2 DEF Crash, Waiting, Live, Held
  <2>4. \A b \in Actor : pc'[b] \in {pc[b], "idle"}
    BY <1>1 DEF Crash
  <2>5. Sending' <= Sending /\ Sending \in {0, 1} /\ Sending' \in {0, 1}
    BY <2>4 DEF Sending, Actor
  <2>6. Marked \in {0, 1} /\ Marked' \in {0, 1}
    BY DEF Marked
  <2>7. Sending' + Marked + crashes + faults <= Sending + Marked' + crashes' + faults'
    BY <2>1, <2>5, <2>6 DEF CountInv
  <2> QED
    BY <2>3, <2>5, <2>6, <2>7, NoMoreWait
<1>2. CASE MarkExpires
  <2>1. Waiting = {} /\ Waiting' = {} /\ Sending' = 0 /\ UNCHANGED <<crashes, faults>>
    BY <1>2 DEF MarkExpires, Calm, Waiting, Live, Held, Sending, At, queue
  <2>2. IsFiniteSet(Waiting') /\ Cardinality(Waiting') = 0
    BY <2>1, FS_EmptySet
  <2>3. Marked' \in {0, 1}
    BY DEF Marked
  <2> HIDE DEF Waiting, Sending, Marked
  <2> QED
    BY <2>1, <2>2, <2>3 DEF CountInv
<1>3. CASE (\E j \in Job : GoSilent(j)) \/ Elapse \/ Admin \/ UNCHANGED vars
  <2>1. UNCHANGED <<mark, queued, manual, fresh, task, pc, crashes, faults>>
    BY <1>3 DEF GoSilent, Elapse, Admin, vars, source, queue
  <2>2. UNCHANGED <<Waiting, Sending, Marked>>
    BY <2>1 DEF Waiting, Live, Held, Sending, Marked, At
  <2> QED
    BY <2>1, <2>2 DEF CountInv
<1>4. ~Trigger
  BY DEF Trigger, Calm
<1> QED
  BY <1>1, <1>2, <1>3, <1>4

\* Without triggers by hand and without a queue that stalls for longer than the mark lasts, the
\* tasks of a source that wait to be started are never more than one and the deaths and Redis
\* errors there have been, however many passes and workers overlap.
THEOREM FewTasksWait ==
  ASSUME Calm
  PROVE  Spec => []OneFresh
<1> DEFINE Inv == TypeInv /\ LookInv /\ PlaceInv /\ CountInv
<1>1. Init => Inv
  <2> SUFFICES ASSUME Init
               PROVE  Inv
    OBVIOUS
  <2>1. TypeInv
    BY TypeInit
  <2>2. LookInv /\ PlaceInv
    BY <2>1 DEF Init, LookInv, PlaceInv, OnActors, OnProcesses, At, Actor, Holding
  <2>3. Waiting = {} /\ Sending = 0 /\ Marked = 0
    BY DEF Init, Waiting, Sending, Marked, At, Actor
  <2>4. IsFiniteSet(Waiting) /\ Cardinality(Waiting) = 0
    BY <2>3, FS_EmptySet
  <2>5. CountInv
    BY <2>3, <2>4 DEF CountInv, Init
  <2> QED
    BY <2>1, <2>2, <2>5
<1>2. Inv /\ [Next]_vars => Inv'
  <2> SUFFICES ASSUME Inv, [Next]_vars
               PROVE  Inv'
    OBVIOUS
  <2>1. TypeInv'
    BY TypeStep
  <2>2. LookInv'
    BY LookPass, LookWork, LookAround DEF Next
  <2>3. PlaceInv'
    BY PlaceStep
  <2>4. crashes' \in Nat /\ faults' \in Nat
    BY <2>1, BoundAssumption DEF TypeInv, TypeOK
  <2>5. CountInv'
    BY <2>4, CountPass, CountWork, CountAround DEF Next
  <2> QED
    BY <2>1, <2>2, <2>3, <2>5
<1>3. Inv => OneFresh
  <2> SUFFICES ASSUME CountInv
               PROVE  OneFresh
    OBVIOUS
  <2>1. Cardinality(Waiting) \in Nat /\ Sending \in {0, 1} /\ Marked \in {0, 1}
    BY FS_CardinalityType DEF CountInv, Sending, Marked
  <2> QED
    BY <2>1 DEF CountInv, OneFresh
<1> QED
  BY <1>1, <1>2, <1>3, PTL DEF Spec
================================================================================
