-------------------------- MODULE LoginBrowsersProofs --------------------------
(* Machine-checked proofs about LoginBrowsers, for any cast of workers and any slots. *)
EXTENDS LoginBrowsers, TLAPS

(***************************************************************************)
(* The places of a worker that has no browser open.                        *)
(***************************************************************************)
OnWorkers(f) == f = [w \in Worker |-> f[w]]

WithoutBrowser == {"idle", "base", "unlock", "unbase", "commit", "scan", "recover", "next"}

BrowserInv ==
  /\ OnWorkers(pc) /\ OnWorkers(browser)
  /\ \A w \in Worker : pc[w] \in WithoutBrowser => browser[w] = None

LEMMA BrowserStep ==
  ASSUME NEW w \in Worker, BrowserInv, Job(w) \/ Pass(w)
  PROVE  BrowserInv'
<1> USE DEF BrowserInv, OnWorkers, WithoutBrowser, Goto, At
<1>1. CASE StartJob(w) \/ LockBase(w) \/ LockSlot(w)
  BY <1>1 DEF StartJob, LockBase, LockSlot
<1>2. CASE Choose(w)
  BY <1>2 DEF Choose, OpenOn
<1>3. CASE Open(w)
  BY <1>3 DEF Open, OpenOn
<1>4. CASE MapLoaded(w) \/ Finish(w) \/ Yield(w)
  BY <1>4 DEF MapLoaded, Finish, Yield
<1>5. CASE Alternate(w)
  BY <1>5 DEF Alternate, OpenOn
<1>6. CASE MapLost(w) \/ Disconnect(w) \/ Recycle(w)
  BY <1>6 DEF MapLost, Disconnect, Recycle, CloseOf
<1>7. CASE Charge(w)
  BY <1>7 DEF Charge
<1>8. CASE LoginLost(w)
  BY <1>8 DEF LoginLost, CloseOf
<1>9. CASE SignInHere(w) \/ Reopen(w)
  BY <1>9 DEF SignInHere, Reopen, OpenOn
<1>10. CASE SignedInHere(w) \/ CloseBrowser(w) \/ EndJob(w)
  BY <1>10 DEF SignedInHere, CloseBrowser, EndJob, CloseOf
<1>15. CASE UnlockSlot(w) \/ UnlockBase(w)
  BY <1>15 DEF UnlockSlot, UnlockBase, Raise
<1>11. CASE StartPass(w) \/ NextSlot(w) \/ EndPass(w)
  BY <1>11 DEF StartPass, NextSlot, EndPass
<1>12. CASE Visit(w)
  BY <1>12 DEF Visit, OpenOn
<1>13. CASE EndProbe(w)
  BY <1>13 DEF EndProbe, CloseOf, Raise
<1>14. CASE StartRecover(w)
  BY <1>14 DEF StartRecover, OpenOn
<1>16. CASE EndRecover(w)
  BY <1>16 DEF EndRecover, CloseOf, Raise
<1> QED
  BY <1>1, <1>2, <1>3, <1>4, <1>5, <1>6, <1>7, <1>8, <1>9, <1>10, <1>11, <1>12, <1>13, <1>14, <1>15, <1>16
  DEF Job, Pass

LEMMA BrowserBoot ==
  ASSUME BrowserInv, Boot \/ Expire \/ (\E s \in Slot : HumanLogin(s))
  PROVE  BrowserInv'
BY DEF BrowserInv, OnWorkers, Boot, Expire, HumanLogin, LoginQueue

(***************************************************************************)
(* Types.  A worker that holds a place of Aiming works on a slot, so that  *)
(* what it writes and opens is a slot's.                                   *)
(***************************************************************************)
\* A worker that holds or asks for a slot lock, or is about to, works on a slot.
Aiming == {"slotlock", "open", "map", "work", "reopen", "signin", "probe", "recover", "recovering"}

Typed == TypeOK /\ \A w \in Worker : pc[w] \in Aiming => target[w] \in Slot

\* What a step commits, marks and drops.
LEMMA CommitType ==
  ASSUME Typed, NEW w \in Worker
  PROVE  /\ Nothing \in [Slot -> States \cup {None}]
         /\ Committed(w) \in [Slot -> States]
         /\ CommitOf(w) => state' \in [Slot -> States] /\ pending' \in [Worker -> [Slot -> States \cup {None}]]
<1>1. Nothing \in [Slot -> States \cup {None}]
  BY DEF Nothing
<1>2. Committed(w) \in [Slot -> States]
  BY DEF Typed, TypeOK, Committed
<1> QED
  BY <1>1, <1>2 DEF CommitOf, Typed, TypeOK

LEMMA DropType ==
  ASSUME Typed, NEW w \in Worker, DropSlots(w)
  PROVE  slotLock' \in [Slot -> Worker \cup {None, Left}]
BY DEF Typed, TypeOK, DropSlots

\* What a release that fails leaves behind, and how the exception ends the job or the pass.
LEMMA LeaveType ==
  ASSUME Typed, NEW w \in Worker
  PROVE  /\ LeaveSlots(w) => slotLock' \in [Slot -> Worker \cup {None, Left}]
         /\ LeaveBase(w) => /\ base' \in [Worker -> {"none", "shared", "exclusive"}]
                            /\ leftBase' \in [{"shared", "exclusive"} -> Nat]
BY DEF Typed, TypeOK, LeaveSlots, LeaveBase

LEMMA RaiseType ==
  ASSUME Typed, NEW w \in Worker, Raise(w)
  PROVE  /\ pc' \in [Worker -> Labels] /\ pending' \in [Worker -> [Slot -> States \cup {None}]]
         /\ state' = state /\ target' \in [Worker -> Slot \cup {None}]
         /\ retried' \in [Worker -> BOOLEAN] /\ saw' \in [Worker -> SUBSET Slot]
         /\ todo' \in [Worker -> SUBSET Slot]
         /\ \A v \in Worker : pc'[v] \in Aiming => target'[v] \in Slot
BY CommitType DEF Typed, TypeOK, Raise, Goto, Labels, Aiming

LEMMA WriteType ==
  ASSUME Typed, NEW w \in Worker, NEW s \in Slot, NEW v \in States, Write(w, s, v)
  PROVE  pending' \in [Worker -> [Slot -> States \cup {None}]]
BY DEF Typed, TypeOK, Write

LEMMA OpenType ==
  ASSUME Typed, NEW w \in Worker, NEW s \in Slot, OpenOn(w, s)
  PROVE  /\ browser' \in [Worker -> Slot \cup {None}] /\ target' \in [Worker -> Slot \cup {None}]
         /\ target'[w] = s /\ \A v \in Worker \ {w} : target'[v] = target[v]
BY DEF Typed, TypeOK, OpenOn

LEMMA GotoType ==
  ASSUME Typed, NEW w \in Worker, NEW l \in Labels, Goto(w, l),
         target' \in [Worker -> Slot \cup {None}], \A v \in Worker \ {w} : target'[v] = target[v],
         l \in Aiming => target'[w] \in Slot
  PROVE  pc' \in [Worker -> Labels] /\ \A v \in Worker : pc'[v] \in Aiming => target'[v] \in Slot
BY DEF Typed, TypeOK, Goto

\* A step that opens a browser on a slot and goes on, and one that keeps its target.
LEMMA OpenGotoType ==
  ASSUME Typed, NEW w \in Worker, NEW s \in Slot, NEW l \in Labels, OpenOn(w, s), Goto(w, l)
  PROVE  /\ browser' \in [Worker -> Slot \cup {None}] /\ target' \in [Worker -> Slot \cup {None}]
         /\ pc' \in [Worker -> Labels] /\ \A v \in Worker : pc'[v] \in Aiming => target'[v] \in Slot
BY OpenType, GotoType

LEMMA StayGotoType ==
  ASSUME Typed, NEW w \in Worker, NEW l \in Labels, Goto(w, l), target' = target,
         l \in Aiming => target[w] \in Slot
  PROVE  pc' \in [Worker -> Labels] /\ \A v \in Worker : pc'[v] \in Aiming => target'[v] \in Slot
<1>1. target' \in [Worker -> Slot \cup {None}]
  BY DEF Typed, TypeOK
<1> QED
  BY <1>1, GotoType

\* The parts of TypeOK and Typed that such a step changes.
MovedType ==
  /\ browser' \in [Worker -> Slot \cup {None}] /\ target' \in [Worker -> Slot \cup {None}]
  /\ pc' \in [Worker -> Labels] /\ \A v \in Worker : pc'[v] \in Aiming => target'[v] \in Slot

LEMMA JobTyped ==
  ASSUME Typed, NEW w \in Worker, Job(w)
  PROVE  Typed'
<1> USE DEF Typed, TypeOK, Labels, Aiming, Goto, At
<1>1. CASE StartJob(w)
  BY <1>1 DEF StartJob, locks, rows, pass
<1>2. CASE LockBase(w)
  BY <1>2 DEF LockBase, TakeBase, BaseForm, rows, pass
<1>3. CASE Choose(w)
  <2> HIDE DEF Typed, TypeOK, Labels, Aiming, Goto
  <2>1. Choices(w) \subseteq Slot
    BY OwnAssumption DEF Choices, ActiveSlots
  <2>2. MovedType
    <3>1. CASE Choices(w) = {} /\ Goto(w, "release") /\ UNCHANGED <<browser, target>>
      BY <3>1, StayGotoType DEF MovedType, Typed, TypeOK, Labels, Aiming
    <3>2. ASSUME NEW s \in Choices(w), OpenOn(w, s), Goto(w, "work")
          PROVE  MovedType
      BY <3>2, <2>1, OpenGotoType DEF MovedType, Labels
    <3>3. ASSUME NEW s \in Choices(w), target' = [target EXCEPT ![w] = s], Goto(w, "slotlock"),
                 UNCHANGED browser
          PROVE  MovedType
      BY <3>3, <2>1 DEF MovedType, Typed, TypeOK, Labels, Goto
    <3> QED
      BY <1>3, <3>1, <3>2, <3>3 DEF Choose
  <2> QED
    BY <1>3, <2>2 DEF Choose, MovedType, Typed, TypeOK, locks, rows, pass
<1>4. CASE LockSlot(w)
  <2> HIDE DEF Typed, TypeOK, Labels, Aiming, Goto
  <2>1. target[w] \in Slot
    BY <1>4 DEF LockSlot, Typed, Aiming, At
  <2>2. MovedType
    BY <1>4, <2>1, StayGotoType DEF LockSlot, MovedType, Typed, TypeOK, Labels, Aiming
  <2>3. slotLock' \in [Slot -> Worker \cup {None, Left}]
    BY <1>4, <2>1 DEF LockSlot, TakeSlot, Typed, TypeOK
  <2> QED
    BY <1>4, <2>2, <2>3 DEF LockSlot, MovedType, Typed, TypeOK, rows, pass
<1>5. CASE Open(w)
  <2>1. Opens(w) \subseteq Slot
    BY <1>5 DEF Opens, Open, ActiveSlots
  <2> HIDE DEF Typed, TypeOK, Labels, Aiming, Goto
  <2>2. MovedType
    <3>1. CASE Opens(w) = {} /\ Goto(w, "release") /\ UNCHANGED <<browser, target>>
      BY <3>1, StayGotoType DEF MovedType, Typed, TypeOK, Labels, Aiming
    <3>2. ASSUME NEW s \in Opens(w), OpenOn(w, s), Goto(w, IF Kind[w] \in Grid THEN "map" ELSE "work")
          PROVE  MovedType
      BY <3>2, <2>1, OpenGotoType DEF MovedType, Labels
    <3> QED
      BY <1>5, <3>1, <3>2 DEF Open
  <2> QED
    BY <1>5, <2>2 DEF Open, MovedType, Typed, TypeOK, locks, rows, pass
<1>6. CASE MapLoaded(w) \/ MapLost(w) \/ Disconnect(w) \/ Recycle(w) \/ Finish(w)
  BY <1>6 DEF MapLoaded, MapLost, Disconnect, Recycle, Finish, CloseOf, locks, rows, pass
<1>7. CASE Alternate(w)
  <2>1. pending' \in [Worker -> [Slot -> States \cup {None}]]
    BY <1>7, WriteType DEF Alternate, States
  <2> HIDE DEF Typed, TypeOK, Labels, Aiming, Goto
  <2>2. MovedType
    BY <1>7, OpenGotoType DEF Alternate, MovedType, ActiveSlots, Labels
  <2> QED
    BY <1>7, <2>1, <2>2 DEF Alternate, MovedType, Typed, TypeOK, locks, pass
<1>8. CASE Charge(w)
  BY <1>8, CommitType DEF Charge, locks, pass
<1>9. CASE LoginLost(w)
  <2>1. CASE Kind[w] \in Grid
    <3>1. /\ \E l \in {"release", "inplace"} : pc' = [pc EXCEPT ![w] = l]
          /\ browser' = [browser EXCEPT ![w] = None]
          /\ UNCHANGED <<base, leftBase, slotLock, state, target, retried, saw, todo>>
      BY <1>9, <2>1 DEF LoginLost, Grid, CloseOf, locks, pass
    <3>2. pending' \in [Worker -> [Slot -> States \cup {None}]]
      <4>1. [s \in Slot |-> IF s \in Marked(w) THEN "NEEDS_HUMAN_LOGIN" ELSE pending[w][s]]
              \in [Slot -> States \cup {None}]
        BY DEF States
      <4> HIDE DEF Goto
      <4>2. pending' = [pending EXCEPT ![w] = [s \in Slot |->
               IF s \in Marked(w) THEN "NEEDS_HUMAN_LOGIN" ELSE pending[w][s]]]
        BY <1>9, <2>1 DEF LoginLost, Grid
      <4> QED
        BY <4>1, <4>2
    <3> QED
      BY <3>1, <3>2
  <2>2. CASE Kind[w] \notin Grid
    BY <1>9, <2>2 DEF LoginLost, Grid, CloseOf, States, locks, rows, pass
  <2> QED
    BY <2>1, <2>2
<1>10. CASE SignInHere(w)
  <2> HIDE DEF Typed, TypeOK, Labels, Aiming, Goto
  <2>1. MovedType
    <3>1. CASE \E s \in Held(w) : OpenOn(w, s) /\ Goto(w, "signin")
      BY <3>1, OpenGotoType DEF Held, MovedType, Labels
    <3>2. CASE Goto(w, "release") /\ UNCHANGED <<browser, target>>
      BY <3>2, StayGotoType DEF MovedType, Typed, TypeOK, Labels, Aiming
    <3> QED
      BY <1>10, <3>1, <3>2 DEF SignInHere
  <2> QED
    BY <1>10, <2>1 DEF SignInHere, MovedType, Typed, TypeOK, locks, rows, pass
<1>11. CASE SignedInHere(w)
  <2>1. [Committed(w) EXCEPT ![target[w]] = "ACTIVE"] \in [Slot -> States]
    BY CommitType DEF States
  <2> HIDE DEF Typed, TypeOK, Labels, Aiming, Goto
  <2>2. target[w] \in Slot
    BY <1>11 DEF SignedInHere, Typed, Aiming, At
  <2>3. MovedType
    <3>1. /\ Goto(w, "open") \/ Goto(w, "release")
          /\ target' = target
      BY <1>11 DEF SignedInHere
    <3>2. browser' \in [Worker -> Slot \cup {None}]
      BY <1>11 DEF SignedInHere, CloseOf, Typed, TypeOK
    <3> QED
      BY <3>1, <3>2, <2>2, StayGotoType DEF MovedType, Typed, TypeOK, Labels
  <2>4. /\ state' \in [Slot -> States] /\ pending' \in [Worker -> [Slot -> States \cup {None}]]
        /\ retried' \in [Worker -> BOOLEAN]
    <3>1. Nothing \in [Slot -> States \cup {None}]
      BY CommitType
    <3>2. CASE UNCHANGED <<rows, retried>>
      BY <3>2 DEF Typed, TypeOK, rows
    <3>3. CASE /\ state' = [Committed(w) EXCEPT ![target[w]] = "ACTIVE"]
               /\ pending' = [pending EXCEPT ![w] = Nothing]
               /\ retried' = [retried EXCEPT ![w] = TRUE]
      BY <3>3, <2>1, <3>1 DEF Typed, TypeOK
    <3> QED
      BY <1>11, <3>2, <3>3 DEF SignedInHere
  <2> QED
    BY <1>11, <2>3, <2>4 DEF SignedInHere, MovedType, Typed, TypeOK, locks, pass
<1>12. CASE Reopen(w)
  <2> HIDE DEF Typed, TypeOK, Labels, Aiming, Goto
  <2>1. target[w] \in Slot
    BY <1>12 DEF Reopen, Typed, Aiming, At
  <2>2. MovedType
    <3>1. CASE OpenOn(w, target[w]) /\ Goto(w, "work")
      BY <3>1, <2>1, OpenGotoType DEF MovedType, Labels
    <3>2. CASE Goto(w, "release") /\ UNCHANGED <<browser, target>>
      BY <3>2, StayGotoType DEF MovedType, Typed, TypeOK, Labels, Aiming
    <3> QED
      BY <1>12, <3>1, <3>2 DEF Reopen
  <2> QED
    BY <1>12, <2>2 DEF Reopen, MovedType, Typed, TypeOK, locks, rows, pass
<1>13. CASE Yield(w) \/ CloseBrowser(w)
  BY <1>13, DropType DEF Yield, CloseBrowser, CloseOf, locks, rows, pass
<1>15. CASE UnlockSlot(w) \/ UnlockBase(w)
  <2> DEFINE Raised == (LeaveSlots(w) \/ UNCHANGED slotLock) /\ LeaveBase(w) /\ Raise(w)
  <2>1. CASE Raised
    <3> HIDE DEF Typed, TypeOK, Labels, Aiming, Goto
    <3>1. UNCHANGED browser
      BY <1>15 DEF UnlockSlot, UnlockBase
    <3>2. slotLock' \in [Slot -> Worker \cup {None, Left}]
      BY <2>1, LeaveType DEF Typed, TypeOK
    <3> QED
      BY <2>1, <3>1, <3>2, RaiseType, LeaveType DEF Typed, TypeOK
  <2>2. CASE ~Raised
    BY <1>15, <2>2, DropType DEF UnlockSlot, UnlockBase, DropBase, rows, pass
  <2> QED
    BY <2>1, <2>2
<1>14. CASE EndJob(w)
  BY <1>14, CommitType DEF EndJob, locks, pass
<1> QED
  BY <1>1, <1>2, <1>3, <1>4, <1>5, <1>6, <1>7, <1>8, <1>9, <1>10, <1>11, <1>12, <1>13, <1>14, <1>15 DEF Job

LEMMA PassTyped ==
  ASSUME Typed, NEW w \in Worker, Pass(w)
  PROVE  Typed'
<1> USE DEF Typed, TypeOK, Labels, Aiming, Goto, At
<1>1. CASE StartPass(w)
  BY <1>1 DEF StartPass, ActiveSlots, locks, rows
<1>2. CASE Visit(w)
  <2> HIDE DEF Typed, TypeOK, Labels, Aiming, Goto
  <2>1. PICK s \in todo[w] :
          /\ todo' = [todo EXCEPT ![w] = @ \ {s}]
          /\ \/ UNCHANGED <<base, browser, target, pc>>
             \/ base' = [base EXCEPT ![w] = "exclusive"] /\ OpenOn(w, s) /\ Goto(w, "probe")
             \/ target' = [target EXCEPT ![w] = s] /\ Goto(w, "recover") /\ UNCHANGED <<base, browser>>
    BY <1>2 DEF Visit, TakeBase
  <2>2. s \in Slot
    BY <2>1 DEF Typed, TypeOK
  <2>3. base' \in [Worker -> {"none", "shared", "exclusive"}] /\ todo' \in [Worker -> SUBSET Slot]
    BY <2>1 DEF Typed, TypeOK
  <2>4. MovedType
    <3>1. CASE UNCHANGED <<base, browser, target, pc>>
      BY <3>1 DEF MovedType, Typed, TypeOK
    <3>2. CASE OpenOn(w, s) /\ Goto(w, "probe")
      BY <3>2, <2>2, OpenGotoType DEF MovedType, Labels
    <3>3. CASE target' = [target EXCEPT ![w] = s] /\ Goto(w, "recover") /\ UNCHANGED browser
      BY <3>3, <2>2 DEF MovedType, Typed, TypeOK, Labels, Goto
    <3> QED
      BY <2>1, <3>1, <3>2, <3>3
  <2> QED
    BY <1>2, <2>3, <2>4 DEF Visit, MovedType, Typed, TypeOK, rows
<1>3. CASE EndProbe(w)
  <2>1. CASE LeaveBase(w) /\ Raise(w)
    <3> HIDE DEF Typed, TypeOK, Labels, Aiming, Goto
    <3>1. browser' \in [Worker -> Slot \cup {None}] /\ UNCHANGED slotLock
      BY <1>3 DEF EndProbe, CloseOf, Typed, TypeOK
    <3> QED
      BY <2>1, <3>1, RaiseType, LeaveType DEF Typed, TypeOK
  <2>2. CASE /\ DropBase(w)
             /\ \/ Goto(w, "scan") /\ UNCHANGED pending
                \/ Write(w, target[w], "NEEDS_HUMAN_LOGIN") /\ Goto(w, "recover")
             /\ UNCHANGED <<leftBase, state, target, retried, pass>>
    <3>1. pending' \in [Worker -> [Slot -> States \cup {None}]]
      BY <1>3, <2>2, WriteType DEF EndProbe, States
    <3> QED
      BY <1>3, <2>2, <3>1 DEF EndProbe, CloseOf, DropBase, pass
  <2> QED
    BY <1>3, <2>1, <2>2 DEF EndProbe
<1>4. CASE StartRecover(w)
  <2> HIDE DEF Typed, TypeOK, Labels, Aiming, Goto
  <2>1. target[w] \in Slot
    BY <1>4 DEF StartRecover, Typed, Aiming, At
  <2>2. MovedType
    <3>1. CASE OpenOn(w, target[w]) /\ Goto(w, "recovering")
      BY <3>1, <2>1, OpenGotoType DEF MovedType, Labels
    <3>2. CASE Goto(w, "next") /\ UNCHANGED <<browser, target>>
      BY <3>2, StayGotoType DEF MovedType, Typed, TypeOK, Labels, Aiming
    <3> QED
      BY <1>4, <3>1, <3>2 DEF StartRecover
  <2>3. slotLock' \in [Slot -> Worker \cup {None, Left}]
    BY <1>4, <2>1 DEF StartRecover, TakeSlot, Typed, TypeOK
  <2> QED
    BY <1>4, <2>2, <2>3 DEF StartRecover, MovedType, Typed, TypeOK, rows, pass
<1>5. CASE EndRecover(w)
  <2>0. slotLock' \in [Slot -> Worker \cup {None, Left}] /\ UNCHANGED <<base, leftBase>>
    <3>1. DropSlots(w) \/ LeaveSlots(w)
      BY <1>5 DEF EndRecover
    <3> QED
      BY <1>5, <3>1, DropType, LeaveType DEF EndRecover
  <2>1. CASE Raise(w)
    <3> HIDE DEF Typed, TypeOK, Labels, Aiming, Goto
    <3>1. browser' \in [Worker -> Slot \cup {None}]
      BY <1>5 DEF EndRecover, CloseOf, Typed, TypeOK
    <3> QED
      BY <2>0, <2>1, <3>1, RaiseType DEF Typed, TypeOK
  <2>2. CASE /\ Goto(w, "next") /\ UNCHANGED <<state, target, retried, pass>>
             /\ UNCHANGED pending \/ Write(w, target[w], "ACTIVE")
    <3>1. pending' \in [Worker -> [Slot -> States \cup {None}]]
      BY <1>5, <2>2, WriteType DEF EndRecover, States
    <3> QED
      BY <1>5, <2>0, <2>2, <3>1 DEF EndRecover, CloseOf, pass
  <2> QED
    BY <1>5, <2>1, <2>2 DEF EndRecover
<1>6. CASE NextSlot(w)
  <2>1. state' \in [Slot -> States] /\ pending' \in [Worker -> [Slot -> States \cup {None}]]
    BY <1>6, CommitType DEF NextSlot, rows
  <2> QED
    BY <1>6, <2>1 DEF NextSlot, locks, pass
<1>7. CASE EndPass(w)
  BY <1>7, CommitType DEF EndPass, locks
<1> QED
  BY <1>1, <1>2, <1>3, <1>4, <1>5, <1>6, <1>7 DEF Pass

LEMMA AroundTyped ==
  ASSUME Typed, Boot \/ Expire \/ (\E s \in Slot : HumanLogin(s))
  PROVE  Typed'
<1>1. CASE Boot
  BY <1>1, CommitType DEF Boot, Typed, TypeOK, Labels, Aiming, Nothing, NoneLeft
<1>2. CASE \E s \in Slot : HumanLogin(s)
  BY <1>2 DEF HumanLogin, Typed, TypeOK, Aiming, States, locks, pass
<1>3. CASE Expire
  <2>1. /\ leftBase' \in [{"shared", "exclusive"} -> Nat]
        /\ slotLock' \in [Slot -> Worker \cup {None, Left}]
    <3>1. CASE \E f \in {"shared", "exclusive"} :
                 leftBase[f] > 0 /\ leftBase' = [leftBase EXCEPT ![f] = @ - 1] /\ UNCHANGED slotLock
      BY <3>1 DEF Typed, TypeOK
    <3>2. CASE UNCHANGED leftBase /\ \E s \in Slot : slotLock' = [slotLock EXCEPT ![s] = None]
      BY <3>2 DEF Typed, TypeOK
    <3> QED
      BY <1>3, <3>1, <3>2 DEF Expire
  <2> QED
    BY <1>3, <2>1 DEF Expire, Typed, TypeOK, rows, pass
<1> QED
  BY <1>1, <1>2, <1>3

\* Locks are held by workers and browsers are open on slots, whatever the cast does and wherever
\* the worker restarts; what a job or a pass writes to a slot's row is a state of it.
THEOREM TypeCorrect == Spec => []TypeOK
<1>1. Init => Typed
  BY DEF Init, Typed, TypeOK, Labels, Aiming, Nothing, NoneLeft
<1>2. Typed /\ [Next]_vars => Typed'
  <2> SUFFICES ASSUME Typed, [Next]_vars
               PROVE  Typed'
    OBVIOUS
  <2>1. CASE UNCHANGED vars
    BY <2>1 DEF vars, locks, rows, pass, Typed, TypeOK, Aiming
  <2> QED
    BY <2>1, JobTyped, PassTyped, AroundTyped DEF Next
<1> QED
  BY <1>1, <1>2, PTL DEF Spec, Typed
--------------------------------------------------------------------------------
(***************************************************************************)
(* Grid shards, spot checks and the passes over the slots: every browser   *)
(* is open under the lock of its own login, or under the exclusive base    *)
(* lock.  The harvest tick, the walk and the plain job are not among them: *)
(* they may open the slot in use under the lock of another.                *)
(***************************************************************************)
Probing == {"keepalive", "watchdog"}

\* No grid job gives way to the search harvest, and where the login-session worker restarts, no
\* pass runs outside it, whose locks the restart would delete.
SafeCast ==
  /\ \A w \in Worker : Kind[w] \in {"shard", "spot", "recovery"} \cup Probing
  /\ ~Yields
  /\ Boots => Outside = {}

\* The places of each kind of worker.
GridPlaces     == {"idle", "base", "choose", "slotlock", "open", "map", "work", "reopen",
                   "inplace", "signin", "release", "unlock", "unbase", "commit"}
SpotPlaces     == {"idle", "base", "choose", "work", "release", "unlock", "unbase", "commit"}
RecoveryPlaces == {"idle", "scan", "recover", "recovering", "next"}

PlacesOf(w) ==
  IF Kind[w] = "shard" THEN GridPlaces
  ELSE IF Kind[w] = "spot" THEN SpotPlaces
  ELSE IF Kind[w] = "recovery" THEN RecoveryPlaces
  ELSE RecoveryPlaces \cup {"probe"}

PlacesInv == OnWorkers(pc) /\ \A w \in Worker : pc[w] \in PlacesOf(w)

LEMMA PlacesStep ==
  ASSUME NEW w \in Worker, Job(w) \/ Pass(w),
         SafeCast, PlacesInv
  PROVE  PlacesInv'
<1> USE DEF SafeCast, Probing, PlacesInv, PlacesOf, OnWorkers, GridPlaces, SpotPlaces, RecoveryPlaces, Goto, At
<1>1. CASE StartJob(w) \/ LockBase(w)
  BY <1>1 DEF StartJob, LockBase, Passes
<1>2. CASE Choose(w) \/ LockSlot(w)
  BY <1>2 DEF Choose, LockSlot
<1>3. CASE Open(w)
  BY <1>3 DEF Open, Grid
<1>4. CASE MapLoaded(w) \/ Alternate(w) \/ MapLost(w) \/ Disconnect(w) \/ Recycle(w) \/ Finish(w)
  BY <1>4 DEF MapLoaded, Alternate, MapLost, Disconnect, Recycle, Finish
<1>5. CASE Charge(w)
  BY <1>5 DEF Charge
<1>6. CASE LoginLost(w)
  BY <1>6 DEF LoginLost, Grid
<1>7. CASE SignInHere(w) \/ SignedInHere(w) \/ Reopen(w)
  BY <1>7 DEF SignInHere, SignedInHere, Reopen
<1>8. CASE Yield(w) \/ CloseBrowser(w) \/ UnlockSlot(w) \/ UnlockBase(w) \/ EndJob(w)
  BY <1>8 DEF Yield, CloseBrowser, UnlockSlot, UnlockBase, Raise, EndJob
<1>9. CASE StartPass(w)
  BY <1>9 DEF StartPass, Passes
<1>10. CASE NextSlot(w) \/ EndPass(w)
  BY <1>10 DEF NextSlot, EndPass
<1>11. CASE Visit(w)
  BY <1>11 DEF Visit
<1>12. CASE EndProbe(w)
  BY <1>12 DEF EndProbe, Raise
<1>13. CASE StartRecover(w) \/ EndRecover(w)
  BY <1>13 DEF StartRecover, EndRecover, Raise
<1> QED
  BY <1>1, <1>2, <1>3, <1>4, <1>5, <1>6, <1>7, <1>8, <1>9, <1>10, <1>11, <1>12, <1>13
  DEF Job, Pass

\* A worker at a place of Aiming works on a slot.
AimInv ==
  /\ OnWorkers(pc) /\ OnWorkers(target) /\ OnWorkers(todo)
  /\ \A w \in Worker : todo[w] \subseteq Slot
  /\ \A w \in Worker : pc[w] \in Aiming => target[w] \in Slot

LEMMA AimStep ==
  ASSUME NEW w \in Worker, Job(w) \/ Pass(w), AimInv
  PROVE  AimInv'
<1> USE DEF AimInv, OnWorkers, Aiming, Goto, At
<1>1. CASE StartJob(w) \/ LockBase(w)
  BY <1>1 DEF StartJob, LockBase, pass
<1>2. CASE Choose(w)
  <2>1. Choices(w) \subseteq Slot
    BY OwnAssumption DEF Choices, ActiveSlots
  <2> QED
    BY <1>2, <2>1 DEF Choose, OpenOn, pass
<1>3. CASE LockSlot(w)
  BY <1>3 DEF LockSlot, pass
<1>4. CASE Open(w)
  BY <1>4 DEF Open, Opens, Grid, ActiveSlots, OpenOn, pass
<1>5. CASE MapLoaded(w) \/ Finish(w) \/ MapLost(w) \/ Disconnect(w) \/ Recycle(w)
  BY <1>5 DEF MapLoaded, Finish, MapLost, Disconnect, Recycle, pass
<1>6. CASE Alternate(w)
  BY <1>6 DEF Alternate, OpenOn, ActiveSlots, pass
<1>7. CASE Charge(w)
  BY <1>7 DEF Charge, pass
<1>8. CASE LoginLost(w)
  BY <1>8 DEF LoginLost, pass
<1>9. CASE SignInHere(w)
  BY <1>9 DEF SignInHere, OpenOn, Held, pass
<1>10. CASE SignedInHere(w)
  BY <1>10 DEF SignedInHere, pass
<1>11. CASE Reopen(w)
  BY <1>11 DEF Reopen, OpenOn, pass
<1>12. CASE Yield(w) \/ CloseBrowser(w) \/ UnlockSlot(w) \/ UnlockBase(w) \/ EndJob(w)
  BY <1>12 DEF Yield, CloseBrowser, UnlockSlot, UnlockBase, Raise, EndJob, pass
<1>13. CASE StartPass(w) \/ NextSlot(w) \/ EndPass(w)
  BY <1>13 DEF StartPass, NextSlot, EndPass, pass
<1>14. CASE Visit(w)
  BY <1>14 DEF Visit, OpenOn
<1>15. CASE EndProbe(w)
  BY <1>15 DEF EndProbe, Raise, pass
<1>16. CASE StartRecover(w)
  BY <1>16 DEF StartRecover, OpenOn, pass
<1>17. CASE EndRecover(w)
  BY <1>17 DEF EndRecover, Raise, pass
<1> QED
  BY <1>1, <1>2, <1>3, <1>4, <1>5, <1>6, <1>7, <1>8, <1>9, <1>10, <1>11, <1>12, <1>13, <1>14, <1>15, <1>16, <1>17
  DEF Job, Pass

\* A job holds the base lock from the choice of its slot to its release, alone if it is a spot
\* check; a probe holds it alone.
BaseHeld == {"choose", "slotlock", "open", "map", "work", "reopen", "inplace", "signin", "release",
             "unlock", "unbase"}

AloneInv ==
  /\ OnWorkers(pc) /\ OnWorkers(base)
  /\ \A v, w \in Worker : v # w /\ base[v] = "exclusive" => base[w] = "none"
  /\ \A w \in Worker : pc[w] \in BaseHeld => base[w] \in {"shared", "exclusive"}
  /\ \A w \in Worker : pc[w] = "probe" \/ (Kind[w] = "spot" /\ pc[w] \in BaseHeld) => base[w] = "exclusive"

LEMMA AloneStep ==
  ASSUME NEW w \in Worker, Job(w) \/ Pass(w), AloneInv
  PROVE  AloneInv'
<1> USE DEF AloneInv, OnWorkers, BaseHeld, Goto, At
<1>1. CASE StartJob(w) \/ LockSlot(w)
  BY <1>1 DEF StartJob, LockSlot, locks
<1>2. CASE LockBase(w)
  <2>1. CASE ~BaseFree(BaseForm(w)) /\ Goto(w, "idle") /\ UNCHANGED base
    BY <2>1
  <2>2. CASE TakeBase(w, BaseForm(w)) /\ Goto(w, "choose")
    <3> DEFINE f == BaseForm(w)
    <3>1. f \in {"shared", "exclusive"} /\ (Kind[w] = "spot" => f = "exclusive")
      BY DEF BaseForm
    <3>2. base' = [base EXCEPT ![w] = f] /\ pc' = [pc EXCEPT ![w] = "choose"]
          /\ (\A v \in Worker : base[v] # "exclusive")
          /\ (f # "shared" => \A v \in Worker : base[v] = "none")
      BY <2>2 DEF TakeBase, BaseFree
    <3> HIDE DEF f
    <3> QED
      BY <3>1, <3>2
  <2> QED
    BY <1>2, <2>1, <2>2 DEF LockBase
<1>3. CASE Choose(w) \/ Open(w)
  BY <1>3 DEF Choose, Open, locks
<1>4. CASE MapLoaded(w) \/ Alternate(w) \/ MapLost(w) \/ Disconnect(w) \/ Recycle(w) \/ Finish(w) \/ Yield(w)
  BY <1>4 DEF MapLoaded, Alternate, MapLost, Disconnect, Recycle, Finish, Yield, locks
<1>5. CASE Charge(w)
  BY <1>5 DEF Charge, locks
<1>6. CASE LoginLost(w)
  BY <1>6 DEF LoginLost, locks
<1>7. CASE SignInHere(w) \/ SignedInHere(w) \/ Reopen(w)
  BY <1>7 DEF SignInHere, SignedInHere, Reopen, locks
<1>8. CASE CloseBrowser(w) \/ EndJob(w)
  BY <1>8 DEF CloseBrowser, EndJob, locks
<1>13. CASE UnlockSlot(w)
  BY <1>13 DEF UnlockSlot, LeaveBase, Raise
<1>14. CASE UnlockBase(w)
  BY <1>14 DEF UnlockBase, DropBase, LeaveBase, Raise
<1>9. CASE StartPass(w) \/ NextSlot(w) \/ EndPass(w)
  BY <1>9 DEF StartPass, NextSlot, EndPass, locks
<1>10. CASE Visit(w)
  <2>1. CASE UNCHANGED base /\ (UNCHANGED pc \/ Goto(w, "recover"))
    BY <2>1
  <2>2. CASE TakeBase(w, "exclusive") /\ Goto(w, "probe")
    BY <2>2 DEF TakeBase, BaseFree
  <2> QED
    BY <1>10, <2>1, <2>2 DEF Visit
<1>11. CASE EndProbe(w)
  BY <1>11 DEF EndProbe, DropBase, LeaveBase, Raise
<1>12. CASE StartRecover(w) \/ EndRecover(w)
  BY <1>12 DEF StartRecover, EndRecover, Raise
<1> QED
  BY <1>1, <1>2, <1>3, <1>4, <1>5, <1>6, <1>7, <1>8, <1>9, <1>10, <1>11, <1>12, <1>13, <1>14
  DEF Job, Pass

\* A spot check and a probe open their browser under the base lock alone.
OnBaseAlone(w) == Kind[w] = "spot" \/ pc[w] = "probe"

Locking == {"open", "map", "work", "reopen", "signin", "recovering"}

LockedInv ==
  /\ OnWorkers(pc) /\ OnWorkers(target) /\ OnWorkers(browser)
  /\ slotLock = [s \in Slot |-> slotLock[s]]
  /\ \A w \in Worker : pc[w] \in Locking /\ Kind[w] # "spot" => slotLock[target[w]] = w
  /\ \A w \in Worker : browser[w] # None =>
       browser[w] \in Slot /\ (OnBaseAlone(w) \/ slotLock[browser[w]] = w)

\* A worker that closes its browser may let go of its slot locks.
LEMMA LetGo ==
  ASSUME NEW w \in Worker, AimInv, LockedInv,
         OnWorkers(pc)', OnWorkers(target)', OnWorkers(browser)',
         slotLock' = [s \in Slot |-> slotLock'[s]],
         \A v \in Worker \ {w} : pc'[v] = pc[v] /\ target'[v] = target[v] /\ browser'[v] = browser[v],
         \A s \in Slot : slotLock[s] # w => slotLock'[s] = slotLock[s],
         pc'[w] \notin Locking, browser'[w] = None
  PROVE  LockedInv'
<1>1. \A v \in Worker \ {w} : pc[v] \in Locking => target[v] \in Slot
  BY DEF AimInv, Aiming, Locking
<1>2. \A v \in Worker : pc'[v] \in Locking /\ Kind[v] # "spot" => slotLock'[target'[v]] = v
  BY <1>1 DEF LockedInv
<1>3. \A v \in Worker : browser'[v] # None =>
        browser'[v] \in Slot /\ (OnBaseAlone(v)' \/ slotLock'[browser'[v]] = v)
  BY DEF LockedInv, OnBaseAlone
<1> QED
  BY <1>2, <1>3 DEF LockedInv

LEMMA LockedStep ==
  ASSUME NEW w \in Worker, Job(w) \/ Pass(w),
         SafeCast, PlacesInv, AimInv, BrowserInv, LockedInv
  PROVE  LockedInv'
<1> USE DEF LockedInv, AimInv, OnWorkers, OnBaseAlone, Aiming, Locking, Goto, At
<1>0. /\ Kind[w] \in {"shard", "spot", "recovery"} \cup Probing
      /\ pc[w] \in PlacesOf(w)
  BY DEF SafeCast, PlacesInv
<1>1. CASE StartJob(w) \/ LockBase(w)
  BY <1>1 DEF StartJob, LockBase, locks
<1>2. CASE Choose(w)
  <2>1. UNCHANGED slotLock /\ Choices(w) \subseteq Slot /\ pc[w] = "choose"
    BY <1>2, OwnAssumption DEF Choose, Choices, ActiveSlots, locks
  <2>2. CASE \E s \in Choices(w) : Kind[w] = "spot" /\ OpenOn(w, s) /\ Goto(w, "work")
    <3>1. PICK s \in Slot : browser' = [browser EXCEPT ![w] = s] /\ target' = [target EXCEPT ![w] = s]
      BY <2>1, <2>2 DEF OpenOn
    <3>2. pc' = [pc EXCEPT ![w] = "work"] /\ Kind[w] = "spot"
      BY <2>2
    <3> QED
      BY <2>1, <3>1, <3>2
  <2>3. CASE \E s \in Choices(w) : target' = [target EXCEPT ![w] = s] /\ Goto(w, "slotlock") /\ UNCHANGED browser
    BY <2>1, <2>3
  <2>4. CASE Choices(w) = {} /\ Goto(w, "release") /\ UNCHANGED <<browser, target>>
    BY <2>1, <2>4
  <2>5. \/ \E s \in Choices(w) :
             IF Kind[w] = "spot"
               THEN OpenOn(w, s) /\ Goto(w, "work")
               ELSE target' = [target EXCEPT ![w] = s] /\ Goto(w, "slotlock") /\ UNCHANGED browser
        \/ Choices(w) = {} /\ Goto(w, "release") /\ UNCHANGED <<browser, target>>
    BY <1>2 DEF Choose
  <2> HIDE DEF LockedInv, Goto
  <2> QED
    BY <2>2, <2>3, <2>4, <2>5
<1>3. CASE LockSlot(w)
  <2>1. pc[w] = "slotlock" /\ target[w] \in Slot /\ UNCHANGED <<browser, target>>
    BY <1>3 DEF LockSlot
  <2>2. CASE TakeSlot(w, target[w]) /\ pc' = [pc EXCEPT ![w] = "open"]
    <3>1. slotLock[target[w]] = None /\ slotLock' = [slotLock EXCEPT ![target[w]] = w]
      BY <2>2 DEF TakeSlot
    <3>2. \A v \in Worker : slotLock[target[v]] = v => slotLock'[target[v]] = v
      BY <2>1, <3>1, NobodyAssumption
    <3>3. \A v \in Worker : browser[v] # None /\ slotLock[browser[v]] = v => slotLock'[browser[v]] = v
      BY <2>1, <3>1, NobodyAssumption
    <3> QED
      BY <2>1, <2>2, <3>1, <3>2, <3>3
  <2>3. CASE UNCHANGED slotLock /\ \E l \in {"choose", "release"} : pc' = [pc EXCEPT ![w] = l]
    BY <2>1, <2>3
  <2> QED
    BY <1>3, <2>2, <2>3 DEF LockSlot
<1>4. CASE Open(w)
  <2>1. Kind[w] = "shard"
    BY <1>0, <1>4 DEF Open, PlacesOf, SpotPlaces, RecoveryPlaces, Probing
  <2>2. Opens(w) = {target[w]}
    BY <2>1 DEF Opens, Grid
  <2>3. /\ UNCHANGED slotLock /\ OpenOn(w, target[w])
        /\ pc' = [pc EXCEPT ![w] = "map"]
    BY <1>4, <2>1, <2>2 DEF Open, Grid, locks
  <2>4. slotLock[target[w]] = w /\ target[w] \in Slot
    BY <1>4, <2>1 DEF Open
  <2> QED
    BY <2>3, <2>4 DEF OpenOn
<1>5. CASE MapLoaded(w) \/ Finish(w)
  BY <1>5 DEF MapLoaded, Finish, locks
<1>6. CASE MapLost(w) \/ Disconnect(w)
  BY <1>6, NobodyAssumption DEF MapLost, Disconnect, CloseOf, locks
<1>7. CASE Alternate(w) \/ Recycle(w) \/ Yield(w)
  BY <1>0, <1>7, SafeCast DEF Alternate, Recycle, Yield, SafeCast, Probing
<1>8. CASE Charge(w)
  BY <1>8 DEF Charge, locks
<1>9. CASE LoginLost(w)
  BY <1>9 DEF LoginLost, CloseOf, locks
<1>10. CASE SignInHere(w)
  BY <1>10 DEF SignInHere, OpenOn, Held, locks
<1>11. CASE SignedInHere(w)
  BY <1>11 DEF SignedInHere, CloseOf, locks
<1>12. CASE Reopen(w)
  BY <1>12 DEF Reopen, OpenOn, locks
<1>13. CASE CloseBrowser(w)
  BY <1>13 DEF CloseBrowser, CloseOf, locks
<1>20. CASE UnlockSlot(w) \/ UnlockBase(w)
  <2>1. browser[w] = None
    BY <1>20 DEF UnlockSlot, UnlockBase, BrowserInv, WithoutBrowser
  <2>2. \A s \in Slot : slotLock[s] # w => slotLock'[s] = slotLock[s]
    BY <1>20 DEF UnlockSlot, UnlockBase, DropSlots, LeaveSlots
  <2>3. slotLock' = [s \in Slot |-> slotLock'[s]]
    BY <1>20 DEF UnlockSlot, UnlockBase, DropSlots, LeaveSlots
  <2>4. \E l \in {"unbase", "commit", "idle"} : pc' = [pc EXCEPT ![w] = l]
    BY <1>20 DEF UnlockSlot, UnlockBase, Raise
  <2>5. UNCHANGED browser /\ (UNCHANGED target \/ target' = [target EXCEPT ![w] = None])
    BY <1>20 DEF UnlockSlot, UnlockBase, Raise
  <2>6. OnWorkers(pc)' /\ OnWorkers(target)' /\ OnWorkers(browser)'
    BY <2>4, <2>5
  <2>7. /\ \A v \in Worker \ {w} : pc'[v] = pc[v] /\ target'[v] = target[v] /\ browser'[v] = browser[v]
        /\ pc'[w] \notin Locking
        /\ browser'[w] = None
    BY <2>1, <2>4, <2>5
  <2> HIDE DEF LockedInv, AimInv, OnWorkers, Locking
  <2> QED
    BY <2>2, <2>3, <2>6, <2>7, LetGo
<1>14. CASE EndJob(w)
  BY <1>14 DEF EndJob, locks
<1>15. CASE StartPass(w) \/ NextSlot(w) \/ EndPass(w)
  BY <1>15 DEF StartPass, NextSlot, EndPass, locks
<1>16. CASE Visit(w)
  <2>1. UNCHANGED slotLock /\ pc[w] = "scan"
    BY <1>16 DEF Visit
  <2>2. CASE UNCHANGED <<browser, target, pc>>
    BY <2>1, <2>2
  <2>3. CASE \E s \in todo[w] : OpenOn(w, s) /\ Goto(w, "probe")
    BY <2>1, <2>3 DEF OpenOn
  <2>4. CASE UNCHANGED browser /\ \E s \in todo[w] : target' = [target EXCEPT ![w] = s] /\ Goto(w, "recover")
    BY <2>1, <2>4
  <2> QED
    BY <1>16, <2>2, <2>3, <2>4 DEF Visit
<1>17. CASE EndProbe(w)
  BY <1>17 DEF EndProbe, CloseOf, Raise
<1>18. CASE StartRecover(w)
  <2>1. pc[w] = "recover" /\ target[w] \in Slot
    BY <1>18 DEF StartRecover
  <2>2. CASE slotLock[target[w]] # None /\ Goto(w, "next") /\ UNCHANGED <<slotLock, browser, target>>
    BY <2>1, <2>2
  <2>3. CASE TakeSlot(w, target[w]) /\ OpenOn(w, target[w]) /\ Goto(w, "recovering")
    <3>1. /\ slotLock[target[w]] = None
          /\ slotLock' = [slotLock EXCEPT ![target[w]] = w]
          /\ browser' = [browser EXCEPT ![w] = target[w]]
          /\ target' = [target EXCEPT ![w] = target[w]]
          /\ pc' = [pc EXCEPT ![w] = "recovering"]
      BY <2>3 DEF TakeSlot, OpenOn
    <3>2. \A v \in Worker : slotLock[target[v]] = v => slotLock'[target[v]] = v
      BY <2>1, <3>1, NobodyAssumption
    <3>3. \A v \in Worker : browser[v] # None /\ slotLock[browser[v]] = v => slotLock'[browser[v]] = v
      BY <2>1, <3>1, NobodyAssumption
    <3> QED
      BY <2>1, <3>1, <3>2, <3>3
  <2> QED
    BY <1>18, <2>2, <2>3 DEF StartRecover
<1>19. CASE EndRecover(w)
  <2>1. /\ \A s \in Slot : slotLock[s] # w => slotLock'[s] = slotLock[s]
        /\ slotLock' = [s \in Slot |-> slotLock'[s]]
    BY <1>19 DEF EndRecover, DropSlots, LeaveSlots
  <2>2. \E l \in {"next", "idle"} : pc' = [pc EXCEPT ![w] = l]
    BY <1>19 DEF EndRecover, Raise
  <2>3. browser' = [browser EXCEPT ![w] = None]
        /\ (UNCHANGED target \/ target' = [target EXCEPT ![w] = None])
    BY <1>19 DEF EndRecover, CloseOf, Raise
  <2>4. OnWorkers(pc)' /\ OnWorkers(target)' /\ OnWorkers(browser)'
    BY <2>2, <2>3
  <2>5. /\ \A v \in Worker \ {w} : pc'[v] = pc[v] /\ target'[v] = target[v] /\ browser'[v] = browser[v]
        /\ pc'[w] \notin Locking
        /\ browser'[w] = None
    BY <2>2, <2>3
  <2> HIDE DEF LockedInv, AimInv, OnWorkers, Locking
  <2> QED
    BY <2>1, <2>4, <2>5, LetGo
<1> QED
  BY <1>1, <1>2, <1>3, <1>4, <1>5, <1>6, <1>7, <1>8, <1>9, <1>10, <1>11, <1>12, <1>13, <1>14, <1>15, <1>16, <1>17, <1>18, <1>19, <1>20
  DEF Job, Pass

CastInv == BrowserInv /\ PlacesInv /\ AimInv /\ AloneInv /\ LockedInv

\* An operator's login and the expiry of a lock left behind change nothing of this, and a
\* restart of the worker begins anew.
LEMMA CastLogin ==
  ASSUME CastInv, Expire \/ \E s \in Slot : HumanLogin(s)
  PROVE  CastInv'
<1>1. /\ UNCHANGED <<base, browser, pc, target, todo>>
      /\ \A s \in Slot : slotLock[s] # Left => slotLock'[s] = slotLock[s]
      /\ slotLock' = [s \in Slot |-> slotLock'[s]]
  BY DEF HumanLogin, Expire, locks, pass, CastInv, LockedInv
<1>2. LockedInv'
  <2>1. \A w \in Worker : pc[w] \in Locking => target[w] \in Slot
    BY DEF CastInv, AimInv, Aiming, Locking
  <2>2. \A w \in Worker : pc'[w] \in Locking /\ Kind[w] # "spot" => slotLock'[target'[w]] = w
    BY <1>1, <2>1, LeftAssumption DEF CastInv, LockedInv
  <2>3. \A w \in Worker : browser'[w] # None =>
          browser'[w] \in Slot /\ (OnBaseAlone(w)' \/ slotLock'[browser'[w]] = w)
    BY <1>1, LeftAssumption DEF CastInv, LockedInv, OnBaseAlone
  <2> QED
    BY <1>1, <2>2, <2>3 DEF CastInv, LockedInv, OnWorkers
<1> QED
  BY <1>1, <1>2 DEF CastInv, BrowserInv, PlacesInv, PlacesOf, AimInv, AloneInv, LockedInv, OnBaseAlone, OnWorkers

LEMMA CastBoot ==
  ASSUME SafeCast, CastInv, Boot
  PROVE  CastInv'
<1>1. /\ OnWorkers(pc)' /\ OnWorkers(target)' /\ OnWorkers(todo)' /\ OnWorkers(base)' /\ OnWorkers(browser)'
      /\ \A w \in Worker : /\ pc'[w] = "idle" /\ target'[w] = None /\ browser'[w] = None
                           /\ todo'[w] = {} /\ base'[w] = "none"
      /\ slotLock' = [s \in Slot |-> slotLock'[s]]
  BY DEF Boot, SafeCast, LoginQueue, OnWorkers, Nothing
<1>2. PlacesInv' /\ AimInv'
  BY <1>1 DEF PlacesInv, PlacesOf, GridPlaces, SpotPlaces, RecoveryPlaces, AimInv, Aiming, OnWorkers
<1>3. AloneInv'
  BY <1>1 DEF AloneInv, BaseHeld, OnWorkers
<1>4. LockedInv'
  BY <1>1 DEF LockedInv, Locking, OnWorkers
<1>5. BrowserInv'
  BY BrowserBoot DEF CastInv
<1> QED
  BY <1>2, <1>3, <1>4, <1>5 DEF CastInv

LEMMA CastAlways ==
  ASSUME SafeCast
  PROVE  Spec => []CastInv
<1>1. Init => CastInv
  BY NobodyAssumption
  DEF Init, CastInv, BrowserInv, PlacesInv, PlacesOf, AimInv, AloneInv, LockedInv, OnWorkers, Nothing,
      GridPlaces, SpotPlaces, RecoveryPlaces, Aiming, BaseHeld, Locking
<1>2. CastInv /\ [Next]_vars => CastInv'
  <2> SUFFICES ASSUME CastInv, [Next]_vars
               PROVE  CastInv'
    OBVIOUS
  <2>1. CASE \E w \in Worker : Job(w) \/ Pass(w)
    BY <2>1, SafeCast, BrowserStep, PlacesStep, AimStep, AloneStep, LockedStep DEF CastInv
  <2>2. CASE Expire \/ \E s \in Slot : HumanLogin(s)
    BY <2>2, CastLogin
  <2>3. CASE Boot
    BY <2>3, SafeCast, CastBoot
  <2>4. CASE UNCHANGED vars
    BY <2>4 DEF vars, locks, pass, CastInv, BrowserInv, PlacesInv, PlacesOf, AimInv, AloneInv,
                LockedInv, OnBaseAlone, OnWorkers
  <2> QED
    BY <2>1, <2>2, <2>3, <2>4 DEF Next
<1> QED
  BY <1>1, <1>2, PTL DEF Spec

\* A worker with its browser open under the base lock alone holds it alone.
LEMMA BrowserUnderBase ==
  ASSUME CastInv, NEW w \in Worker, browser[w] # None, OnBaseAlone(w)
  PROVE  base[w] = "exclusive"
BY DEF CastInv, PlacesInv, PlacesOf, SpotPlaces, BrowserInv, WithoutBrowser, AloneInv, BaseHeld, OnBaseAlone

\* Every browser is open under the lock of its own login, or under the exclusive base lock, with any
\* number of grid shards, spot checks and passes, whatever in-place sign-ins, operators and restarts do.
THEOREM BrowserUnderLock ==
  ASSUME SafeCast
  PROVE  Spec => []UnderItsLock
<1>1. CastInv => UnderItsLock
  BY BrowserUnderBase DEF CastInv, LockedInv, UnderItsLock
<1> QED
  BY <1>1, SafeCast, CastAlways, PTL

\* No probe and no spot check runs beside another worker's pass, which signs in under the slot
\* lock alone.
NoProbeBesidePass ==
  \A v, w \in Worker : Kind[v] \in {"spot"} \cup Probing /\ Kind[w] \in Passes => v = w

\* A browser that is not open under the base lock alone is a shard's, which holds the base lock,
\* or a pass's that signs in.
LEMMA BrowserUnderSlot ==
  ASSUME SafeCast, CastInv, NEW w \in Worker, browser[w] # None, ~OnBaseAlone(w)
  PROVE  slotLock[browser[w]] = w /\ (base[w] = "none" => Kind[w] \in Passes)
<1>1. slotLock[browser[w]] = w
  BY DEF CastInv, LockedInv
<1>2. ASSUME Kind[w] \notin Passes
      PROVE  base[w] # "none"
  <2>1. Kind[w] = "shard"
    BY <1>2 DEF SafeCast, Passes, Probing, OnBaseAlone
  <2> QED
    BY <2>1 DEF CastInv, PlacesInv, PlacesOf, GridPlaces, BrowserInv, WithoutBrowser, AloneInv, BaseHeld
<1> QED
  BY <1>1, <1>2

\* Two browsers are never open on one login, for any number of grid shards beside any number of
\* recovery passes, of spot checks, or one keepalive or stall probe.
THEOREM OneBrowserPerLogin ==
  ASSUME SafeCast, NoProbeBesidePass
  PROVE  Spec => []OneBrowser
<1>1. ASSUME CastInv, NEW v \in Worker, NEW w \in Worker, v # w, browser[v] # None, browser[v] = browser[w]
      PROVE  FALSE
  <2>1. CASE ~OnBaseAlone(v) /\ ~OnBaseAlone(w)
    BY <1>1, <2>1, SafeCast, BrowserUnderSlot
  <2>2. ASSUME NEW x \in Worker, NEW y \in Worker, x # y, browser[x] # None, browser[y] # None, OnBaseAlone(x)
        PROVE  FALSE
    <3>1. base[x] = "exclusive" /\ base[y] = "none"
      BY <1>1, <2>2, BrowserUnderBase DEF CastInv, AloneInv
    <3>2. ~OnBaseAlone(y)
      BY <1>1, <2>2, <3>1, BrowserUnderBase
    <3>3. Kind[y] \in Passes
      BY <1>1, <2>2, <3>1, <3>2, SafeCast, BrowserUnderSlot
    <3>4. Kind[x] \in {"spot"} \cup Probing
      BY <1>1, <2>2 DEF OnBaseAlone, CastInv, PlacesInv, PlacesOf, GridPlaces, RecoveryPlaces, SafeCast
    <3> QED
      BY <2>2, <3>3, <3>4, NoProbeBesidePass DEF NoProbeBesidePass
  <2> QED
    BY <1>1, <2>1, <2>2
<1>2. CastInv => OneBrowser
  BY <1>1 DEF OneBrowser
<1> QED
  BY <1>2, SafeCast, CastAlways, PTL
--------------------------------------------------------------------------------
(***************************************************************************)
(* Who has a browser open is seen by its locks, for every cast: a job has  *)
(* the base lock from the choice of its slot to the end of its finally     *)
(* block, a probe has it too, and a sign-in has its slot's lock.           *)
(***************************************************************************)
SignInInv ==
  /\ slotLock = [s \in Slot |-> slotLock[s]]
  /\ \A w \in Worker : pc[w] = "recovering" => slotLock[target[w]] = w

LEMMA SignInStep ==
  ASSUME NEW w \in Worker, Job(w) \/ Pass(w), AimInv, SignInInv
  PROVE  SignInInv'
<1>1. ASSUME NEW v \in Worker, v # w
      PROVE  pc'[v] = pc[v] /\ target'[v] = target[v]
  <2> USE DEF AimInv, OnWorkers, Goto, OpenOn, Raise, pass
  <2>1. CASE StartJob(w) \/ LockBase(w) \/ Choose(w) \/ LockSlot(w) \/ Open(w)
    BY <1>1, <2>1 DEF StartJob, LockBase, Choose, LockSlot, Open
  <2>2. CASE MapLoaded(w) \/ Alternate(w) \/ MapLost(w) \/ Charge(w) \/ LoginLost(w)
    BY <1>1, <2>2 DEF MapLoaded, Alternate, MapLost, Charge, LoginLost
  <2>3. CASE SignInHere(w) \/ SignedInHere(w) \/ Disconnect(w) \/ Reopen(w) \/ Recycle(w)
    BY <1>1, <2>3 DEF SignInHere, SignedInHere, Disconnect, Reopen, Recycle
  <2>4. CASE Finish(w) \/ Yield(w) \/ CloseBrowser(w) \/ UnlockSlot(w) \/ UnlockBase(w) \/ EndJob(w)
    BY <1>1, <2>4 DEF Finish, Yield, CloseBrowser, UnlockSlot, UnlockBase, EndJob
  <2>5. CASE StartPass(w) \/ Visit(w) \/ EndProbe(w) \/ StartRecover(w)
    BY <1>1, <2>5 DEF StartPass, Visit, EndProbe, StartRecover
  <2>6. CASE EndRecover(w) \/ NextSlot(w) \/ EndPass(w)
    BY <1>1, <2>6 DEF EndRecover, NextSlot, EndPass
  <2> QED
    BY <2>1, <2>2, <2>3, <2>4, <2>5, <2>6 DEF Job, Pass
<1>2. \A s \in Slot : slotLock[s] \notin {None, w} => slotLock'[s] = slotLock[s]
  <2> USE DEF SignInInv, TakeSlot, DropSlots, LeaveSlots, Raise, locks
  <2>1. CASE StartJob(w) \/ LockBase(w) \/ Choose(w) \/ LockSlot(w) \/ Open(w)
    BY <2>1 DEF StartJob, LockBase, Choose, LockSlot, Open
  <2>2. CASE MapLoaded(w) \/ Alternate(w) \/ MapLost(w) \/ Charge(w) \/ LoginLost(w)
    BY <2>2 DEF MapLoaded, Alternate, MapLost, Charge, LoginLost
  <2>3. CASE SignInHere(w) \/ SignedInHere(w) \/ Disconnect(w) \/ Reopen(w) \/ Recycle(w)
    BY <2>3 DEF SignInHere, SignedInHere, Disconnect, Reopen, Recycle
  <2>4. CASE Finish(w) \/ Yield(w) \/ CloseBrowser(w) \/ UnlockSlot(w) \/ UnlockBase(w) \/ EndJob(w)
    BY <2>4 DEF Finish, Yield, CloseBrowser, UnlockSlot, UnlockBase, EndJob
  <2>5. CASE StartPass(w) \/ Visit(w) \/ EndProbe(w) \/ StartRecover(w)
    BY <2>5 DEF StartPass, Visit, EndProbe, StartRecover
  <2>6. CASE EndRecover(w) \/ NextSlot(w) \/ EndPass(w)
    BY <2>6 DEF EndRecover, NextSlot, EndPass
  <2> QED
    BY <2>1, <2>2, <2>3, <2>4, <2>5, <2>6 DEF Job, Pass
<1>3. slotLock' = [s \in Slot |-> slotLock'[s]]
  <2> USE DEF SignInInv, TakeSlot, DropSlots, LeaveSlots, Raise, locks
  <2>1. CASE Job(w)
    BY <2>1 DEF Job, StartJob, LockBase, Choose, LockSlot, Open, MapLoaded, Alternate, MapLost, Charge,
       LoginLost, SignInHere, SignedInHere, Disconnect, Reopen, Recycle, Finish, Yield, CloseBrowser,
       UnlockSlot, UnlockBase, EndJob
  <2>2. CASE Pass(w)
    BY <2>2 DEF Pass, StartPass, Visit, EndProbe, StartRecover, EndRecover, NextSlot, EndPass
  <2> QED
    BY <2>1, <2>2
<1>4. pc'[w] = "recovering" => slotLock'[target'[w]] = w
  <2> USE DEF AimInv, OnWorkers, Goto, At
  <2>1. CASE Job(w)
    <3>1. pc[w] = "recovering" => pc'[w] # "recovering"
      BY <2>1 DEF Job, StartJob, LockBase, Choose, LockSlot, Open, MapLoaded, Alternate, MapLost, Charge,
         LoginLost, SignInHere, SignedInHere, Disconnect, Reopen, Recycle, Finish, Yield, CloseBrowser,
         UnlockSlot, UnlockBase, EndJob
    <3> QED
      BY <2>1, <3>1 DEF Job, StartJob, LockBase, Choose, LockSlot, Open, MapLoaded, Alternate, MapLost, Charge,
         LoginLost, SignInHere, SignedInHere, Disconnect, Reopen, Recycle, Finish, Yield, CloseBrowser,
         UnlockSlot, UnlockBase, Raise, EndJob
  <2>2. CASE StartRecover(w)
    <3>1. target[w] \in Slot
      BY <2>2 DEF StartRecover, Aiming
    <3> QED
      BY <2>2, <3>1 DEF StartRecover, TakeSlot, OpenOn, SignInInv
  <2>3. CASE Pass(w) /\ ~StartRecover(w)
    BY <2>3 DEF Pass, StartPass, Visit, EndProbe, EndRecover, NextSlot, EndPass, Raise
  <2> QED
    BY <2>1, <2>2, <2>3
<1>5. \A v \in Worker : pc[v] = "recovering" => target[v] \in Slot
  BY DEF AimInv, Aiming
<1> QED
  BY <1>1, <1>2, <1>3, <1>4, <1>5, NobodyAssumption DEF SignInInv

SeenInv == BrowserInv /\ AimInv /\ AloneInv /\ SignInInv

LEMMA SeenAround ==
  ASSUME SeenInv, Boots => Outside = {}, Boot \/ Expire \/ (\E s \in Slot : HumanLogin(s))
  PROVE  SeenInv'
<1>1. CASE Boot
  <2>1. /\ OnWorkers(pc)' /\ OnWorkers(target)' /\ OnWorkers(todo)' /\ OnWorkers(base)' /\ OnWorkers(browser)'
        /\ \A w \in Worker : /\ pc'[w] = "idle" /\ target'[w] = None /\ browser'[w] = None
                             /\ todo'[w] = {} /\ base'[w] = "none"
        /\ slotLock' = [s \in Slot |-> slotLock'[s]]
    BY <1>1 DEF Boot, LoginQueue, OnWorkers, Nothing
  <2> QED
    BY <2>1 DEF SeenInv, BrowserInv, AimInv, Aiming, AloneInv, BaseHeld, SignInInv, OnWorkers
<1>2. CASE Expire \/ \E s \in Slot : HumanLogin(s)
  <2>1. /\ UNCHANGED <<base, browser, pc, target, todo>>
        /\ \A s \in Slot : slotLock[s] # Left => slotLock'[s] = slotLock[s]
        /\ slotLock' = [s \in Slot |-> slotLock'[s]]
    BY <1>2 DEF HumanLogin, Expire, locks, pass, SeenInv, SignInInv
  <2>2. \A w \in Worker : pc[w] = "recovering" => target[w] \in Slot
    BY DEF SeenInv, AimInv, Aiming
  <2>3. SignInInv'
    BY <2>1, <2>2, LeftAssumption DEF SeenInv, SignInInv
  <2> QED
    BY <2>1, <2>3 DEF SeenInv, BrowserInv, AimInv, AloneInv, OnWorkers
<1> QED
  BY <1>1, <1>2

\* Whatever job a worker runs, whichever slot its ladder or a lost login takes it to, however it
\* yields and whatever fails as it lets go: it never has a browser open without a lock by which
\* keepalive and a deploy see that the login is in use.  Where the login-session worker may
\* restart, no pass runs outside it, for the restart deletes locks by their names.
THEOREM BrowserIsSeen ==
  ASSUME Boots => Outside = {}
  PROVE  Spec => []SeenAtWork
<1>1. Init => SeenInv
  BY NobodyAssumption
  DEF Init, SeenInv, BrowserInv, AimInv, Aiming, AloneInv, BaseHeld, SignInInv, OnWorkers, Nothing
<1>2. SeenInv /\ [Next]_vars => SeenInv'
  <2> SUFFICES ASSUME SeenInv, [Next]_vars
               PROVE  SeenInv'
    OBVIOUS
  <2>1. CASE \E w \in Worker : Job(w) \/ Pass(w)
    BY <2>1, BrowserStep, AimStep, AloneStep, SignInStep DEF SeenInv
  <2>2. CASE Boot \/ Expire \/ \E s \in Slot : HumanLogin(s)
    BY <2>2, SeenAround
  <2>3. CASE UNCHANGED vars
    BY <2>3 DEF vars, locks, pass, SeenInv, BrowserInv, AimInv, AloneInv, SignInInv, OnWorkers
  <2> QED
    BY <2>1, <2>2, <2>3 DEF Next
<1>3. (TypeOK /\ SeenInv) => SeenAtWork
  <2> SUFFICES ASSUME TypeOK, SeenInv, NEW w \in Worker, browser[w] # None
               PROVE  base[w] # "none" \/ Held(w) # {}
    BY DEF SeenAtWork
  <2>1. pc[w] \in Labels \ WithoutBrowser
    BY DEF TypeOK, SeenInv, BrowserInv
  <2>2. CASE pc[w] = "recovering"
    BY <2>2 DEF SeenInv, SignInInv, AimInv, Aiming, Held
  <2>3. CASE pc[w] # "recovering"
    BY <2>1, <2>3 DEF Labels, WithoutBrowser, SeenInv, AloneInv, BaseHeld
  <2> QED
    BY <2>2, <2>3
<1> QED
  BY <1>1, <1>2, <1>3, TypeCorrect, PTL DEF Spec
================================================================================
