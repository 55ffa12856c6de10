--------------------------- MODULE SourceStateProofs ---------------------------
(* Machine-checked proofs about SourceState, for any cast of workers and any slots. *)
EXTENDS SourceState, WellFoundedInduction, TLAPS

(***************************************************************************)
(* The stored session of a slot only ever gives way to a later sign-in, or *)
(* to the same sign-in's renewed cookies.                                  *)
(***************************************************************************)
Stored == [sign_in : Nat, renewal : {0, 1}, stored : BOOLEAN]

\* What may take the place of the stored session old.
Successor(old, new) ==
  /\ new \in Stored
  /\ new.sign_in >= old.sign_in
  /\ new.stored /\ ~old.stored => new.sign_in > old.sign_in

LoginInv == login \in [Slot -> Stored]

Kept == LoginInv' /\ \A s \in Slot : Successor(login[s], login'[s])

LEMMA SuccessorSame ==
  ASSUME NEW l \in Stored
  PROVE  Successor(l, l)
BY DEF Successor, Stored

\* Renewed cookies of the very session that is stored.
LEMMA SuccessorRenewed ==
  ASSUME NEW w \in Worker, opened[w] \in Stored
  PROVE  Successor(opened[w], Renewed(w))
BY DEF Successor, Stored, Renewed

LEMMA SuccessorSigned ==
  ASSUME NEW s, login[s] \in Stored
  PROVE  Successor(login[s], Signed(s))
BY DEF Successor, Stored, Signed

LEMMA SuccessorCleared ==
  ASSUME NEW l \in Stored
  PROVE  Successor(l, [l EXCEPT !.stored = FALSE])
<1>1. [l EXCEPT !.stored = FALSE] \in Stored
  BY DEF Stored
<1>2. [l EXCEPT !.stored = FALSE].sign_in = l.sign_in
  BY DEF Stored
<1>3. [l EXCEPT !.stored = FALSE].stored = FALSE
  BY DEF Stored
<1>4. l.sign_in \in Nat
  BY DEF Stored
<1> QED
  BY <1>1, <1>2, <1>3, <1>4 DEF Successor

LEMMA SuccessorVerified ==
  ASSUME NEW w \in Worker, NEW s \in Slot, LoginInv,
         NEW l \in Verified(w, s) \cup SignedIn(s)
  PROVE  Successor(login[s], l)
<1>0. login[s] \in Stored
  BY DEF LoginInv
<1>1. CASE l = login[s]
  BY <1>0, <1>1, SuccessorSame
<1>2. CASE login[s] = opened[w] /\ l = Renewed(w)
  BY <1>0, <1>2, SuccessorRenewed
<1>3. CASE l = Signed(s)
  BY <1>0, <1>3, SuccessorSigned
<1> QED
  BY <1>1, <1>2, <1>3 DEF Verified, SignedIn

\* One slot's session is replaced by a successor; the others stay.
LEMMA ReplaceOne ==
  ASSUME LoginInv, NEW s, NEW l,
         s \in Slot => Successor(login[s], l),
         login' = [login EXCEPT ![s] = l]
  PROVE  Kept
<1>1. ASSUME NEW r \in Slot
      PROVE  Successor(login[r], login'[r])
  <2>1. CASE r = s
    BY <2>1 DEF LoginInv
  <2>2. CASE r # s
    BY <2>2, SuccessorSame DEF LoginInv
  <2> QED
    BY <2>1, <2>2
<1>2. LoginInv'
  BY <1>1 DEF LoginInv, Successor
<1> QED
  BY <1>1, <1>2 DEF Kept

LEMMA ReplaceNone ==
  ASSUME LoginInv, UNCHANGED login
  PROVE  Kept
BY SuccessorSame DEF LoginInv, Kept

LEMMA RenewKeeps ==
  ASSUME LoginInv, NEW w \in Worker, Renew(w)
  PROVE  Kept
<1>1. login' = [login EXCEPT ![at[w]] = Renewed(w)] /\ login[at[w]] = opened[w]
  BY DEF Renew, Renewable
<1>2. at[w] \in Slot => Successor(login[at[w]], Renewed(w))
  BY <1>1, SuccessorRenewed DEF LoginInv
<1> QED
  BY <1>1, <1>2, ReplaceOne

LEMMA InPlaceKeeps ==
  ASSUME LoginInv, NEW w \in Worker, InPlace(w)
  PROVE  Kept
<1>1. CASE \E l \in Verified(w, at[w]) \cup SignedIn(at[w]) : login' = [login EXCEPT ![at[w]] = l]
  BY <1>1, SuccessorVerified, ReplaceOne
<1>2. CASE UNCHANGED login
  BY <1>2, ReplaceNone
<1> QED
  BY <1>1, <1>2 DEF InPlace, rows

LEMMA RecoverKeeps ==
  ASSUME LoginInv, NEW w \in Worker, Recover(w)
  PROVE  Kept
<1>1. CASE \E l \in Verified(w, at[w]) \cup SignedIn(at[w]) : login' = [login EXCEPT ![at[w]] = l]
  BY <1>1, SuccessorVerified, ReplaceOne
<1>2. CASE UNCHANGED login
  BY <1>2, ReplaceNone
<1> QED
  BY <1>1, <1>2 DEF Recover, rows

LEMMA LoginKeeps ==
  ASSUME LoginInv, NEW w \in Worker, CompleteLogin(w)
  PROVE  Kept
<1>1. CASE login' = [login EXCEPT ![at[w]] = Signed(at[w])]
  BY <1>1, SuccessorSigned, ReplaceOne DEF LoginInv
<1>2. CASE UNCHANGED login
  BY <1>2, ReplaceNone
<1> QED
  BY <1>1, <1>2 DEF CompleteLogin, rows

\* A cleared slot's session is no longer stored; an admin brings none back.
LEMMA AdminSlotKeeps ==
  ASSUME LoginInv, NEW s \in Slot, AdminSlot(s)
  PROVE  Kept
<1>1. PICK to \in {"PAUSED", "ACTIVE", "EMPTY"} :
        login' = [login EXCEPT ![s].stored = @ /\ to # "EMPTY"]
  BY DEF AdminSlot
<1>2. login' = [login EXCEPT ![s] = [login[s] EXCEPT !.stored = @ /\ to # "EMPTY"]]
  BY <1>1
<1>3. Successor(login[s], [login[s] EXCEPT !.stored = @ /\ to # "EMPTY"])
  <2>1. login[s] \in Stored
    BY DEF LoginInv
  <2>2. CASE to = "EMPTY"
    <3>1. (login[s].stored /\ to # "EMPTY") = FALSE
      BY <2>2
    <3>2. Successor(login[s], [login[s] EXCEPT !.stored = FALSE])
      BY <2>1, SuccessorCleared
    <3> QED
      BY <3>1, <3>2
  <2>3. CASE to # "EMPTY"
    <3>1. (login[s].stored /\ to # "EMPTY") = login[s].stored
      BY <2>1, <2>3 DEF Stored
    <3>2. [login[s] EXCEPT !.stored = login[s].stored] = login[s]
      BY <2>1 DEF Stored
    <3> QED
      BY <2>1, <3>1, <3>2, SuccessorSame
  <2> QED
    BY <2>2, <2>3
<1> QED
  BY <1>2, <1>3, ReplaceOne

LEMMA StepKeeps ==
  ASSUME LoginInv, [Next]_vars
  PROVE  Kept
<1>1. CASE UNCHANGED login
  BY <1>1, ReplaceNone
<1>2. CASE \E w \in Worker : Renew(w) \/ InPlace(w) \/ Recover(w) \/ CompleteLogin(w)
  BY <1>2, RenewKeeps, InPlaceKeeps, RecoverKeeps, LoginKeeps
<1>3. CASE \E s \in Slot : AdminSlot(s)
  BY <1>3, AdminSlotKeeps
<1>4. ASSUME NEW w \in Worker, Job(w), ~Renew(w), ~InPlace(w)
      PROVE  UNCHANGED login
  <2>1. CASE Start(w) \/ Choose(w) \/ Mapped(w) \/ Charge(w) \/ Finish(w) \/ EndJob(w)
    BY <2>1 DEF Start, Choose, Mapped, Charge, Finish, EndJob, rows
  <2>2. CASE \E why \in Reasons : Fail(w, why)
    BY <2>2 DEF Fail, rows
  <2> QED
    BY <1>4, <2>1, <2>2 DEF Job
<1>5. ASSUME NEW w \in Worker, Pass(w) \/ Login(w), ~Recover(w), ~CompleteLogin(w)
      PROVE  UNCHANGED login
  BY <1>5 DEF Pass, Login, StartPass, Visit, Release, Resume, EndPass, StartLogin, CheckLogin, rows
<1>6. CASE Admin \/ UNCHANGED vars
  BY <1>6, ReplaceNone DEF Admin, vars, rows
<1> QED
  BY <1>1, <1>2, <1>3, <1>4, <1>5, <1>6 DEF Next

\* No stale browser's cookies ever replace a later login, and a session an administrator cleared
\* comes back only by signing in again: for any number of jobs, passes, operators and slots.
THEOREM LoginsKept == Spec => RenewalKeepsLogin
<1>1. Init => LoginInv
  BY DEF Init, LoginInv, Stored
<1>2. LoginInv /\ [Next]_vars => LoginInv'
  BY StepKeeps DEF Kept
<1>3. LoginInv /\ [Next]_vars =>
        \A s \in Slot :
          /\ login'[s].sign_in >= login[s].sign_in
          /\ login'[s].stored /\ ~login[s].stored => login'[s].sign_in > login[s].sign_in
  BY StepKeeps DEF Kept, Successor
<1> QED
  BY <1>1, <1>2, <1>3, PTL DEF Spec, RenewalKeepsLogin
--------------------------------------------------------------------------------
(***************************************************************************)
(* Types.  What a session does to its rows keeps it a session, and a       *)
(* worker that has a browser, or is about to open one, works on a slot.    *)
(***************************************************************************)
RowType   == [state : SourceStates, admin : BOOLEAN]
WriteType == [source : SourceStates \cup {None}, slot : [Slot -> SlotStates \cup {None}]]
Sessions  == [row : RowType, wrote : WriteType]

Working == {"map", "work", "inplace", "recovering", "signing", "checking"}

Typed == TypeOK /\ \A w \in Worker : pc[w] \in Working => at[w] \in Slot

\* A session with another state of its row, and of what it writes of the source and of a slot.
LEMMA SessionWith ==
  ASSUME NEW x \in Sessions
  PROVE  /\ \A v \in SourceStates : [x EXCEPT !.row.state = v] \in Sessions
         /\ \A v \in BOOLEAN : [x EXCEPT !.row.admin = v] \in Sessions
         /\ \A v \in SourceStates : [x EXCEPT !.wrote.source = v] \in Sessions
         /\ \A s \in Slot, v \in SlotStates : [x EXCEPT !.wrote.slot[s] = v] \in Sessions
<1>1. x.row \in RowType /\ x.wrote \in WriteType
  BY DEF Sessions
<1>2. /\ \A v \in SourceStates : [x.row EXCEPT !.state = v] \in RowType
      /\ \A v \in BOOLEAN : [x.row EXCEPT !.admin = v] \in RowType
  BY <1>1 DEF RowType
<1>3. \A v \in SourceStates : [x.wrote EXCEPT !.source = v] \in WriteType
  BY <1>1 DEF WriteType
<1>4. ASSUME NEW s \in Slot, NEW v \in SlotStates
      PROVE  [x.wrote EXCEPT !.slot[s] = v] \in WriteType
  <2>1. [x.wrote.slot EXCEPT ![s] = v] \in [Slot -> SlotStates \cup {None}]
    BY <1>1 DEF WriteType
  <2> QED
    BY <1>1, <2>1 DEF WriteType
<1> QED
  BY <1>1, <1>2, <1>3, <1>4 DEF Sessions

LEMMA SessionType ==
  ASSUME TypeOK, NEW w \in Worker
  PROVE  SessionOf(w) \in Sessions
BY DEF TypeOK, SessionOf, Sessions, RowType, WriteType

LEMMA PausingType ==
  ASSUME NEW x \in Sessions
  PROVE  Pausing(x) \in Sessions
<1> DEFINE y == [x EXCEPT !.row.state = "PAUSED"]
<1>1. y \in Sessions
  BY SessionWith DEF SourceStates
<1>2. [y EXCEPT !.wrote.source = "PAUSED"] \in Sessions
  BY <1>1, SessionWith DEF SourceStates
<1> QED
  BY <1>2 DEF Pausing

LEMMA ResumingType ==
  ASSUME NEW x \in Sessions
  PROVE  Resuming(x) \in Sessions
<1> DEFINE y == [x EXCEPT !.row.state = "ACTIVE"]
<1>1. y \in Sessions
  BY SessionWith DEF SourceStates
<1>2. [y EXCEPT !.wrote.source = "ACTIVE"] \in Sessions
  BY <1>1, SessionWith DEF SourceStates
<1> QED
  BY <1>2 DEF Resuming

LEMMA HaltingType ==
  ASSUME NEW x \in Sessions, NEW s \in Slot, NEW as \in Halts
  PROVE  Halting(x, s, as) \in Sessions
<1> DEFINE y == [x EXCEPT !.row.state = "HALTED"]
           z == [y EXCEPT !.wrote.source = "HALTED"]
<1>1. y \in Sessions
  BY SessionWith DEF SourceStates
<1>2. z \in Sessions
  BY <1>1, SessionWith DEF SourceStates
<1>3. [z EXCEPT !.wrote.slot[s] = as] \in Sessions
  BY <1>2, SessionWith DEF SlotStates
<1> QED
  BY <1>3 DEF Halting

LEMMA MarkingType ==
  ASSUME NEW w \in Worker, NEW x \in Sessions, NEW s \in Slot
  PROVE  Marking(w, x, s) \in Sessions
<1>1. [x EXCEPT !.wrote.slot[s] = "NEEDS_HUMAN_LOGIN"] \in Sessions
  BY SessionWith DEF SlotStates
<1> QED
  BY <1>1, PausingType DEF Marking

LEMMA ActivatingType ==
  ASSUME NEW x \in Sessions, NEW s \in Slot
  PROVE  Activating(x, s) \in Sessions
<1>1. [x EXCEPT !.wrote.slot[s] = "ACTIVE"] \in Sessions
  BY SessionWith DEF SlotStates
<1> QED
  BY <1>1, ResumingType DEF Activating

\* A flush and a commit of a session keep the rows within their types.
LEMMA FlushType ==
  ASSUME TypeOK, NEW w \in Worker, NEW x \in Sessions, Flush(w, x)
  PROVE  row' \in [Worker -> RowType] /\ wrote' \in [Worker -> WriteType]
BY DEF TypeOK, Flush, Sessions, RowType, WriteType

LEMMA NoWritesType == NoWrites \in WriteType
BY DEF NoWrites, WriteType

LEMMA CommitType ==
  ASSUME TypeOK, NEW w \in Worker, NEW x \in Sessions, Commit(w, x)
  PROVE  /\ source' \in [state : SourceStates, admin : BOOLEAN, review : BOOLEAN]
         /\ slot' \in [Slot -> SlotStates]
         /\ wrote' \in [Worker -> WriteType]
<1>1. x.wrote.source \in SourceStates \cup {None} /\ x.wrote.slot \in [Slot -> SlotStates \cup {None}]
  BY DEF Sessions, WriteType
<1>2. source' \in [state : SourceStates, admin : BOOLEAN, review : BOOLEAN]
  BY <1>1 DEF Commit, Committed, TypeOK
<1>3. slot' \in [Slot -> SlotStates]
  BY <1>1 DEF Commit, TypeOK
<1>4. wrote' \in [Worker -> WriteType]
  BY NoWritesType DEF Commit, TypeOK, WriteType
<1> QED
  BY <1>2, <1>3, <1>4

LEMMA LeaveType ==
  ASSUME Typed, NEW w \in Worker, Leave(w)
  PROVE  /\ row' \in [Worker -> RowType]
         /\ seen' \in [Worker -> [Slot -> [state : SlotStates, login : Logins \cup {None}]]]
         /\ pc' \in [Worker -> Labels] /\ at' \in [Worker -> Slot \cup {None}]
         /\ opened' \in [Worker -> Logins \cup {None}] /\ retried' \in [Worker -> BOOLEAN]
         /\ \A v \in Worker : pc'[v] \in Working => at'[v] \in Slot
<1>1. NoSlots \in [Slot -> [state : SlotStates, login : Logins \cup {None}]]
  BY DEF NoSlots, SlotStates
<1>2. NoRow \in RowType
  BY DEF NoRow, RowType, SourceStates
<1>3. pc' \in [Worker -> Labels] /\ at' \in [Worker -> Slot \cup {None}]
  BY DEF Leave, Goto, Typed, TypeOK, Labels
<1>4. \A v \in Worker : pc'[v] \in Working => at'[v] \in Slot
  BY DEF Leave, Goto, Typed, TypeOK, Working
<1> QED
  BY <1>1, <1>2, <1>3, <1>4 DEF Leave, Typed, TypeOK, RowType

\* A worker that goes on with the slot it works on, or to where it needs none.
LEMMA GotoType ==
  ASSUME Typed, NEW w \in Worker, NEW l \in Labels, Goto(w, l), UNCHANGED at,
         l \in Working => at[w] \in Slot
  PROVE  /\ pc' \in [Worker -> Labels]
         /\ \A v \in Worker : pc'[v] \in Working => at'[v] \in Slot
BY DEF Typed, TypeOK, Goto

\* A worker that takes a slot to work on.
LEMMA TakeType ==
  ASSUME Typed, NEW w \in Worker, NEW s \in Slot, NEW l \in Labels, Goto(w, l), at' = [at EXCEPT ![w] = s]
  PROVE  /\ pc' \in [Worker -> Labels] /\ at' \in [Worker -> Slot \cup {None}]
         /\ \A v \in Worker : pc'[v] \in Working => at'[v] \in Slot
BY DEF Typed, TypeOK, Goto

\* The stored sessions a recovery leaves are logins.
LEMMA LoginType ==
  ASSUME Typed, NEW w \in Worker, NEW s \in Slot
  PROVE  /\ login[s] \in Logins /\ Verified(w, s) \subseteq Logins /\ SignedIn(s) \subseteq Logins
         /\ login[s] = opened[w] => Renewed(w) \in Logins
<1>1. login[s] \in Logins
  BY DEF Typed, TypeOK
<1>2. login[s] = opened[w] => Renewed(w) \in Logins
  BY <1>1 DEF Renewed, Logins
<1>3. login[s].sign_in < MaxLogins => Signed(s) \in Logins
  BY <1>1, LoginsAssumption DEF Signed, Logins
<1> QED
  BY <1>1, <1>2, <1>3 DEF Verified, SignedIn

Below == {p \in Nat \X Nat : p[1] < p[2]}

LEMMA FirstType ==
  ASSUME Typed, NEW w \in Worker, todo[w] # {}
  PROVE  First(todo[w]) \in todo[w] /\ First(todo[w]) \in Slot
<1>1. todo[w] \subseteq Nat /\ todo[w] \subseteq Slot
  BY SlotAssumption DEF Typed, TypeOK
<1>2. IsWellFoundedOn(Below, Nat)
  BY NatLessThanWellFounded, Zenon DEF OpToRel, Below
<1>3. PICK s \in todo[w] : \A r \in todo[w] : <<r, s>> \notin Below
  BY <1>1, <1>2, WFMin
<1>4. ASSUME NEW r \in todo[w]
      PROVE  s <= r
  <2>1. ~(r < s)
    BY <1>1, <1>3 DEF Below
  <2> QED
    BY <1>1, <2>1
<1> QED
  BY <1>1, <1>3, <1>4 DEF First

LEMMA JobTyped ==
  ASSUME Typed, NEW w \in Worker, Job(w)
  PROVE  Typed'
<1>1. CASE Start(w)
  <2>1. row' \in [Worker -> RowType]
    BY <1>1 DEF Start, Typed, TypeOK, RowType, SourceStates
  <2>2. UNCHANGED at /\ Goto(w, "choose")
    BY <1>1 DEF Start
  <2> QED
    BY <1>1, <2>1, <2>2, GotoType DEF Start, rows, Typed, TypeOK, RowType, Labels, Working
<1>2. CASE Choose(w)
  <2>1. ASSUME NEW s \in Candidates(w), at' = [at EXCEPT ![w] = s], opened' = [opened EXCEPT ![w] = login[s]],
               Goto(w, IF Kind[w] = "grid" THEN "map" ELSE "work"), UNCHANGED <<rows, session, retried, todo>>
        PROVE  Typed'
    <3>1. s \in Slot
      BY DEF Candidates
    <3>2. opened' \in [Worker -> Logins \cup {None}]
      BY <2>1, <3>1 DEF Typed, TypeOK
    <3> QED
      BY <2>1, <3>1, <3>2, TakeType DEF rows, session, Typed, TypeOK, Labels
  <2>2. CASE Flush(w, Pausing(SessionOf(w))) /\ Goto(w, "commit") /\ UNCHANGED <<rows, seen, at, opened, retried, todo>>
    <3>1. Pausing(SessionOf(w)) \in Sessions
      BY SessionType, PausingType DEF Typed
    <3> QED
      BY <2>2, <3>1, FlushType, GotoType DEF rows, Typed, TypeOK, RowType, WriteType, Labels, Working
  <2>3. CASE Leave(w) /\ UNCHANGED <<rows, wrote, todo>>
    BY <2>3, LeaveType DEF rows, Typed, TypeOK, RowType
  <2> QED
    BY <1>2, <2>1, <2>2, <2>3 DEF Choose
<1>3. CASE Mapped(w) \/ Finish(w)
  <2>1. UNCHANGED <<rows, session, at, opened, retried, todo>> /\ (Goto(w, "work") \/ Goto(w, "commit")) /\ at[w] \in Slot
    BY <1>3 DEF Mapped, Finish, At, Typed, Working
  <2> QED
    BY <2>1, GotoType DEF rows, session, Typed, TypeOK, Labels
<1>4. CASE Charge(w)
  <2>1. row' \in [Worker -> RowType]
    BY <1>4 DEF Charge, Typed, TypeOK, RowType
  <2> QED
    BY <1>4, <2>1 DEF Charge, rows, worker, Typed, TypeOK, RowType
<1>5. CASE Renew(w)
  <2>1. at[w] \in Slot
    BY <1>5 DEF Renew, At, Typed, Working
  <2>2. Renewed(w) \in Logins
    BY <1>5, <2>1, LoginType DEF Renew, Renewable
  <2> QED
    BY <1>5, <2>1, <2>2 DEF Renew, session, Typed, TypeOK
<1>6. ASSUME NEW why \in Reasons, Fail(w, why)
      PROVE  Typed'
  <2>1. at[w] \in Slot
    BY <1>6 DEF Fail, At, Typed, Working
  <2>2. /\ SessionOf(w) \in Sessions /\ Marking(w, SessionOf(w), at[w]) \in Sessions
        /\ \A as \in Halts : Halting(SessionOf(w), at[w], as) \in Sessions
    BY <2>1, SessionType, MarkingType, HaltingType DEF Typed
  <2>3. PICK x \in Sessions : Flush(w, x)
    BY <1>6, <2>2 DEF Fail, Halts
  <2>4. PICK l \in {"inplace", "commit", "rollback"} : Goto(w, l)
    BY <1>6 DEF Fail
  <2>5. row' \in [Worker -> RowType] /\ wrote' \in [Worker -> WriteType]
    BY <2>3, FlushType DEF Typed
  <2>6. UNCHANGED <<rows, seen, at, opened, retried, todo>>
    BY <1>6 DEF Fail
  <2>7. pc' \in [Worker -> Labels] /\ \A v \in Worker : pc'[v] \in Working => at'[v] \in Slot
    BY <2>1, <2>4, <2>6, GotoType DEF Labels
  <2> QED
    BY <2>5, <2>6, <2>7 DEF rows, Typed, TypeOK, RowType, WriteType
<1>7. CASE InPlace(w)
  <2> DEFINE s == at[w]
  <2>1. s \in Slot
    BY <1>7 DEF InPlace, At, Typed, Working
  <2>2. Activating(SessionOf(w), s) \in Sessions /\ Halting(SessionOf(w), s, "HALTED") \in Sessions
    BY <2>1, SessionType, HaltingType, ActivatingType DEF Typed, Halts
  <2>3. UNCHANGED <<seen, at, todo>>
    BY <1>7 DEF InPlace
  <2>4. ASSUME NEW l \in Verified(w, s) \cup SignedIn(s),
               Commit(w, Activating(SessionOf(w), s)),
               row' = [row EXCEPT ![w] = Activating(SessionOf(w), s).row],
               login' = [login EXCEPT ![s] = l],
               opened' = [opened EXCEPT ![w] = IF l.stored THEN l ELSE @],
               retried' = [retried EXCEPT ![w] = TRUE], Goto(w, "map")
        PROVE  Typed'
    <3>1. l \in Logins
      BY <2>1, LoginType
    <3>2. /\ source' \in [state : SourceStates, admin : BOOLEAN, review : BOOLEAN]
          /\ slot' \in [Slot -> SlotStates] /\ wrote' \in [Worker -> WriteType]
      BY <2>2, <2>4, CommitType DEF Typed
    <3>3. row' \in [Worker -> RowType]
      BY <2>2, <2>4 DEF Typed, TypeOK, Sessions, RowType
    <3>4. login' \in [Slot -> Logins] /\ opened' \in [Worker -> Logins \cup {None}] /\ retried' \in [Worker -> BOOLEAN]
      BY <2>1, <2>4, <3>1 DEF Typed, TypeOK
    <3>5. pc' \in [Worker -> Labels] /\ \A v \in Worker : pc'[v] \in Working => at'[v] \in Slot
      BY <2>1, <2>3, <2>4, GotoType DEF Labels
    <3> QED
      BY <2>3, <3>2, <3>3, <3>4, <3>5 DEF Typed, TypeOK, RowType, WriteType
  <2>5. CASE Flush(w, Halting(SessionOf(w), s, "HALTED")) /\ Goto(w, "commit") /\ UNCHANGED <<rows, opened, retried>>
    <3>1. row' \in [Worker -> RowType] /\ wrote' \in [Worker -> WriteType]
      BY <2>2, <2>5, FlushType DEF Typed
    <3>2. pc' \in [Worker -> Labels] /\ \A v \in Worker : pc'[v] \in Working => at'[v] \in Slot
      BY <2>1, <2>3, <2>5, GotoType DEF Labels
    <3> QED
      BY <2>3, <2>5, <3>1, <3>2 DEF rows, Typed, TypeOK, RowType, WriteType
  <2>6. CASE Goto(w, "commit") /\ UNCHANGED <<rows, row, wrote, opened, retried>>
    <3>1. pc' \in [Worker -> Labels] /\ \A v \in Worker : pc'[v] \in Working => at'[v] \in Slot
      BY <2>1, <2>3, <2>6, GotoType DEF Labels
    <3> QED
      BY <2>3, <2>6, <3>1 DEF rows, Typed, TypeOK
  <2> QED
    BY <1>7, <2>4, <2>5, <2>6 DEF InPlace
<1>8. CASE EndJob(w)
  <2>1. /\ source' \in [state : SourceStates, admin : BOOLEAN, review : BOOLEAN]
        /\ slot' \in [Slot -> SlotStates] /\ wrote' \in [Worker -> WriteType]
    <3>1. CASE Commit(w, SessionOf(w))
      BY <3>1, SessionType, CommitType DEF Typed
    <3>2. CASE wrote' = [wrote EXCEPT ![w] = NoWrites] /\ UNCHANGED <<source, slot>>
      BY <3>2, NoWritesType DEF Typed, TypeOK, WriteType
    <3> QED
      BY <1>8, <3>1, <3>2 DEF EndJob
  <2>2. Leave(w) /\ UNCHANGED <<login, todo>>
    BY <1>8 DEF EndJob
  <2> QED
    BY <2>1, <2>2, LeaveType DEF Typed, TypeOK, RowType, WriteType
<1> QED
  BY <1>1, <1>2, <1>3, <1>4, <1>5, <1>6, <1>7, <1>8 DEF Job

LEMMA BetweenType ==
  ASSUME Typed, NEW w \in Worker, Between(w)
  PROVE  /\ pc' \in [Worker -> Labels] /\ at' \in [Worker -> Slot \cup {None}]
         /\ opened' \in [Worker -> Logins \cup {None}]
         /\ \A v \in Worker : pc'[v] \in Working => at'[v] \in Slot
BY DEF Typed, TypeOK, Between, Goto, Labels, Working

LEMMA PassTyped ==
  ASSUME Typed, NEW w \in Worker, Pass(w)
  PROVE  Typed'
<1>1. CASE StartPass(w)
  <2>1. row' \in [Worker -> RowType]
    BY <1>1 DEF StartPass, Typed, TypeOK, RowType
  <2>2. seen' \in [Worker -> [Slot -> [state : SlotStates, login : Logins \cup {None}]]]
    <3>1. [s \in Slot |-> [state |-> slot[s], login |-> login[s]]]
            \in [Slot -> [state : SlotStates, login : Logins \cup {None}]]
      BY DEF Typed, TypeOK
    <3> QED
      BY <1>1, <3>1 DEF StartPass, Typed, TypeOK
  <2>3. pc' \in [Worker -> Labels] /\ \A v \in Worker : pc'[v] \in Working => at'[v] \in Slot
    BY <1>1, GotoType DEF StartPass, Labels, Working
  <2> QED
    BY <1>1, <2>1, <2>2, <2>3 DEF StartPass, rows, Typed, TypeOK, RowType
<1>2. CASE Visit(w)
  <2> DEFINE s == First(todo[w])
  <2>1. s \in Slot
    BY <1>2, FirstType DEF Visit
  <2>2. todo' \in [Worker -> SUBSET Slot]
    BY <1>2 DEF Visit, Typed, TypeOK
  <2>3. CASE UNCHANGED <<at, opened, pc>>
    BY <1>2, <2>2, <2>3 DEF Visit, rows, session, Typed, TypeOK
  <2>4. CASE at' = [at EXCEPT ![w] = s] /\ opened' = [opened EXCEPT ![w] = seen[w][s].login] /\ Goto(w, "recovering")
    <3>1. opened' \in [Worker -> Logins \cup {None}]
      BY <2>1, <2>4 DEF Typed, TypeOK
    <3>2. /\ pc' \in [Worker -> Labels] /\ at' \in [Worker -> Slot \cup {None}]
          /\ \A v \in Worker : pc'[v] \in Working => at'[v] \in Slot
      BY <2>1, <2>4, TakeType DEF Labels
    <3> QED
      BY <1>2, <2>2, <3>1, <3>2 DEF Visit, rows, session, Typed, TypeOK
  <2> QED
    BY <1>2, <2>3, <2>4 DEF Visit
<1>3. CASE Recover(w)
  <2> DEFINE s == at[w]
             x == Activating(SessionOf(w), s)
  <2>1. s \in Slot
    BY <1>3 DEF Recover, At, Typed, Working
  <2>2. x \in Sessions /\ Halting(SessionOf(w), s, "HALTED") \in Sessions /\ SessionOf(w) \in Sessions
    BY <2>1, SessionType, HaltingType, ActivatingType DEF Typed, Halts
  <2>3. ASSUME NEW l \in Verified(w, s) \cup SignedIn(s), Commit(w, x),
               row' = [row EXCEPT ![w] = x.row], login' = [login EXCEPT ![s] = l],
               seen' = [seen EXCEPT ![w][s].state = "ACTIVE"], Between(w), UNCHANGED <<retried, todo>>
        PROVE  Typed'
    <3>1. l \in Logins
      BY <2>1, LoginType
    <3>2. /\ source' \in [state : SourceStates, admin : BOOLEAN, review : BOOLEAN]
          /\ slot' \in [Slot -> SlotStates] /\ wrote' \in [Worker -> WriteType]
      BY <2>2, <2>3, CommitType DEF Typed
    <3>3. row' \in [Worker -> RowType]
      BY <2>2, <2>3 DEF Typed, TypeOK, Sessions, RowType
    <3>4. login' \in [Slot -> Logins]
      BY <2>1, <2>3, <3>1 DEF Typed, TypeOK
    <3>5. seen' \in [Worker -> [Slot -> [state : SlotStates, login : Logins \cup {None}]]]
      <4>1. [seen[w][s] EXCEPT !.state = "ACTIVE"] \in [state : SlotStates, login : Logins \cup {None}]
        <5>1. seen[w][s] \in [state : SlotStates, login : Logins \cup {None}]
          BY <2>1 DEF Typed, TypeOK
        <5> QED
          BY <5>1 DEF SlotStates
      <4>2. [seen[w] EXCEPT ![s].state = "ACTIVE"] \in [Slot -> [state : SlotStates, login : Logins \cup {None}]]
        BY <2>1, <4>1 DEF Typed, TypeOK
      <4> QED
        BY <2>3, <4>2 DEF Typed, TypeOK
    <3> QED
      BY <2>3, <3>2, <3>3, <3>4, <3>5, BetweenType DEF Typed, TypeOK, RowType, WriteType
  <2>4. CASE Commit(w, Halting(SessionOf(w), s, "HALTED")) /\ Leave(w) /\ todo' = [todo EXCEPT ![w] = {}] /\ UNCHANGED login
    <3>1. /\ source' \in [state : SourceStates, admin : BOOLEAN, review : BOOLEAN]
          /\ slot' \in [Slot -> SlotStates] /\ wrote' \in [Worker -> WriteType]
      BY <2>2, <2>4, CommitType DEF Typed
    <3>2. todo' \in [Worker -> SUBSET Slot]
      BY <2>4 DEF Typed, TypeOK
    <3> QED
      BY <2>4, <3>1, <3>2, LeaveType DEF Typed, TypeOK, RowType, WriteType
  <2>5. CASE /\ Commit(w, SessionOf(w)) /\ row' = [row EXCEPT ![w].admin = source.admin]
             /\ Between(w) /\ UNCHANGED <<login, seen, retried, todo>>
    <3>1. row' \in [Worker -> RowType]
      BY <2>5 DEF Typed, TypeOK, RowType
    <3>2. /\ source' \in [state : SourceStates, admin : BOOLEAN, review : BOOLEAN]
          /\ slot' \in [Slot -> SlotStates] /\ wrote' \in [Worker -> WriteType]
      BY <2>2, <2>5, CommitType DEF Typed
    <3> QED
      BY <2>5, <3>1, <3>2, BetweenType DEF Typed, TypeOK, RowType, WriteType
  <2> QED
    BY <1>3, <2>3, <2>4, <2>5 DEF Recover
<1>4. CASE Resume(w)
  <2>1. Resuming(SessionOf(w)) \in Sessions
    BY SessionType, ResumingType DEF Typed
  <2>2. /\ source' \in [state : SourceStates, admin : BOOLEAN, review : BOOLEAN]
        /\ slot' \in [Slot -> SlotStates] /\ wrote' \in [Worker -> WriteType]
    BY <1>4, <2>1, CommitType DEF Resume, Typed
  <2> QED
    BY <1>4, <2>2, LeaveType DEF Resume, Typed, TypeOK, RowType, WriteType
<1>5. CASE EndPass(w)
  BY <1>5, LeaveType DEF EndPass, rows, Typed, TypeOK, RowType
<1>6. CASE Release(w)
  <2> DEFINE s == First(todo[w])
             x == [SessionOf(w) EXCEPT !.wrote.slot[s] = "NEEDS_HUMAN_LOGIN"]
  <2>1. s \in Slot
    BY <1>6, FirstType DEF Release
  <2>2. x \in Sessions
    BY <2>1, SessionType, SessionWith DEF Typed, SlotStates
  <2>3. todo' \in [Worker -> SUBSET Slot]
    BY <1>6 DEF Release, Typed, TypeOK
  <2>4. seen' \in [Worker -> [Slot -> [state : SlotStates, login : Logins \cup {None}]]]
    <3>1. [seen[w][s] EXCEPT !.state = "NEEDS_HUMAN_LOGIN"] \in [state : SlotStates, login : Logins \cup {None}]
      <4>1. seen[w][s] \in [state : SlotStates, login : Logins \cup {None}]
        BY <2>1 DEF Typed, TypeOK
      <4> QED
        BY <4>1 DEF SlotStates
    <3>2. seen' = [seen EXCEPT ![w][s].state = "NEEDS_HUMAN_LOGIN"]
      BY <1>6 DEF Release
    <3> QED
      BY <2>1, <3>1, <3>2 DEF Typed, TypeOK
  <2>5. UNCHANGED <<login, retried>>
    BY <1>6 DEF Release
  <2> HIDE DEF s, x
  <2>6. CASE /\ Flush(w, x) /\ at' = [at EXCEPT ![w] = s] /\ opened' = [opened EXCEPT ![w] = seen[w][s].login]
             /\ Goto(w, "recovering") /\ UNCHANGED <<source, slot>>
    <3>1. opened' \in [Worker -> Logins \cup {None}]
      BY <2>1, <2>6 DEF Typed, TypeOK
    <3>2. /\ pc' \in [Worker -> Labels] /\ at' \in [Worker -> Slot \cup {None}]
          /\ \A v \in Worker : pc'[v] \in Working => at'[v] \in Slot
      BY <2>1, <2>6, TakeType DEF Labels
    <3>3. row' \in [Worker -> RowType] /\ wrote' \in [Worker -> WriteType]
      BY <2>2, <2>6, FlushType DEF Typed
    <3> QED
      BY <2>3, <2>4, <2>5, <2>6, <3>1, <3>2, <3>3 DEF Typed, TypeOK, RowType, WriteType
  <2>7. CASE Commit(w, x) /\ UNCHANGED <<row, at, opened, pc>>
    <3>1. /\ source' \in [state : SourceStates, admin : BOOLEAN, review : BOOLEAN]
          /\ slot' \in [Slot -> SlotStates] /\ wrote' \in [Worker -> WriteType]
      BY <2>2, <2>7, CommitType DEF Typed
    <3> QED
      BY <2>3, <2>4, <2>5, <2>7, <3>1 DEF Typed, TypeOK, RowType, WriteType
  <2> QED
    BY <1>6, <2>6, <2>7 DEF Release, s, x
<1> QED
  BY <1>1, <1>2, <1>3, <1>4, <1>5, <1>6 DEF Pass

LEMMA LoginTyped ==
  ASSUME Typed, NEW w \in Worker, Login(w)
  PROVE  Typed'
<1>1. CASE StartLogin(w)
  <2>1. /\ pc' \in [Worker -> Labels] /\ at' \in [Worker -> Slot \cup {None}]
        /\ \A v \in Worker : pc'[v] \in Working => at'[v] \in Slot
    BY <1>1, TakeType DEF StartLogin, Labels
  <2> QED
    BY <1>1, <2>1 DEF StartLogin, rows, session, Typed, TypeOK
<1>2. CASE CheckLogin(w)
  <2>1. row' \in [Worker -> RowType]
    BY <1>2 DEF CheckLogin, Typed, TypeOK, RowType
  <2>2. pc' \in [Worker -> Labels] /\ \A v \in Worker : pc'[v] \in Working => at'[v] \in Slot
    BY <1>2, GotoType DEF CheckLogin, Labels, At, Typed, Working
  <2> QED
    BY <1>2, <2>1, <2>2 DEF CheckLogin, rows, Typed, TypeOK, RowType
<1>3. CASE CompleteLogin(w)
  <2> DEFINE s == at[w]
             x == Activating([SessionOf(w) EXCEPT !.row.admin = FALSE], s)
  <2>1. s \in Slot
    BY <1>3 DEF CompleteLogin, At, Typed, Working
  <2>2. x \in Sessions
    <3>1. [SessionOf(w) EXCEPT !.row.admin = FALSE] \in Sessions
      BY SessionType, SessionWith DEF Typed
    <3> QED
      BY <2>1, <3>1, ActivatingType
  <2>3. UNCHANGED <<wrote, todo>> /\ Leave(w)
    BY <1>3 DEF CompleteLogin
  <2>4. CASE UNCHANGED rows
    BY <2>3, <2>4, LeaveType DEF rows, Typed, TypeOK, RowType
  <2>5. CASE /\ login[s].sign_in < MaxLogins
             /\ slot' = [slot EXCEPT ![s] = "ACTIVE"]
             /\ login' = [login EXCEPT ![s] = Signed(s)]
             /\ source' = [Committed(x) EXCEPT !.admin = @ /\ ~(row[w].state = "PAUSED" /\ row[w].admin)]
    <3>1. Signed(s) \in Logins
      BY <2>1, <2>5, LoginType DEF SignedIn
    <3>2. login' \in [Slot -> Logins] /\ slot' \in [Slot -> SlotStates]
      BY <2>1, <2>5, <3>1 DEF Typed, TypeOK, SlotStates
    <3>3. Committed(x) \in [state : SourceStates, admin : BOOLEAN, review : BOOLEAN]
      <4>1. x.wrote.source \in SourceStates \cup {None}
        BY <2>2 DEF Sessions, WriteType
      <4> HIDE DEF x
      <4> QED
        BY <4>1 DEF Committed, Typed, TypeOK
    <3>4. source' \in [state : SourceStates, admin : BOOLEAN, review : BOOLEAN]
      <4>1. \A y \in [state : SourceStates, admin : BOOLEAN, review : BOOLEAN], b \in BOOLEAN :
              [y EXCEPT !.admin = @ /\ ~b] \in [state : SourceStates, admin : BOOLEAN, review : BOOLEAN]
        OBVIOUS
      <4>2. (row[w].state = "PAUSED" /\ row[w].admin) \in BOOLEAN
        OBVIOUS
      <4> HIDE DEF x
      <4> QED
        BY <2>5, <3>3, <4>1, <4>2
    <3> QED
      BY <2>3, <3>2, <3>4, LeaveType DEF Typed, TypeOK, RowType
  <2> QED
    BY <1>3, <2>4, <2>5 DEF CompleteLogin
<1> QED
  BY <1>1, <1>2, <1>3 DEF Login

LEMMA AdminTyped ==
  ASSUME Typed, Admin \/ \E s \in Slot : AdminSlot(s)
  PROVE  Typed'
<1>1. CASE Admin
  <2>1. slot' \in [Slot -> SlotStates]
    BY <1>1 DEF Admin, Typed, TypeOK, SlotStates
  <2>2. source' \in [state : SourceStates, admin : BOOLEAN, review : BOOLEAN]
    <3>1. source \in [state : SourceStates, admin : BOOLEAN, review : BOOLEAN]
      BY DEF Typed, TypeOK
    <3>2. \A to \in SourceStates, b \in BOOLEAN :
            [source EXCEPT !.state = to, !.admin = b] \in [state : SourceStates, admin : BOOLEAN, review : BOOLEAN]
      BY <3>1
    <3>3. [state |-> "ACTIVE", admin |-> FALSE, review |-> FALSE]
            \in [state : SourceStates, admin : BOOLEAN, review : BOOLEAN]
      BY DEF SourceStates
    <3> QED
      BY <1>1, <3>2, <3>3 DEF Admin, SourceStates
  <2> QED
    BY <1>1, <2>1, <2>2 DEF Admin, session, worker, Typed, TypeOK
<1>2. ASSUME NEW s \in Slot, AdminSlot(s)
      PROVE  Typed'
  <2>1. PICK to \in {"PAUSED", "ACTIVE", "EMPTY"} :
          slot' = [slot EXCEPT ![s] = to] /\ login' = [login EXCEPT ![s].stored = @ /\ to # "EMPTY"]
    BY <1>2 DEF AdminSlot
  <2>2. slot' \in [Slot -> SlotStates]
    BY <2>1 DEF Typed, TypeOK, SlotStates
  <2>3. login' \in [Slot -> Logins]
    <3>1. login[s] \in Logins
      BY DEF Typed, TypeOK
    <3>2. [login[s] EXCEPT !.stored = @ /\ to # "EMPTY"] \in Logins
      BY <3>1 DEF Logins
    <3> QED
      BY <2>1, <3>2 DEF Typed, TypeOK
  <2> QED
    BY <1>2, <2>2, <2>3 DEF AdminSlot, session, worker, Typed, TypeOK
<1> QED
  BY <1>1, <1>2

LEMMA TypedAlways == Spec => []Typed
<1>1. Init => Typed
  <2>1. Init => NoWrites \in WriteType /\ NoSlots \in [Slot -> [state : SlotStates, login : Logins \cup {None}]]
    BY NoWritesType DEF NoSlots, SlotStates
  <2> QED
    BY <2>1, LoginsAssumption
    DEF Init, Typed, TypeOK, WriteType, NoRow, SourceStates, SlotStates, Logins, Labels, Working
<1>2. Typed /\ [Next]_vars => Typed'
  <2> SUFFICES ASSUME Typed, [Next]_vars
               PROVE  Typed'
    OBVIOUS
  <2>1. CASE UNCHANGED vars
    BY <2>1 DEF vars, rows, session, worker, Typed, TypeOK
  <2> QED
    BY <2>1, JobTyped, PassTyped, LoginTyped, AdminTyped DEF Next
<1> QED
  BY <1>1, <1>2, PTL DEF Spec

\* Whatever jobs, passes, operators and administrators do, the rows keep states of the source and of
\* its slots, and a worker with a browser works on a slot.
THEOREM TypeCorrect == Spec => []TypeOK
BY TypedAlways, PTL DEF Typed
--------------------------------------------------------------------------------
(***************************************************************************)
(* A slot halted for a block.  Jobs and recovery passes have the slot they *)
(* work on for themselves, so what they write in the end they write over   *)
(* the state they took it in, an operator's login, or a release.           *)
(***************************************************************************)
JobPlaces      == {"idle", "choose", "map", "work", "inplace", "commit", "rollback"}
PassPlaces     == {"idle", "scan", "recovering"}
OperatorPlaces == {"idle", "signing", "checking"}
Writing        == {"inplace", "commit", "rollback", "recovering"}

\* Where each kind of worker may be, and where it works on no slot.
PlaceInv ==
  \A w \in Worker :
    /\ Kind[w] \in Jobs => pc[w] \in JobPlaces
    /\ Kind[w] = "recovery" => pc[w] \in PassPlaces
    /\ Kind[w] = "operator" => pc[w] \in OperatorPlaces
    /\ pc[w] \in {"idle", "choose", "scan"} => at[w] = None

\* A session writes the row of the slot it works on alone, and halts it with the source.
WroteInv ==
  \A w \in Worker, s \in Slot :
    wrote[w].slot[s] # None =>
      /\ s = at[w] /\ pc[w] \in Writing
      /\ wrote[w].slot[s] = "HALTED" => wrote[w].source = "HALTED"

AloneInv ==
  \A v, w \in Worker :
    Kind[v] # "operator" /\ Kind[w] # "operator" /\ v # w /\ at[v] # None => at[v] # at[w]

\* No job works on a slot that a block has halted, and no pass on one that it read as halted.
JobInv == \A w \in Worker : Kind[w] \in Jobs /\ at[w] # None => slot[at[w]] # "HALTED"

PassInv == \A w \in Worker : pc[w] = "recovering" => seen[w][at[w]].state # "HALTED"

HaltInv == \A s \in Slot : slot[s] = "HALTED" => source.review

HaltedInv == PlaceInv /\ WroteInv /\ AloneInv /\ JobInv /\ PassInv /\ HaltInv

\* What each change of a session writes.
LEMMA SessionWrites ==
  ASSUME NEW x \in Sessions, NEW s \in Slot
  PROVE  /\ Pausing(x).wrote.slot = x.wrote.slot /\ Resuming(x).wrote.slot = x.wrote.slot
         /\ Activating(x, s).wrote.slot = [x.wrote.slot EXCEPT ![s] = "ACTIVE"]
         /\ [x EXCEPT !.wrote.slot[s] = "NEEDS_HUMAN_LOGIN"] \in Sessions
         /\ [x EXCEPT !.wrote.slot[s] = "NEEDS_HUMAN_LOGIN"].wrote.slot = [x.wrote.slot EXCEPT ![s] = "NEEDS_HUMAN_LOGIN"]
<1>1. \A y \in Sessions : Pausing(y).wrote.slot = y.wrote.slot /\ Resuming(y).wrote.slot = y.wrote.slot
  BY DEF Pausing, Resuming, Sessions, RowType, WriteType
<1>3. \A v \in SlotStates : /\ [x EXCEPT !.wrote.slot[s] = v] \in Sessions
                            /\ [x EXCEPT !.wrote.slot[s] = v].wrote.slot = [x.wrote.slot EXCEPT ![s] = v]
  BY SessionWith DEF Sessions, WriteType
<1>4. Activating(x, s).wrote.slot = [x.wrote.slot EXCEPT ![s] = "ACTIVE"]
  BY <1>1, <1>3 DEF Activating, SlotStates
<1> QED
  BY <1>1, <1>3, <1>4 DEF SlotStates

LEMMA HaltingWrites ==
  ASSUME NEW x \in Sessions, NEW s \in Slot, NEW as \in Halts
  PROVE  /\ Halting(x, s, as).wrote.source = "HALTED"
         /\ Halting(x, s, as).wrote.slot = [x.wrote.slot EXCEPT ![s] = as]
BY DEF Halting, Sessions, RowType, WriteType

\* A session that writes the row of one slot alone, and halts it with the source.
Local(x, s) ==
  \A r \in Slot :
    x.wrote.slot[r] # None => r = s /\ (x.wrote.slot[r] = "HALTED" => x.wrote.source = "HALTED")

LEMMA LocalWith ==
  ASSUME NEW x \in Sessions, NEW s \in Slot, NEW w \in Worker, Local(x, s)
  PROVE  /\ \A as \in Halts : Local(Halting(x, s, as), s)
         /\ Local(Marking(w, x, s), s) /\ Local(Activating(x, s), s)
<1>1. x.wrote.slot \in [Slot -> SlotStates \cup {None}]
  BY DEF Sessions, WriteType
<1>2. \A v \in SlotStates : \A r \in Slot :
        [x.wrote.slot EXCEPT ![s] = v][r] = IF r = s THEN v ELSE x.wrote.slot[r]
  BY <1>1
<1>3. ASSUME NEW as \in Halts
      PROVE  Local(Halting(x, s, as), s)
  <2>1. /\ Halting(x, s, as).wrote.source = "HALTED"
        /\ Halting(x, s, as).wrote.slot = [x.wrote.slot EXCEPT ![s] = as]
    BY HaltingWrites
  <2>2. as \in SlotStates
    BY DEF SlotStates
  <2>3. \A r \in Slot : r # s => Halting(x, s, as).wrote.slot[r] = None
    BY <1>2, <2>1, <2>2 DEF Local
  <2> QED
    BY <2>1, <2>3 DEF Local
<1>4. Local(Activating(x, s), s)
  <2>1. Activating(x, s).wrote.slot = [x.wrote.slot EXCEPT ![s] = "ACTIVE"]
    BY SessionWrites
  <2>2. \A r \in Slot : r # s => Activating(x, s).wrote.slot[r] = None
    BY <1>2, <2>1 DEF Local, SlotStates
  <2>3. Activating(x, s).wrote.slot[s] = "ACTIVE"
    BY <1>2, <2>1 DEF SlotStates
  <2> QED
    BY <2>2, <2>3 DEF Local
<1>5. Local(Marking(w, x, s), s)
  <2>1. Marking(w, x, s).wrote.slot = [x.wrote.slot EXCEPT ![s] = "NEEDS_HUMAN_LOGIN"]
    <3> DEFINE y == [x EXCEPT !.wrote.slot[s] = "NEEDS_HUMAN_LOGIN"]
    <3>1. y \in Sessions /\ y.wrote.slot = [x.wrote.slot EXCEPT ![s] = "NEEDS_HUMAN_LOGIN"]
      BY SessionWrites
    <3>2. Marking(w, x, s) \in {y, Pausing(y)}
      BY DEF Marking
    <3> HIDE DEF y
    <3>3. Pausing(y).wrote.slot = y.wrote.slot
      BY <3>1, SessionWrites
    <3> QED
      BY <3>1, <3>2, <3>3
  <2>2. \A r \in Slot : r # s => Marking(w, x, s).wrote.slot[r] = None
    BY <1>2, <2>1 DEF Local, SlotStates
  <2>3. Marking(w, x, s).wrote.slot[s] = "NEEDS_HUMAN_LOGIN"
    BY <1>2, <2>1 DEF SlotStates
  <2> QED
    BY <2>2, <2>3 DEF Local
<1> QED
  BY <1>3, <1>4, <1>5

\* What a commit of such a session does to the slot rows and to the review.
LEMMA CommitTouches ==
  ASSUME Typed, NEW w \in Worker, NEW x \in Sessions, NEW s, Local(x, s), Commit(w, x)
  PROVE  /\ \A r \in Slot : slot'[r] # slot[r] => r = s
         /\ \A r \in Slot : slot'[r] = "HALTED" => slot[r] = "HALTED" \/ (r = s /\ source'.review)
         /\ source.review => source'.review
<1>1. source'.review <=> source.review \/ x.wrote.source = "HALTED"
  <2>1. x.wrote.source \in SourceStates \cup {None}
    BY DEF Sessions, WriteType
  <2>2. source \in [state : SourceStates, admin : BOOLEAN, review : BOOLEAN]
    BY DEF Typed, TypeOK
  <2>3. CASE x.wrote.source = None
    <3>1. source' = source
      BY <2>3 DEF Commit, Committed
    <3>2. ASSUME x.wrote.source = "HALTED"
          PROVE  source.review
      BY <2>3, <3>2, NobodyAssumption
    <3> QED
      BY <3>1, <3>2
  <2>4. CASE x.wrote.source # None
    <3>1. source' = [source EXCEPT !.state = x.wrote.source, !.review = @ \/ x.wrote.source = "HALTED"]
      BY <2>4 DEF Commit, Committed
    <3> QED
      BY <2>2, <3>1
  <2> QED
    BY <2>3, <2>4
<1>2. \A r \in Slot : slot'[r] = IF x.wrote.slot[r] = None THEN slot[r] ELSE x.wrote.slot[r]
  BY DEF Commit
<1> QED
  BY <1>1, <1>2 DEF Local

LEMMA LocalSession ==
  ASSUME Typed, WroteInv, NEW w \in Worker
  PROVE  /\ SessionOf(w) \in Sessions /\ Local(SessionOf(w), at[w])
         /\ pc[w] \notin Writing => \A r \in Slot : wrote[w].slot[r] = None
BY SessionType DEF WroteInv, Local, SessionOf, Typed

\* What a pass that releases a slot writes.
LEMMA ReleaseWrites ==
  ASSUME Typed, WroteInv, NEW w \in Worker, Release(w)
  PROVE  LET s == First(todo[w])
             x == [SessionOf(w) EXCEPT !.wrote.slot[s] = "NEEDS_HUMAN_LOGIN"] IN
           /\ s \in Slot /\ x \in Sessions /\ Local(x, s)
           /\ x.wrote.slot[s] = "NEEDS_HUMAN_LOGIN"
<1> DEFINE s == First(todo[w])
           x == [SessionOf(w) EXCEPT !.wrote.slot[s] = "NEEDS_HUMAN_LOGIN"]
<1>1. s \in Slot
  BY FirstType DEF Release
<1>2. SessionOf(w) \in Sessions /\ \A r \in Slot : SessionOf(w).wrote.slot[r] = None
  BY LocalSession DEF Release, At, Writing, SessionOf
<1>3. x \in Sessions /\ x.wrote.slot = [SessionOf(w).wrote.slot EXCEPT ![s] = "NEEDS_HUMAN_LOGIN"]
  BY <1>1, <1>2, SessionWrites
<1>4. SessionOf(w).wrote.slot \in [Slot -> SlotStates \cup {None}]
  BY <1>2 DEF Sessions, WriteType
<1>5. \A r \in Slot : x.wrote.slot[r] = IF r = s THEN "NEEDS_HUMAN_LOGIN" ELSE None
  BY <1>1, <1>2, <1>3, <1>4
<1> HIDE DEF x, s
<1>6. Local(x, s)
  BY <1>5 DEF Local
<1> QED
  BY <1>1, <1>3, <1>5, <1>6 DEF x, s

\* A step of a worker writes the row of the slot it works on, or releases one.
Touches(w) ==
  /\ \A r \in Slot : slot'[r] # slot[r] => r = at[w] \/ (Release(w) /\ seen[w][r].state = "GUARDED")
  /\ \A r \in Slot : slot'[r] = "HALTED" => slot[r] = "HALTED" \/ (r = at[w] /\ source'.review)
  /\ source.review => source'.review

LEMMA StepTouches ==
  ASSUME Typed, WroteInv, NEW w \in Worker, Job(w) \/ Pass(w)
  PROVE  Touches(w)
<1>0. UNCHANGED <<source, slot>> => Touches(w)
  BY DEF Touches
<1>1. SessionOf(w) \in Sessions /\ Local(SessionOf(w), at[w])
  BY LocalSession
<1>2. at[w] \in Slot =>
        /\ Activating(SessionOf(w), at[w]) \in Sessions /\ Local(Activating(SessionOf(w), at[w]), at[w])
        /\ \A as \in Halts :
             /\ Halting(SessionOf(w), at[w], as) \in Sessions
             /\ Local(Halting(SessionOf(w), at[w], as), at[w])
  BY <1>1, ActivatingType, HaltingType, LocalWith
<1>10. \A x \in Sessions : Local(x, at[w]) /\ Commit(w, x) => Touches(w)
  BY CommitTouches DEF Touches
<1>3. CASE Start(w) \/ Choose(w) \/ Mapped(w) \/ Charge(w) \/ Renew(w) \/ Finish(w)
  BY <1>0, <1>3 DEF Start, Choose, Mapped, Charge, Renew, Finish, rows
<1>4. CASE \E why \in Reasons : Fail(w, why)
  BY <1>0, <1>4 DEF Fail, rows
<1>5. CASE InPlace(w)
  <2>1. at[w] \in Slot
    BY <1>5 DEF InPlace, At, Typed, Working
  <2>2. Commit(w, Activating(SessionOf(w), at[w])) \/ UNCHANGED rows
    BY <1>5 DEF InPlace
  <2> QED
    BY <1>0, <1>2, <1>10, <2>1, <2>2 DEF rows
<1>6. CASE EndJob(w)
  <2>1. Commit(w, SessionOf(w)) \/ UNCHANGED <<source, slot>>
    BY <1>6 DEF EndJob
  <2> QED
    BY <1>0, <1>1, <1>10, <2>1
<1>7. CASE StartPass(w) \/ Visit(w) \/ EndPass(w)
  BY <1>0, <1>7 DEF StartPass, Visit, EndPass, rows
<1>8. CASE Recover(w)
  <2>1. at[w] \in Slot
    BY <1>8 DEF Recover, At, Typed, Working
  <2>2. \/ Commit(w, Activating(SessionOf(w), at[w])) \/ Commit(w, Halting(SessionOf(w), at[w], "HALTED"))
        \/ Commit(w, SessionOf(w))
    BY <1>8 DEF Recover
  <2> QED
    BY <1>1, <1>2, <1>10, <2>1, <2>2 DEF Halts
<1>9. CASE Resume(w)
  <2>1. \A r \in Slot : wrote[w].slot[r] = None
    BY <1>9, LocalSession DEF Resume, At, Writing
  <2>2. Resuming(SessionOf(w)) \in Sessions /\ Resuming(SessionOf(w)).wrote.slot = SessionOf(w).wrote.slot
    <3>1. \A x \in Sessions : Resuming(x) \in Sessions /\ Resuming(x).wrote.slot = x.wrote.slot
      BY ResumingType DEF Resuming, Sessions, RowType, WriteType
    <3> QED
      BY <1>1, <3>1
  <2>3. Local(Resuming(SessionOf(w)), at[w])
    BY <2>1, <2>2 DEF Local, SessionOf
  <2> QED
    BY <1>9, <1>10, <2>2, <2>3 DEF Resume
<1>11. CASE Release(w)
  <2> DEFINE s == First(todo[w])
             x == [SessionOf(w) EXCEPT !.wrote.slot[s] = "NEEDS_HUMAN_LOGIN"]
  <2>1. x \in Sessions /\ Local(x, s) /\ x.wrote.slot[s] = "NEEDS_HUMAN_LOGIN"
    BY <1>11, ReleaseWrites
  <2>2. UNCHANGED <<source, slot>> \/ Commit(w, x)
    BY <1>11 DEF Release
  <2>3. seen[w][s].state = "GUARDED"
    BY <1>11 DEF Release
  <2> HIDE DEF x, s
  <2>4. CASE Commit(w, x)
    <3>1. /\ \A r \in Slot : slot'[r] # slot[r] => r = s
          /\ \A r \in Slot : slot'[r] = "HALTED" => slot[r] = "HALTED" \/ r = s
          /\ source.review => source'.review
      BY <2>1, <2>4, CommitTouches
    <3>2. s \in Slot => slot'[s] = "NEEDS_HUMAN_LOGIN"
      BY <2>1, <2>4, NobodyAssumption DEF Commit
    <3> QED
      BY <1>11, <2>3, <3>1, <3>2 DEF Touches
  <2> QED
    BY <1>0, <2>2, <2>4
<1> QED
  BY <1>3, <1>4, <1>5, <1>6, <1>7, <1>8, <1>9, <1>11 DEF Job, Pass

\* A worker writes its own session, place and list alone.
LEMMA OthersKept ==
  ASSUME Typed, NEW w \in Worker, Job(w) \/ Pass(w), NEW v \in Worker, v # w
  PROVE  /\ pc'[v] = pc[v] /\ at'[v] = at[v] /\ wrote'[v] = wrote[v]
         /\ seen'[v] = seen[v] /\ todo'[v] = todo[v]
<1> USE DEF Typed, TypeOK
<1>1. CASE Start(w) \/ Mapped(w) \/ Charge(w) \/ Renew(w) \/ Finish(w)
  BY <1>1 DEF Start, Mapped, Charge, Renew, Finish, Goto, session, worker
<1>2. CASE Choose(w)
  BY <1>2 DEF Choose, Flush, Leave, Goto, session
<1>3. CASE \E why \in Reasons : Fail(w, why)
  <2> HIDE DEF Typed, TypeOK
  <2>1. \E x : wrote' = [wrote EXCEPT ![w] = x]
    BY <1>3 DEF Fail, Flush
  <2>2. \E l : pc' = [pc EXCEPT ![w] = l]
    BY <1>3 DEF Fail, Goto
  <2> QED
    BY <1>3, <2>1, <2>2 DEF Fail, Typed, TypeOK
<1>4. CASE InPlace(w)
  <2> HIDE DEF Typed, TypeOK
  <2>1. (\E x : wrote' = [wrote EXCEPT ![w] = x]) \/ UNCHANGED wrote
    BY <1>4 DEF InPlace, Flush, Commit
  <2>2. \E l : pc' = [pc EXCEPT ![w] = l]
    BY <1>4 DEF InPlace, Goto
  <2> QED
    BY <1>4, <2>1, <2>2 DEF InPlace, Typed, TypeOK
<1>5. CASE EndJob(w)
  BY <1>5 DEF EndJob, Commit, Leave, Goto
<1>6. CASE StartPass(w) \/ Visit(w) \/ EndPass(w)
  BY <1>6 DEF StartPass, Visit, EndPass, Leave, Goto, session
<1>7. CASE Recover(w)
  <2> HIDE DEF Typed, TypeOK
  <2>1. (\E x : wrote' = [wrote EXCEPT ![w] = x]) \/ UNCHANGED wrote
    BY <1>7 DEF Recover, Commit
  <2>2. (\E x : seen' = [seen EXCEPT ![w] = x]) \/ UNCHANGED seen
    <3>1. (seen' = [seen EXCEPT ![w][at[w]].state = "ACTIVE"]) \/ Leave(w) \/ UNCHANGED seen
      BY <1>7 DEF Recover
    <3> QED
      BY <3>1 DEF Leave
  <2>3. \E l, a : pc' = [pc EXCEPT ![w] = l] /\ at' = [at EXCEPT ![w] = a]
    BY <1>7 DEF Recover, Leave, Between, Goto
  <2>4. todo' = [todo EXCEPT ![w] = {}] \/ UNCHANGED todo
    BY <1>7 DEF Recover
  <2> QED
    BY <2>1, <2>2, <2>3, <2>4 DEF Typed, TypeOK
<1>8. CASE Resume(w)
  BY <1>8 DEF Resume, Commit, Leave, Goto
<1>9. CASE Release(w)
  <2> HIDE DEF Typed, TypeOK
  <2>1. \E x : wrote' = [wrote EXCEPT ![w] = x]
    BY <1>9 DEF Release, Flush, Commit
  <2>2. \E x : seen' = [seen EXCEPT ![w] = x]
    BY <1>9 DEF Release
  <2>3. (\E l, a : pc' = [pc EXCEPT ![w] = l] /\ at' = [at EXCEPT ![w] = a]) \/ UNCHANGED <<pc, at>>
    BY <1>9 DEF Release, Goto
  <2>4. \E x : todo' = [todo EXCEPT ![w] = x]
    BY <1>9 DEF Release
  <2> QED
    BY <2>1, <2>2, <2>3, <2>4 DEF Typed, TypeOK
<1> QED
  BY <1>1, <1>2, <1>3, <1>4, <1>5, <1>6, <1>7, <1>8, <1>9 DEF Job, Pass

LEMMA PlaceStep ==
  ASSUME Typed, PlaceInv, NEW w \in Worker, Job(w) \/ Pass(w)
  PROVE  /\ PlaceInv'
         /\ Job(w) => Kind[w] \in Jobs
         /\ Pass(w) => Kind[w] = "recovery"
<1>0. Kind[w] \in Jobs \cup {"recovery", "operator"}
  BY KindAssumption DEF Kinds
<1>1. Job(w) => pc[w] \in JobPlaces /\ (pc[w] = "idle" => Kind[w] \in Jobs)
  BY DEF Job, Start, Choose, Mapped, Charge, Renew, Fail, Finish, InPlace, EndJob, At, JobPlaces
<1>2. Pass(w) => pc[w] \in PassPlaces /\ (pc[w] = "idle" => Kind[w] = "recovery")
  BY DEF Pass, StartPass, Visit, Release, Recover, Resume, EndPass, At, PassPlaces
<1>3. (Job(w) => Kind[w] \in Jobs) /\ (Pass(w) => Kind[w] = "recovery")
  BY <1>0, <1>1, <1>2 DEF PlaceInv, JobPlaces, PassPlaces, OperatorPlaces, Jobs
<1>4. Job(w) => pc'[w] \in JobPlaces /\ (pc'[w] \in {"idle", "choose", "scan"} => at'[w] = None)
  <2> USE DEF Typed, TypeOK, PlaceInv, JobPlaces, At, Goto
  <2>1. CASE Start(w)
    BY <2>1 DEF Start, Jobs
  <2>2. CASE Choose(w)
    BY <2>2 DEF Choose, Leave
  <2>3. CASE Mapped(w) \/ Charge(w) \/ Renew(w) \/ Finish(w)
    BY <2>3 DEF Mapped, Charge, Renew, Finish, worker
  <2>4. CASE \E why \in Reasons : Fail(w, why)
    BY <2>4 DEF Fail
  <2>5. CASE InPlace(w)
    BY <2>5 DEF InPlace
  <2>6. CASE EndJob(w)
    BY <2>6 DEF EndJob, Leave
  <2> QED
    BY <2>1, <2>2, <2>3, <2>4, <2>5, <2>6 DEF Job
<1>5. Pass(w) => pc'[w] \in PassPlaces /\ (pc'[w] \in {"idle", "choose", "scan"} => at'[w] = None)
  <2> USE DEF Typed, TypeOK, PlaceInv, PassPlaces, At, Goto
  <2>1. CASE StartPass(w)
    BY <1>3, <2>1 DEF StartPass, Pass
  <2>2. CASE Visit(w) \/ EndPass(w)
    BY <1>3, <2>2 DEF Visit, EndPass, Leave, Pass
  <2>3. CASE Release(w)
    <3>1. \/ pc'[w] = "recovering"
          \/ pc'[w] = "scan" /\ pc[w] = "scan" /\ at'[w] = at[w]
      BY <2>3 DEF Release
    <3> QED
      BY <3>1
  <2>4. CASE Recover(w)
    <3>1. Between(w) \/ Leave(w)
      BY <2>4 DEF Recover
    <3> QED
      BY <2>4, <3>1 DEF Between, Leave
  <2>5. CASE Resume(w)
    BY <2>5 DEF Resume, Leave
  <2> QED
    BY <2>1, <2>2, <2>3, <2>4, <2>5 DEF Pass
<1>6. ASSUME NEW v \in Worker, v # w
      PROVE  pc'[v] = pc[v] /\ at'[v] = at[v]
  BY <1>6, OthersKept
<1> QED
  BY <1>3, <1>4, <1>5, <1>6 DEF PlaceInv, Jobs

\* A worker keeps the slot it works on, leaves it, or takes one that no job and no pass works on:
\* a job takes an ACTIVE one, a pass one that it has not read as halted by a block.
LEMMA AtStep ==
  ASSUME Typed, PlaceInv, NEW w \in Worker, Job(w) \/ Pass(w)
  PROVE  \/ at'[w] \in {at[w], None}
         \/ \E s \in Slot : /\ at'[w] = s /\ \A v \in Worker : Kind[v] # "operator" => at[v] # s
                            /\ Kind[w] \in Jobs => slot[s] = "ACTIVE" /\ UNCHANGED slot
<1>1. \A s : ~InUse(s) => \A v \in Worker : Kind[v] # "operator" => at[v] # s
  BY DEF InUse
<1>2. CASE Choose(w)
  <2>1. CASE \E s \in Candidates(w) : at' = [at EXCEPT ![w] = s] /\ UNCHANGED rows
    BY <1>1, <2>1 DEF Candidates, rows, Typed, TypeOK
  <2>2. CASE UNCHANGED at \/ Leave(w)
    BY <2>2 DEF Leave, Typed, TypeOK
  <2> QED
    BY <1>2, <2>1, <2>2 DEF Choose
<1>3. CASE Visit(w) \/ Release(w)
  <2>1. CASE UNCHANGED at
    BY <2>1
  <2>2. CASE ~InUse(First(todo[w])) /\ at' = [at EXCEPT ![w] = First(todo[w])]
    <3>1. First(todo[w]) \in Slot
      BY <1>3, FirstType DEF Visit, Release
    <3>2. Kind[w] = "recovery"
      BY <1>3, PlaceStep DEF Pass
    <3>3. at'[w] = First(todo[w])
      BY <2>2 DEF Typed, TypeOK
    <3>4. \A v \in Worker : Kind[v] # "operator" => at[v] # First(todo[w])
      BY <1>1, <2>2
    <3> QED
      BY <3>1, <3>2, <3>3, <3>4 DEF Jobs
  <2> QED
    BY <1>3, <2>1, <2>2 DEF Visit, Release
<1>4. CASE ~Choose(w) /\ ~Visit(w) /\ ~Release(w)
  <2>1. CASE UNCHANGED at \/ Leave(w) \/ Between(w)
    BY <2>1 DEF Leave, Between, Typed, TypeOK
  <2>2. CASE \E why \in Reasons : Fail(w, why)
    BY <2>1, <2>2 DEF Fail
  <2>3. CASE Start(w) \/ Mapped(w) \/ Charge(w) \/ Renew(w) \/ Finish(w) \/ InPlace(w) \/ EndJob(w)
    BY <2>1, <2>3 DEF Start, Mapped, Charge, Renew, Finish, InPlace, EndJob, worker
  <2>4. CASE StartPass(w) \/ Recover(w) \/ Resume(w) \/ EndPass(w)
    BY <2>1, <2>4 DEF StartPass, Recover, Resume, EndPass
  <2> QED
    BY <1>4, <2>2, <2>3, <2>4 DEF Job, Pass
<1> QED
  BY <1>2, <1>3, <1>4

LEMMA AloneStep ==
  ASSUME Typed, PlaceInv, AloneInv, NEW w \in Worker, Job(w) \/ Pass(w)
  PROVE  AloneInv'
<1>1. \A v \in Worker \ {w} : at'[v] = at[v]
  BY OthersKept
<1>2. None \notin Slot
  BY NobodyAssumption
<1> QED
  BY <1>1, <1>2, AtStep DEF AloneInv

LEMMA WroteStep ==
  ASSUME Typed, WroteInv, NEW w \in Worker, Job(w) \/ Pass(w)
  PROVE  WroteInv'
<1> DEFINE Clean == \A r \in Slot : wrote'[w].slot[r] = None
           Mine(x, s) == Local(x, s) /\ wrote'[w] = x.wrote /\ at'[w] = s /\ pc'[w] \in Writing
<1>1. SessionOf(w) \in Sessions /\ Local(SessionOf(w), at[w])
  BY LocalSession
<1>2. pc[w] \notin Writing => \A r \in Slot : wrote[w].slot[r] = None
  BY LocalSession
<1>3. at[w] \in Slot =>
        /\ \A as \in Halts : Local(Halting(SessionOf(w), at[w], as), at[w])
        /\ Local(Marking(w, SessionOf(w), at[w]), at[w])
  BY <1>1, LocalWith
<1>4. NoWrites.slot = [s \in Slot |-> None]
  BY DEF NoWrites
<1>5. wrote' = [wrote EXCEPT ![w] = NoWrites] => Clean
  BY <1>4 DEF Typed, TypeOK
<1>6. Clean \/ \E x, s : Mine(x, s)
  <2>1. CASE Start(w) \/ Mapped(w) \/ Charge(w) \/ Renew(w) \/ Finish(w) \/ StartPass(w) \/ Visit(w) \/ EndPass(w)
    <3>1. CASE pc[w] \notin Writing /\ UNCHANGED wrote
      BY <1>2, <3>1
    <3> QED
      BY <2>1, <3>1 DEF Start, Mapped, Charge, Renew, Finish, StartPass, Visit, EndPass, At, session, Writing
  <2>2. CASE Choose(w)
    <3>1. pc[w] = "choose"
      BY <2>2 DEF Choose, At
    <3>2. \/ UNCHANGED wrote
          \/ wrote' = [wrote EXCEPT ![w] = Pausing(SessionOf(w)).wrote]
      BY <2>2 DEF Choose, Flush, session
    <3>3. Pausing(SessionOf(w)).wrote.slot = wrote[w].slot
      BY <1>1 DEF Pausing, SessionOf, Sessions, RowType, WriteType
    <3> QED
      BY <1>2, <3>1, <3>2, <3>3 DEF Typed, TypeOK, Writing
  <2>3. ASSUME NEW why \in Reasons, Fail(w, why)
        PROVE  \E x, s : Mine(x, s)
    <3>1. at[w] \in Slot
      BY <2>3 DEF Fail, At, Typed, Working
    <3>2. PICK x : Local(x, at[w]) /\ Flush(w, x)
      BY <1>1, <1>3, <2>3, <3>1 DEF Fail, Halts
    <3>3. wrote'[w] = x.wrote /\ at'[w] = at[w]
      BY <2>3, <3>2 DEF Fail, Flush, Typed, TypeOK
    <3>4. pc'[w] \in Writing
      BY <2>3 DEF Fail, Goto, Typed, TypeOK, Writing
    <3> QED
      BY <3>2, <3>3, <3>4
  <2>4. CASE InPlace(w)
    <3>1. at[w] \in Slot /\ at'[w] = at[w] /\ pc[w] = "inplace"
      BY <2>4 DEF InPlace, At, Typed, Working
    <3>2. CASE wrote' = [wrote EXCEPT ![w] = NoWrites]
      BY <1>5, <3>2
    <3>3. CASE Flush(w, Halting(SessionOf(w), at[w], "HALTED")) /\ Goto(w, "commit")
      <4>1. wrote'[w] = Halting(SessionOf(w), at[w], "HALTED").wrote /\ pc'[w] = "commit"
        BY <3>3 DEF Flush, Goto, Typed, TypeOK
      <4>2. Mine(Halting(SessionOf(w), at[w], "HALTED"), at[w])
        BY <1>3, <3>1, <4>1 DEF Writing, Halts
      <4> QED
        BY <4>2
    <3>4. CASE UNCHANGED wrote /\ Goto(w, "commit")
      <4>1. pc'[w] = "commit" /\ wrote'[w] = SessionOf(w).wrote
        BY <3>4 DEF Goto, Typed, TypeOK, SessionOf
      <4>2. Mine(SessionOf(w), at[w])
        BY <1>1, <3>1, <4>1 DEF Writing
      <4> QED
        BY <4>2
    <3> QED
      BY <2>4, <3>2, <3>3, <3>4 DEF InPlace, Commit
  <2>5. CASE EndJob(w) \/ Resume(w)
    BY <1>5, <2>5 DEF EndJob, Resume, Commit
  <2>6. CASE Recover(w)
    BY <1>5, <2>6 DEF Recover, Commit
  <2>7. CASE Release(w)
    <3> DEFINE s == First(todo[w])
               x == [SessionOf(w) EXCEPT !.wrote.slot[s] = "NEEDS_HUMAN_LOGIN"]
    <3>1. Local(x, s)
      BY <2>7, ReleaseWrites
    <3> HIDE DEF x, s
    <3>2. CASE Flush(w, x) /\ at' = [at EXCEPT ![w] = s] /\ Goto(w, "recovering")
      <4>1. wrote'[w] = x.wrote /\ at'[w] = s /\ pc'[w] = "recovering"
        BY <3>2 DEF Flush, Goto, Typed, TypeOK
      <4>2. Mine(x, s)
        BY <3>1, <4>1 DEF Writing
      <4> QED
        BY <4>2
    <3>3. CASE Commit(w, x)
      BY <1>5, <3>3 DEF Commit
    <3> QED
      BY <2>7, <3>2, <3>3 DEF Release, x, s
  <2> QED
    BY <2>1, <2>2, <2>3, <2>4, <2>5, <2>6, <2>7 DEF Job, Pass
<1>7. \A v \in Worker \ {w} : wrote'[v] = wrote[v] /\ at'[v] = at[v] /\ pc'[v] = pc[v]
  BY OthersKept
<1>8. \A s \in Slot :
        wrote'[w].slot[s] # None =>
          /\ s = at'[w] /\ pc'[w] \in Writing
          /\ wrote'[w].slot[s] = "HALTED" => wrote'[w].source = "HALTED"
  <2>1. CASE Clean
    BY <2>1
  <2>2. ASSUME NEW x, NEW r, Mine(x, r)
        PROVE  \A s \in Slot :
                 wrote'[w].slot[s] # None =>
                   /\ s = at'[w] /\ pc'[w] \in Writing
                   /\ wrote'[w].slot[s] = "HALTED" => wrote'[w].source = "HALTED"
    BY <2>2 DEF Local
  <2> QED
    BY <1>6, <2>1, <2>2
<1> QED
  BY <1>7, <1>8 DEF WroteInv

\* The slot a job works on is halted for a block by the job's own commit alone.
LEMMA JobStep ==
  ASSUME Typed, PlaceInv, WroteInv, AloneInv, JobInv, NEW w \in Worker, Job(w) \/ Pass(w)
  PROVE  JobInv'
<1>0. None \notin Slot
  BY NobodyAssumption
<1>1. Touches(w)
  BY StepTouches
<1>2. ASSUME NEW v \in Worker, v # w, Kind[v] \in Jobs, at'[v] # None
      PROVE  slot'[at'[v]] # "HALTED"
  <2>1. Kind[v] # "operator" /\ Kind[w] # "operator"
    BY <1>2, PlaceStep DEF Jobs
  <2>2. at'[v] = at[v] /\ at[v] \in Slot /\ at[v] # at[w] /\ slot[at[v]] # "HALTED"
    BY <1>2, <2>1, OthersKept DEF AloneInv, JobInv, Typed, TypeOK
  <2> QED
    BY <1>1, <2>2 DEF Touches
<1>3. ASSUME Kind[w] \in Jobs, at'[w] # None
      PROVE  slot'[at'[w]] # "HALTED"
  <2>1. CASE UNCHANGED slot
    BY <1>3, <2>1, AtStep DEF JobInv
  <2>2. CASE InPlace(w) /\ Commit(w, Activating(SessionOf(w), at[w]))
    <3>1. at[w] \in Slot /\ at'[w] = at[w]
      BY <2>2 DEF InPlace, At, Typed, Working
    <3>2. /\ SessionOf(w) \in Sessions /\ SessionOf(w).wrote.slot \in [Slot -> SlotStates \cup {None}]
          /\ Activating(SessionOf(w), at[w]).wrote.slot = [SessionOf(w).wrote.slot EXCEPT ![at[w]] = "ACTIVE"]
      BY <3>1, LocalSession, SessionWrites DEF Sessions, WriteType
    <3>3. Activating(SessionOf(w), at[w]).wrote.slot[at[w]] = "ACTIVE" /\ "ACTIVE" # None
      BY <3>1, <3>2, NobodyAssumption
    <3> QED
      BY <2>2, <3>1, <3>3 DEF Commit
  <2>3. CASE EndJob(w)
    BY <1>3, <2>3 DEF EndJob, Leave, Typed, TypeOK
  <2>4. ~Pass(w)
    BY <1>3, PlaceStep DEF Jobs
  <2>5. ASSUME NEW why \in Reasons, Fail(w, why)
        PROVE  UNCHANGED slot
    BY <2>5 DEF Fail, rows
  <2> QED
    BY <2>1, <2>2, <2>3, <2>4, <2>5 DEF Job, Start, Choose, Mapped, Charge, Renew, Finish, InPlace, rows
<1> QED
  BY <1>2, <1>3 DEF JobInv

LEMMA PassStep ==
  ASSUME Typed, PlaceInv, PassInv, NEW w \in Worker, Job(w) \/ Pass(w)
  PROVE  PassInv'
<1>1. ASSUME pc'[w] = "recovering"
      PROVE  seen'[w][at'[w]].state # "HALTED"
  <2>1. CASE Visit(w)
    <3>1. UNCHANGED seen /\ pc[w] = "scan"
      BY <2>1 DEF Visit, session, At
    <3>2. at'[w] = First(todo[w]) /\ Recoverable(seen[w][First(todo[w])].state)
      BY <1>1, <2>1, <3>1 DEF Visit, Typed, TypeOK
    <3> QED
      BY <3>1, <3>2 DEF Recoverable
  <2>2. CASE Release(w)
    <3>1. First(todo[w]) \in Slot /\ pc[w] = "scan"
      BY <2>2, FirstType DEF Release, At
    <3>2. at'[w] = First(todo[w])
      BY <1>1, <2>2, <3>1 DEF Release, Typed, TypeOK
    <3>3. seen'[w][First(todo[w])].state = "NEEDS_HUMAN_LOGIN"
      <4>1. seen[w][First(todo[w])] \in [state : SlotStates, login : Logins \cup {None}]
        BY <3>1 DEF Typed, TypeOK
      <4>2. seen' = [seen EXCEPT ![w][First(todo[w])].state = "NEEDS_HUMAN_LOGIN"]
        BY <2>2 DEF Release
      <4> QED
        BY <3>1, <4>1, <4>2 DEF Typed, TypeOK
    <3> QED
      BY <3>2, <3>3
  <2>3. CASE Job(w)
    <3>1. pc'[w] \in JobPlaces
      BY <2>3, PlaceStep DEF PlaceInv
    <3> QED
      BY <1>1, <3>1 DEF JobPlaces
  <2>4. CASE StartPass(w) \/ Recover(w) \/ Resume(w) \/ EndPass(w)
    <3>1. pc'[w] \in {"idle", "scan"}
      BY <2>4 DEF StartPass, Recover, Resume, EndPass, Between, Leave, Goto, Typed, TypeOK
    <3> QED
      BY <1>1, <3>1
  <2> QED
    BY <2>1, <2>2, <2>3, <2>4 DEF Pass
<1>2. \A v \in Worker \ {w} : pc'[v] = pc[v] /\ at'[v] = at[v] /\ seen'[v] = seen[v]
  BY OthersKept
<1> QED
  BY <1>1, <1>2 DEF PassInv

\* Of the jobs and passes, a pass that has not read the halt changes a halted slot.
LEMMA HaltedStep ==
  ASSUME Typed, HaltedInv, NEW w \in Worker, Job(w) \/ Pass(w),
         NEW s \in Slot, slot[s] = "HALTED", slot'[s] # "HALTED"
  PROVE  Pass(w) /\ seen[w][s].state # "HALTED"
<1>1. s = at[w] \/ (Release(w) /\ seen[w][s].state = "GUARDED")
  BY StepTouches DEF HaltedInv, Touches
<1>2. CASE s = at[w]
  <2>1. s # None
    BY NobodyAssumption
  <2>2. Kind[w] = "recovery"
    BY <1>2, <2>1, PlaceStep DEF HaltedInv, JobInv
  <2>3. pc[w] = "recovering"
    BY <1>2, <2>1, <2>2 DEF HaltedInv, PlaceInv, PassPlaces
  <2>4. ~Job(w)
    BY <2>2, PlaceStep DEF HaltedInv, Jobs
  <2> QED
    BY <1>2, <2>3, <2>4 DEF HaltedInv, PassInv
<1> QED
  BY <1>1, <1>2 DEF Pass

\* What an operator's login does to this: it writes over a state of its own slot.
LEMMA LoginHalted ==
  ASSUME Typed, HaltedInv, NEW w \in Worker, Login(w)
  PROVE  HaltedInv' /\ \A s \in Slot : slot'[s] # slot[s] => s = at[w]
<1>0. Kind[w] = "operator"
  <2>1. pc[w] \in {"idle", "signing", "checking"} /\ (pc[w] = "idle" => Kind[w] = "operator")
    BY DEF Login, StartLogin, CheckLogin, CompleteLogin, At
  <2> QED
    BY <2>1, KindAssumption DEF HaltedInv, PlaceInv, JobPlaces, PassPlaces, Kinds
<1>1. /\ \A v \in Worker \ {w} : pc'[v] = pc[v] /\ at'[v] = at[v] /\ seen'[v] = seen[v]
      /\ pc'[w] \in OperatorPlaces /\ (pc'[w] = "idle" => at'[w] = None)
      /\ UNCHANGED wrote
  BY DEF Login, StartLogin, CheckLogin, CompleteLogin, Leave, Goto, session, Typed, TypeOK, OperatorPlaces
<1>2. pc[w] \notin Writing
  BY <1>0 DEF HaltedInv, PlaceInv, OperatorPlaces, Writing
<1>3. /\ \A s \in Slot : slot'[s] # slot[s] => s = at[w] /\ slot'[s] # "HALTED"
      /\ source.review => source'.review
  <2>1. CASE UNCHANGED rows
    BY <2>1 DEF rows
  <2>2. CASE CompleteLogin(w) /\ ~UNCHANGED rows
    <3> DEFINE x == Activating([SessionOf(w) EXCEPT !.row.admin = FALSE], at[w])
    <3>1. /\ slot' = [slot EXCEPT ![at[w]] = "ACTIVE"]
          /\ source' = [Committed(x) EXCEPT !.admin = @ /\ ~(row[w].state = "PAUSED" /\ row[w].admin)]
      BY <2>2 DEF CompleteLogin
    <3>2. at[w] \in Slot
      BY <2>2 DEF CompleteLogin, At, Typed, Working
    <3>3. source \in [state : SourceStates, admin : BOOLEAN, review : BOOLEAN]
      BY DEF Typed, TypeOK
    <3>4. source.review => Committed(x).review
      <4> HIDE DEF x
      <4> QED
        BY <3>3 DEF Committed
    <3>5. Committed(x).review = source'.review
      <4>1. \A y, b : [y EXCEPT !.admin = b].review = y.review
        OBVIOUS
      <4> HIDE DEF x
      <4> QED
        BY <3>1, <4>1
    <3> QED
      BY <3>1, <3>2, <3>3, <3>4, <3>5
  <2> QED
    BY <2>1, <2>2 DEF Login, StartLogin, CheckLogin
<1>4. PlaceInv'
  BY <1>0, <1>1 DEF HaltedInv, PlaceInv, Jobs, OperatorPlaces
<1>5. WroteInv' /\ AloneInv'
  BY <1>0, <1>1, <1>2 DEF HaltedInv, WroteInv, AloneInv
<1>6. JobInv'
  <2>1. ASSUME NEW v \in Worker, Kind[v] \in Jobs, at'[v] # None
        PROVE  slot'[at'[v]] # "HALTED"
    <3>1. v # w /\ at'[v] = at[v] /\ at[v] \in Slot /\ slot[at[v]] # "HALTED"
      BY <1>0, <1>1, <2>1 DEF HaltedInv, JobInv, Jobs, Typed, TypeOK
    <3> QED
      BY <1>3, <3>1
  <2> QED
    BY <2>1 DEF JobInv
<1>7. PassInv'
  BY <1>1 DEF HaltedInv, PassInv, OperatorPlaces
<1>8. HaltInv'
  <2>1. ASSUME NEW s \in Slot, slot'[s] = "HALTED"
        PROVE  source'.review
    BY <1>3, <2>1 DEF HaltedInv, HaltInv
  <2> QED
    BY <2>1 DEF HaltInv
<1> QED
  BY <1>3, <1>4, <1>5, <1>6, <1>7, <1>8 DEF HaltedInv

\* The administrator's own steps leave the workers and the halted rows' review in order.
LEMMA AdminHalted ==
  ASSUME Typed, HaltedInv, Admin
  PROVE  /\ HaltedInv'
         /\ \A s \in Slot : slot[s] = "HALTED" /\ slot'[s] # "HALTED" => source.review /\ ~source'.review
<1>1. UNCHANGED <<session, worker>>
  BY DEF Admin
<1>2. \/ UNCHANGED slot /\ source'.review = source.review
      \/ /\ slot' = [s \in Slot |-> IF slot[s] \in Halts THEN "NEEDS_HUMAN_LOGIN" ELSE slot[s]]
         /\ source'.review = FALSE
  <2>1. source \in [state : SourceStates, admin : BOOLEAN, review : BOOLEAN]
    BY DEF Typed, TypeOK
  <2>2. \A to, b : [source EXCEPT !.state = to, !.admin = b].review = source.review
    BY <2>1
  <2>3. CASE UNCHANGED slot /\ \E to, b : source' = [source EXCEPT !.state = to, !.admin = b]
    BY <2>2, <2>3
  <2>4. CASE /\ source' = [state |-> "ACTIVE", admin |-> FALSE, review |-> FALSE]
             /\ slot' = [s \in Slot |-> IF slot[s] \in Halts THEN "NEEDS_HUMAN_LOGIN" ELSE slot[s]]
    BY <2>4
  <2> QED
    BY <2>3, <2>4 DEF Admin
<1>3. \A s \in Slot : slot'[s] = "HALTED" => slot[s] = "HALTED" /\ source'.review = source.review
  BY <1>2 DEF Halts
<1>4. \A s \in Slot : slot[s] = "HALTED" /\ slot'[s] # "HALTED" => source.review /\ ~source'.review
  BY <1>2 DEF HaltedInv, HaltInv
<1>6. HaltInv'
  <2>1. ASSUME NEW s \in Slot, slot'[s] = "HALTED"
        PROVE  source'.review
    BY <1>3, <2>1 DEF HaltedInv, HaltInv
  <2> QED
    BY <2>1 DEF HaltInv
<1>5. JobInv'
  BY <1>1, <1>3 DEF HaltedInv, JobInv, worker, Typed, TypeOK
<1> QED
  BY <1>1, <1>4, <1>5, <1>6 DEF HaltedInv, PlaceInv, WroteInv, AloneInv, PassInv, session, worker

LEMMA AdminSlotHalted ==
  ASSUME Typed, HaltedInv, NEW s \in Slot, AdminSlot(s)
  PROVE  HaltedInv' /\ \A r \in Slot : slot'[r] # slot[r] => r = s
<1>1. PICK to \in {"PAUSED", "ACTIVE", "EMPTY"} : slot' = [slot EXCEPT ![s] = to]
  BY DEF AdminSlot
<1>2. UNCHANGED <<source, session, worker>>
  BY DEF AdminSlot
<1>3. \A r \in Slot : slot'[r] # slot[r] => r = s /\ slot'[r] # "HALTED"
  BY <1>1 DEF Typed, TypeOK
<1> QED
  BY <1>2, <1>3
  DEF HaltedInv, PlaceInv, WroteInv, AloneInv, JobInv, PassInv, HaltInv, session, worker, Typed, TypeOK

\* What SlotHaltSticks says of one step.
MayReopen(s) ==
  \/ source.review /\ ~source'.review
  \/ AdminSlot(s)
  \/ \E w \in Worker : Login(w) /\ at[w] = s
  \/ \E w \in Worker : Pass(w) /\ seen[w][s].state # "HALTED"

LEMMA HaltedInductive ==
  ASSUME Typed, HaltedInv, [Next]_vars
  PROVE  /\ HaltedInv'
         /\ \A s \in Slot : slot[s] = "HALTED" /\ slot'[s] # "HALTED" => MayReopen(s)
<1>1. ASSUME NEW w \in Worker, Job(w) \/ Pass(w)
      PROVE  /\ HaltedInv'
             /\ \A s \in Slot : slot[s] = "HALTED" /\ slot'[s] # "HALTED" => MayReopen(s)
  <2>1. HaltInv'
    <3>1. Touches(w)
      BY <1>1, StepTouches DEF HaltedInv
    <3>2. ASSUME NEW s \in Slot, slot'[s] = "HALTED"
          PROVE  source'.review
      BY <3>1, <3>2 DEF Touches, HaltedInv, HaltInv
    <3> QED
      BY <3>2 DEF HaltInv
  <2>2. HaltedInv'
    BY <1>1, <2>1, PlaceStep, WroteStep, AloneStep, JobStep, PassStep DEF HaltedInv
  <2>3. \A s \in Slot : slot[s] = "HALTED" /\ slot'[s] # "HALTED" => Pass(w) /\ seen[w][s].state # "HALTED"
    BY <1>1, HaltedStep
  <2> QED
    BY <2>2, <2>3 DEF MayReopen
<1>2. ASSUME NEW w \in Worker, Login(w)
      PROVE  /\ HaltedInv'
             /\ \A s \in Slot : slot[s] = "HALTED" /\ slot'[s] # "HALTED" => MayReopen(s)
  BY <1>2, LoginHalted DEF MayReopen
<1>3. CASE Admin
  BY <1>3, AdminHalted DEF MayReopen
<1>4. ASSUME NEW r \in Slot, AdminSlot(r)
      PROVE  /\ HaltedInv'
             /\ \A s \in Slot : slot[s] = "HALTED" /\ slot'[s] # "HALTED" => MayReopen(s)
  BY <1>4, AdminSlotHalted DEF MayReopen
<1>5. CASE UNCHANGED vars
  BY <1>5 DEF vars, rows, session, worker, HaltedInv, PlaceInv, WroteInv, AloneInv, JobInv, PassInv, HaltInv
<1> QED
  BY <1>1, <1>2, <1>3, <1>4, <1>5 DEF Next

\* For any cast of jobs, passes and operators and whatever the administrator does: no job undoes a
\* halt for a block that another session has committed, whatever it read before, and a recovery
\* pass that has read the halt leaves it alone.
THEOREM HaltedKept == Spec => SlotHaltSticks
<1>1. Init => HaltedInv
  <2> SUFFICES ASSUME Init
               PROVE  HaltedInv
    OBVIOUS
  <2>1. PlaceInv /\ AloneInv /\ JobInv /\ PassInv
    BY DEF Init, PlaceInv, AloneInv, JobInv, PassInv, PassPlaces, JobPlaces, OperatorPlaces
  <2>2. WroteInv
    BY DEF Init, WroteInv, NoWrites
  <2>3. HaltInv
    BY DEF Init, HaltInv
  <2> QED
    BY <2>1, <2>2, <2>3 DEF HaltedInv
<1>2. Typed /\ HaltedInv /\ [Next]_vars =>
        /\ HaltedInv'
        /\ \A s \in Slot : slot[s] = "HALTED" /\ slot'[s] # "HALTED" => MayReopen(s)
  BY HaltedInductive
<1>3. Spec => []Typed
  BY TypedAlways
<1> QED
  BY <1>1, <1>2, <1>3, PTL DEF Spec, SlotHaltSticks, MayReopen
================================================================================
