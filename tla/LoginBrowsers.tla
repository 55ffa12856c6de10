----------------------------- MODULE LoginBrowsers -----------------------------
(***************************************************************************)
(* Who opens a browser on which PakistanLawSite login.  The site ends one  *)
(* of two browsers on one login, so every job that opens one first takes   *)
(* Redis locks: the base lock (exclusive, or shared by two jobs) and the   *)
(* lock of one login slot.  The jobs differ in which they take and when:   *)
(*                                                                         *)
(*   shard      a citation-grid job bound to one slot                      *)
(*   plain      a citation-grid job without a shard: the slot in use       *)
(*   harvest    a search-harvest tick of one slot                          *)
(*   walk       the case-ID walk: whichever ACTIVE slot nobody holds       *)
(*   spot       the spot check of promoted judgments: base lock only       *)
(*   keepalive  the hourly probe, and watchdog, the stall probe: the base  *)
(*              lock per ACTIVE slot, the slot lock to sign in again       *)
(*   recovery   the login-recovery pass: the slot lock of each lost slot   *)
(*                                                                         *)
(* Locks are the leases of module Lease; the expiry of one that is held is *)
(* SessionLock's subject, that of one left behind by a release that Redis  *)
(* did not answer is a step here.  A job's writes to the slot rows are in  *)
(* its own transaction (pending) until it commits; what it read of a slot  *)
(* row stays as it was read (saw) for as long as the code keeps the row    *)
(* object.                                                                 *)
(***************************************************************************)
EXTENDS Naturals, FiniteSets

CONSTANTS
  Worker, None,
  Left,         \* the token of a lock object that is gone
  Slot,         \* login slots, by number
  Kind,         \* the job each worker runs
  Own,          \* the slot a shard or a harvest tick is bound to
  Outside,      \* the workers that a restart of the login-session worker does not end
  Concurrency,  \* login_session_concurrency of the pacing profile
  HumanLogins,  \* may an operator complete a login meanwhile
  Boots,        \* may the login-session worker restart
  Yields,       \* may a grid job stop for search-harvest queries that wait
  RedisFails    \* may a call to Redis fail: a release, the keepalive's look at the locks

Bound  == {"shard", "harvest"}
Passes == {"recovery", "keepalive", "watchdog"}
Kinds  == Bound \cup Passes \cup {"plain", "walk", "spot"}

ASSUME SlotAssumption   == Slot \subseteq Nat
ASSUME KindAssumption   == Kind \in [Worker -> Kinds]
ASSUME OwnAssumption    == Own \in [Worker -> Slot]
ASSUME NobodyAssumption == None \notin Worker /\ None \notin Slot
ASSUME LeftAssumption   == Left \notin Worker /\ Left # None

\* Recovery has a container of its own, and the host's cron starts a keepalive in the API's.
ASSUME OutsideAssumption ==
  /\ {w \in Worker : Kind[w] = "recovery"} \subseteq Outside
  /\ Outside \subseteq {w \in Worker : Kind[w] \in {"recovery", "keepalive"}}

VARIABLES
  base,       \* the form in which each worker holds the base lock
  leftBase,   \* the places of the base lock that failed releases have left behind
  slotLock,   \* the worker that holds each slot lock, or Left
  state,      \* the committed state of each slot row
  pending,    \* each worker's uncommitted writes to the slot rows
  browser,    \* the login each worker's browser is open on
  pc, target, \* where each worker is, and the slot it works on
  retried,    \* a grid job that has signed in again in place
  saw,        \* the slots a pass read as ACTIVE when it began
  todo        \* the slots a pass has still to visit

locks == <<base, leftBase, slotLock>>
rows  == <<state, pending>>
pass  == <<saw, todo>>
vars  == <<locks, rows, browser, pc, target, retried, pass>>

Labels == {"idle", "base", "choose", "slotlock", "open", "map", "work", "reopen", "inplace",
           "signin", "release", "unlock", "unbase", "commit", "scan", "probe", "recover", "recovering", "next"}

States == {"ACTIVE", "NEEDS_HUMAN_LOGIN"}

TypeOK ==
  /\ base \in [Worker -> {"none", "shared", "exclusive"}]
  /\ leftBase \in [{"shared", "exclusive"} -> Nat]
  /\ slotLock \in [Slot -> Worker \cup {None, Left}]
  /\ state \in [Slot -> States]
  /\ pending \in [Worker -> [Slot -> States \cup {None}]]
  /\ browser \in [Worker -> Slot \cup {None}]
  /\ pc \in [Worker -> Labels]
  /\ target \in [Worker -> Slot \cup {None}]
  /\ retried \in [Worker -> BOOLEAN]
  /\ saw \in [Worker -> SUBSET Slot]
  /\ todo \in [Worker -> SUBSET Slot]

Nothing == [s \in Slot |-> None]
NoneLeft == [f \in {"shared", "exclusive"} |-> 0]

Init ==
  /\ base = [w \in Worker |-> "none"] /\ leftBase = NoneLeft /\ slotLock = Nothing
  /\ state \in [Slot -> States] /\ pending = [w \in Worker |-> Nothing]
  /\ browser = [w \in Worker |-> None]
  /\ pc = [w \in Worker |-> "idle"] /\ target = [w \in Worker |-> None]
  /\ retried = [w \in Worker |-> FALSE]
  /\ saw = [w \in Worker |-> {}] /\ todo = [w \in Worker |-> {}]
--------------------------------------------------------------------------------
(* Helpers.  Definitions named <operator>_<bug> are the operator with a plausible *)
(* bug; the specification never uses them.                                        *)

Goto(w, l)    == pc' = [pc EXCEPT ![w] = l]
At(w, l)      == pc[w] = l
OpenOn(w, s)  == browser' = [browser EXCEPT ![w] = s] /\ target' = [target EXCEPT ![w] = s]
CloseOf(w)    == browser' = [browser EXCEPT ![w] = None]
Write(w, s, v) == pending' = [pending EXCEPT ![w][s] = v]

ActiveSlots == {s \in Slot : state[s] = "ACTIVE"}

\* At most as many base-lock holders as there are ACTIVE slots.
BaseForm(w) ==
  IF Kind[w] \in {"spot"} \cup Passes \/ Concurrency < 2 \/ Cardinality(ActiveSlots) < 2
    THEN "exclusive"
    ELSE "shared"

BaseFree(f) ==
  /\ leftBase["exclusive"] = 0 /\ \A v \in Worker : base[v] # "exclusive"
  /\ IF f = "shared"
       THEN Cardinality({v \in Worker : base[v] = "shared"}) + leftBase["shared"] < 2
       ELSE leftBase["shared"] = 0 /\ \A v \in Worker : base[v] = "none"

TakeBase(w, f) == BaseFree(f) /\ base' = [base EXCEPT ![w] = f]
TakeSlot(w, s) == slotLock[s] = None /\ slotLock' = [slotLock EXCEPT ![s] = w]
DropSlots(w)   == slotLock' = [s \in Slot |-> IF slotLock[s] = w THEN None ELSE slotLock[s]]
DropBase(w)    == base' = [base EXCEPT ![w] = "none"]

\* The lock object goes, and what it wrote to Redis stays until it expires.
LeaveSlots(w) == slotLock' = [s \in Slot |-> IF slotLock[s] = w THEN Left ELSE slotLock[s]]
LeaveBase(w) ==
  /\ base' = [base EXCEPT ![w] = "none"]
  /\ leftBase' = IF base[w] = "none" THEN leftBase ELSE [leftBase EXCEPT ![base[w]] = @ + 1]

\* The row of slot s is locked while another transaction has written it.
RowFree(w, s) == \A v \in Worker \ {w} : pending[v][s] = None

Committed(w) == [s \in Slot |-> IF pending[w][s] = None THEN state[s] ELSE pending[w][s]]
CommitOf(w)  == state' = Committed(w) /\ pending' = [pending EXCEPT ![w] = Nothing]

\* An exception ends the job or the pass: its transaction is rolled back.
Raise(w) ==
  /\ Goto(w, "idle")
  /\ pending' = [pending EXCEPT ![w] = Nothing] /\ UNCHANGED state
  /\ target' = [target EXCEPT ![w] = None] /\ retried' = [retried EXCEPT ![w] = FALSE]
  /\ saw' = [saw EXCEPT ![w] = {}] /\ todo' = [todo EXCEPT ![w] = {}]
--------------------------------------------------------------------------------
(* Jobs: a grid job (shard or plain), a search-harvest tick, a case-ID walk, a spot check. *)

\* A harvest tick asks for its slot's state before it takes any lock.
StartJob(w) ==
  /\ At(w, "idle") /\ Kind[w] \notin Passes
  /\ Kind[w] = "harvest" => state[Own[w]] = "ACTIVE"
  /\ Goto(w, "base")
  /\ UNCHANGED <<locks, rows, browser, target, retried, pass>>

LockBase(w) ==
  /\ At(w, "base")
  /\ \/ TakeBase(w, BaseForm(w)) /\ Goto(w, "choose")
     \/ ~BaseFree(BaseForm(w)) /\ Goto(w, "idle") /\ UNCHANGED base
  /\ UNCHANGED <<leftBase, slotLock, rows, browser, target, retried, pass>>

\* A shard runs on its own slot only, and only while it is ACTIVE; a harvest tick does not
\* look again; the walk claims an ACTIVE slot that is free (claim_free_slot); the others take
\* the slot in use, which is any ACTIVE one.
Choices(w) ==
  CASE Kind[w] = "harvest" -> {Own[w]}
    [] Kind[w] = "shard"   -> {Own[w]} \cap ActiveSlots
    [] Kind[w] = "walk"    -> {s \in ActiveSlots : slotLock[s] = None}
    [] OTHER               -> ActiveSlots

\* A spot check opens its browser under the base lock alone.
Choose(w) ==
  /\ At(w, "choose")
  /\ \/ \E s \in Choices(w) :
          IF Kind[w] = "spot"
            THEN OpenOn(w, s) /\ Goto(w, "work")
            ELSE target' = [target EXCEPT ![w] = s] /\ Goto(w, "slotlock") /\ UNCHANGED browser
     \/ Choices(w) = {} /\ Goto(w, "release") /\ UNCHANGED <<browser, target>>
  /\ UNCHANGED <<locks, rows, retried, pass>>

LockSlot(w) ==
  /\ At(w, "slotlock")
  /\ \/ TakeSlot(w, target[w]) /\ Goto(w, "open")
     \/ /\ slotLock[target[w]] # None
        /\ Goto(w, IF Kind[w] = "walk" THEN "choose" ELSE "release")
        /\ UNCHANGED slotLock
  /\ UNCHANGED <<base, leftBase, rows, browser, target, retried, pass>>

Grid == {"shard", "plain"}

\* ensure_browser: the preferred slot when it is ACTIVE, else the slot in use.  A grid job
\* still holds the row it chose as ACTIVE; a harvest tick and a walk read the row only now.
Opens(w) ==
  IF Kind[w] \in Grid \/ state[target[w]] = "ACTIVE" THEN {target[w]} ELSE ActiveSlots

Open(w) ==
  /\ At(w, "open")
  /\ \/ \E s \in Opens(w) : OpenOn(w, s)
        /\ Goto(w, IF Kind[w] \in Grid THEN "map" ELSE "work")
     \/ Opens(w) = {} /\ Goto(w, "release") /\ UNCHANGED <<browser, target>>
  /\ UNCHANGED <<locks, rows, retried, pass>>

\* The search surface is mapped before the first window.
MapLoaded(w) ==
  /\ At(w, "map") /\ Goto(w, "work")
  /\ UNCHANGED <<locks, rows, browser, target, retried, pass>>

\* The ladder of a job whose slot is not exclusive: on to another ACTIVE slot, after a lost
\* login (marked) or a second disconnect.
Alternate(w) ==
  /\ At(w, "map") /\ Kind[w] = "plain" /\ ~retried[w]
  /\ \/ RowFree(w, target[w]) /\ Write(w, target[w], "NEEDS_HUMAN_LOGIN")
     \/ UNCHANGED pending
  /\ \E s \in ActiveSlots \ {target[w]} : OpenOn(w, s)
  /\ Goto(w, "work")
  /\ UNCHANGED <<locks, state, retried, pass>>

\* Any failure while the surface is mapped ends the job, and run_source rolls back what it wrote.
MapLost(w) ==
  /\ At(w, "map")
  /\ CloseOf(w) /\ Goto(w, "release")
  /\ UNCHANGED <<locks, rows, target, retried, pass>>

\* _charge_page commits before each page.
Charge(w) ==
  /\ At(w, "work") /\ pending[w] # Nothing
  /\ CommitOf(w)
  /\ UNCHANGED <<locks, browser, pc, target, retried, pass>>

Held(w) == {s \in Slot : slotLock[s] = w}

\* The runner marks the slot of its browser; a grid job about to sign in again also marks the
\* slot it holds.
Marked(w) == {target[w]} \cup (IF Kind[w] \in Grid /\ ~retried[w] THEN Held(w) ELSE {})

\* LoginRequired at work: a grid job signs in again in place, once; a harvest tick and a spot
\* check commit the mark and end; the walk rolls it back.
LoginLost(w) ==
  /\ At(w, "work") /\ \A s \in Marked(w) : RowFree(w, s)
  /\ CloseOf(w)
  /\ CASE Kind[w] \in Grid ->
            /\ pending' = [pending EXCEPT ![w] = [s \in Slot |->
                  IF s \in Marked(w) THEN "NEEDS_HUMAN_LOGIN" ELSE @[s]]]
            /\ Goto(w, IF retried[w] THEN "release" ELSE "inplace") /\ UNCHANGED state
       [] Kind[w] = "walk" -> Goto(w, "release") /\ UNCHANGED rows
       [] OTHER ->
            /\ state' = [state EXCEPT ![target[w]] = "NEEDS_HUMAN_LOGIN"]
            /\ Goto(w, "release") /\ UNCHANGED pending
  /\ UNCHANGED <<locks, target, retried, pass>>

\* _recover_slot_after_login_loss, on the slot the job holds; the recovery may only have
\* been scheduled.
SignInHere(w) ==
  /\ At(w, "inplace")
  /\ \/ \E s \in Held(w) : OpenOn(w, s) /\ Goto(w, "signin")
     \/ Goto(w, "release") /\ UNCHANGED <<browser, target>>
  /\ UNCHANGED <<locks, rows, retried, pass>>

SignedInHere(w) ==
  /\ At(w, "signin")
  /\ CloseOf(w)
  /\ \/ /\ Goto(w, "open")
        /\ state' = [Committed(w) EXCEPT ![target[w]] = "ACTIVE"]
        /\ pending' = [pending EXCEPT ![w] = Nothing]
        /\ retried' = [retried EXCEPT ![w] = TRUE]
     \/ Goto(w, "release") /\ UNCHANGED <<rows, retried>>
  /\ UNCHANGED <<locks, target, pass>>

\* BrowserDisconnected: close, wait, and open the same slot again.
Disconnect(w) ==
  /\ At(w, "work") /\ Kind[w] # "spot"
  /\ CloseOf(w) /\ Goto(w, "reopen")
  /\ UNCHANGED <<locks, rows, target, retried, pass>>

Reopen(w) ==
  /\ At(w, "reopen")
  /\ IF Kind[w] \notin Grid /\ state[target[w]] # "ACTIVE"
       THEN Goto(w, "release") /\ UNCHANGED <<browser, target>>
       ELSE OpenOn(w, target[w]) /\ Goto(w, "work")
  /\ UNCHANGED <<locks, rows, retried, pass>>

\* The memory guard closes a harvest's browser; the next page opens one again.
Recycle(w) ==
  /\ At(w, "work") /\ Kind[w] = "harvest"
  /\ CloseOf(w) /\ Goto(w, "open")
  /\ UNCHANGED <<locks, rows, target, retried, pass>>

\* Done, out of page budget, preempted, blocked.
Finish(w) ==
  /\ At(w, "work") /\ Goto(w, "release")
  /\ UNCHANGED <<locks, rows, browser, target, retried, pass>>

\* It gives back the base lock as well, so that the tick need not wait for its end.
Yield_BothLocks(w) ==
  /\ Yields /\ At(w, "work") /\ Kind[w] \in Grid
  /\ DropSlots(w) /\ DropBase(w) /\ Goto(w, "release")
  /\ UNCHANGED <<leftBase, rows, browser, target, retried, pass>>

\* A grid job that gives way to the search harvest gives its slot lock back at once, and closes
\* its browser only in the finally block.
Yield(w) ==
  /\ Yields /\ At(w, "work") /\ Kind[w] \in Grid
  /\ DropSlots(w) /\ Goto(w, "release")
  /\ UNCHANGED <<base, leftBase, rows, browser, target, retried, pass>>

\* The finally blocks, one await after the other: the browser is closed first.
CloseBrowser(w) ==
  /\ At(w, "release") /\ Goto(w, "unlock")
  /\ CloseOf(w)
  /\ UNCHANGED <<locks, rows, target, retried, pass>>

\* Then the slot lock is released.  An error there passes over the release of the base lock.
UnlockSlot(w) ==
  /\ At(w, "unlock")
  /\ \/ /\ DropSlots(w) /\ Goto(w, "unbase")
        /\ UNCHANGED <<base, leftBase, rows, target, retried, pass>>
     \/ /\ RedisFails /\ Held(w) # {}
        /\ LeaveSlots(w) /\ LeaveBase(w) /\ Raise(w)
  /\ UNCHANGED browser

\* Last the base lock.
UnlockBase(w) ==
  /\ At(w, "unbase")
  /\ \/ /\ DropBase(w) /\ Goto(w, "commit")
        /\ UNCHANGED <<leftBase, rows, target, retried, pass>>
     \/ RedisFails /\ LeaveBase(w) /\ Raise(w)
  /\ UNCHANGED <<slotLock, browser>>

\* run_source commits after the connector has returned.
EndJob(w) ==
  /\ At(w, "commit") /\ Goto(w, "idle")
  /\ CommitOf(w)
  /\ target' = [target EXCEPT ![w] = None]
  /\ retried' = [retried EXCEPT ![w] = FALSE]
  /\ UNCHANGED <<locks, browser, pass>>
--------------------------------------------------------------------------------
(* Passes over the slots: recovery, keepalive, stall watchdog. *)

\* The slot rows are read once; keepalive runs only while no key of a login lock exists (a look
\* that fails counts as none).
StartPass(w) ==
  /\ At(w, "idle") /\ Kind[w] \in Passes
  /\ \/ Kind[w] # "keepalive" \/ RedisFails
     \/ /\ leftBase = NoneLeft /\ slotLock = Nothing
        /\ \A v \in Worker : base[v] = "none"
  /\ saw' = [saw EXCEPT ![w] = ActiveSlots]
  /\ todo' = [todo EXCEPT ![w] = Slot]
  /\ Goto(w, "scan")
  /\ UNCHANGED <<locks, rows, browser, target, retried>>

\* An ACTIVE slot is skipped by recovery and probed, under the exclusive base lock, by the
\* others; any other slot is recovered, unless its next attempt is not due.  In slot order.
Visit(w) ==
  /\ At(w, "scan")
  /\ \E s \in todo[w] :
       /\ \A r \in todo[w] : s <= r
       /\ todo' = [todo EXCEPT ![w] = @ \ {s}]
       /\ \/ s \in saw[w] /\ Kind[w] = "recovery" /\ UNCHANGED <<base, browser, target, pc>>
          \/ /\ s \in saw[w] /\ Kind[w] # "recovery"
             /\ \/ TakeBase(w, "exclusive") /\ OpenOn(w, s) /\ Goto(w, "probe")
                \/ ~BaseFree("exclusive") /\ UNCHANGED <<base, browser, target, pc>>
          \/ /\ s \notin saw[w]
             /\ \/ target' = [target EXCEPT ![w] = s] /\ Goto(w, "recover")
                \/ UNCHANGED <<target, pc>>
             /\ UNCHANGED <<base, browser>>
  /\ UNCHANGED <<leftBase, slotLock, rows, saw, retried>>

\* A slot found dead is marked, with the lock already released.
EndProbe(w) ==
  /\ At(w, "probe") /\ CloseOf(w)
  /\ \/ /\ DropBase(w)
        /\ \/ Goto(w, "scan") /\ UNCHANGED pending
           \/ /\ RowFree(w, target[w])
              /\ Write(w, target[w], "NEEDS_HUMAN_LOGIN") /\ Goto(w, "recover")
        /\ UNCHANGED <<leftBase, state, target, retried, pass>>
     \/ RedisFails /\ LeaveBase(w) /\ Raise(w)
  /\ UNCHANGED slotLock

\* Recovery opens a browser without asking for the slot's lock.
StartRecover_NoLock(w) ==
  /\ At(w, "recover")
  /\ OpenOn(w, target[w]) /\ Goto(w, "recovering")
  /\ UNCHANGED <<locks, rows, retried, pass>>

\* recover_slot: only this login's own lock, then the stored session and the sign-in.
StartRecover(w) ==
  /\ At(w, "recover")
  /\ \/ TakeSlot(w, target[w]) /\ OpenOn(w, target[w]) /\ Goto(w, "recovering")
     \/ slotLock[target[w]] # None /\ Goto(w, "next") /\ UNCHANGED <<slotLock, browser, target>>
  /\ UNCHANGED <<base, leftBase, rows, retried, pass>>

\* A release that fails ends the probes' pass; the recovery pass goes on to the next slot.
EndRecover(w) ==
  /\ At(w, "recovering") /\ CloseOf(w)
  /\ \/ /\ \/ DropSlots(w)
           \/ RedisFails /\ Kind[w] = "recovery" /\ LeaveSlots(w)
        /\ Goto(w, "next")
        /\ \/ RowFree(w, target[w]) /\ Write(w, target[w], "ACTIVE")
           \/ UNCHANGED pending
        /\ UNCHANGED <<state, target, retried, pass>>
     \/ RedisFails /\ Kind[w] # "recovery" /\ LeaveSlots(w) /\ Raise(w)
  /\ UNCHANGED <<base, leftBase>>

\* Recovery commits after each slot, the probes after the last one.
NextSlot(w) ==
  /\ At(w, "next") /\ Goto(w, "scan")
  /\ IF Kind[w] = "recovery" THEN CommitOf(w) ELSE UNCHANGED rows
  /\ UNCHANGED <<locks, browser, target, retried, pass>>

EndPass(w) ==
  /\ At(w, "scan") /\ todo[w] = {}
  /\ CommitOf(w) /\ Goto(w, "idle")
  /\ saw' = [saw EXCEPT ![w] = {}]
  /\ target' = [target EXCEPT ![w] = None]
  /\ UNCHANGED <<locks, browser, todo, retried>>
--------------------------------------------------------------------------------
(* The operator, what expires, and the restart of the login-session worker. *)

HumanLogin(s) ==
  /\ HumanLogins /\ state[s] # "ACTIVE"
  /\ \A w \in Worker : pending[w][s] = None
  /\ state' = [state EXCEPT ![s] = "ACTIVE"]
  /\ UNCHANGED <<locks, pending, browser, pc, target, retried, pass>>

\* LOCK_TTL_SECONDS after a release that failed.
Expire ==
  /\ \/ \E f \in {"shared", "exclusive"} :
          leftBase[f] > 0 /\ leftBase' = [leftBase EXCEPT ![f] = @ - 1] /\ UNCHANGED slotLock
     \/ \E s \in Slot :
          slotLock[s] = Left /\ slotLock' = [slotLock EXCEPT ![s] = None] /\ UNCHANGED leftBase
  /\ UNCHANGED <<base, rows, browser, pc, target, retried, pass>>

LoginQueue == Worker \ Outside

\* The processes of the login_session queue are gone; retire_orphaned_login_jobs deletes the
\* base lock and both slot locks, whoever holds them.
Boot ==
  /\ Boots
  /\ base' = [w \in Worker |-> "none"] /\ leftBase' = NoneLeft /\ slotLock' = Nothing
  /\ pending' = [w \in Worker |-> IF w \in LoginQueue THEN Nothing ELSE pending[w]]
  /\ browser' = [w \in Worker |-> IF w \in LoginQueue THEN None ELSE browser[w]]
  /\ pc' = [w \in Worker |-> IF w \in LoginQueue THEN "idle" ELSE pc[w]]
  /\ target' = [w \in Worker |-> IF w \in LoginQueue THEN None ELSE target[w]]
  /\ retried' = [w \in Worker |-> retried[w] /\ w \notin LoginQueue]
  /\ saw' = [w \in Worker |-> IF w \in LoginQueue THEN {} ELSE saw[w]]
  /\ todo' = [w \in Worker |-> IF w \in LoginQueue THEN {} ELSE todo[w]]
  /\ UNCHANGED state
--------------------------------------------------------------------------------
Job(w) ==
  \/ StartJob(w) \/ LockBase(w) \/ Choose(w) \/ LockSlot(w) \/ Open(w)
  \/ MapLoaded(w) \/ Alternate(w) \/ MapLost(w) \/ Charge(w)
  \/ LoginLost(w) \/ SignInHere(w) \/ SignedInHere(w) \/ Disconnect(w) \/ Reopen(w)
  \/ Recycle(w) \/ Finish(w) \/ Yield(w)
  \/ CloseBrowser(w) \/ UnlockSlot(w) \/ UnlockBase(w) \/ EndJob(w)

Pass(w) ==
  \/ StartPass(w) \/ Visit(w) \/ EndProbe(w) \/ StartRecover(w) \/ EndRecover(w)
  \/ NextSlot(w) \/ EndPass(w)

Next ==
  \/ \E w \in Worker : Job(w) \/ Pass(w)
  \/ \E s \in Slot : HumanLogin(s)
  \/ Expire
  \/ Boot

Spec == Init /\ [][Next]_vars
--------------------------------------------------------------------------------
(* Properties. *)

\* Two browsers are never open on one login: the site would end one of the two sessions.
OneBrowser ==
  \A v, w \in Worker : v # w /\ browser[v] # None => browser[v] # browser[w]

\* A browser is open on a login only under the lock of that login, or, for the probe of a
\* slot and the spot check, under the exclusive base lock.
UnderItsLock ==
  \A w \in Worker :
    browser[w] # None => slotLock[browser[w]] = w \/ base[w] = "exclusive"

\* Whoever has a browser open holds a lock: keepalive, its cron and a deploy look at the four
\* lock keys to learn that a login is in use, and a job that yields or changes slot, or whose
\* slot is no longer the one it locked, must still be seen there.
SeenAtWork ==
  \A w \in Worker : browser[w] # None => base[w] # "none" \/ Held(w) # {}
================================================================================
