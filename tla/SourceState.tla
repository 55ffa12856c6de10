------------------------------ MODULE SourceState ------------------------------
(***************************************************************************)
(* The state of the PakistanLawSite source and of its two login slots, as  *)
(* rows of PostgreSQL that several sessions read and write at once: the    *)
(* jobs that lose a login or meet an explicit block, the login-recovery    *)
(* pass, an operator's login and the administrator's buttons.              *)
(*                                                                         *)
(* The sessions are made with expire_on_commit=False, so the source row a  *)
(* session has loaded stays as it was read (row) until a rollback; only    *)
(* config_json is refreshed, by merge_source_config.  What a session has   *)
(* flushed and not committed (wrote) locks its rows.  Whether a job's last *)
(* transaction is committed or rolled back depends on the job, on how far  *)
(* it had come and on the exception it ended with.                         *)
(*                                                                         *)
(* Which worker may open a browser on a login is LoginBrowsers' subject:   *)
(* here a login has at most one worker at a time.                          *)
(***************************************************************************)
EXTENDS Naturals, FiniteSets

CONSTANTS
  Worker, None,
  Slot,        \* login slots, by number
  Kind,        \* what each worker is
  Own,         \* the slot a grid job or a harvest tick is bound to
  AdminActs,   \* what the administrator does
  MaxLogins    \* bound: sign-ins per slot

Jobs  == {"grid", "harvest", "walk"}
Kinds == Jobs \cup {"recovery", "operator"}

ASSUME SlotAssumption   == Slot \subseteq Nat
ASSUME KindAssumption   == Kind \in [Worker -> Kinds]
ASSUME OwnAssumption    == Own \in [Worker -> Slot]
ASSUME AdminAssumption  == AdminActs \subseteq {"pause", "resume", "review", "slot"}
ASSUME NobodyAssumption ==
  None \notin Slot /\ None \notin {"ACTIVE", "PAUSED", "HALTED", "GUARDED", "NEEDS_HUMAN_LOGIN", "EMPTY"}
ASSUME LoginsAssumption == MaxLogins \in Nat

VARIABLES
  source,   \* the committed source row: state, paused_by_admin, requires_admin_review
  slot,     \* the committed state of each slot row
  login,    \* the committed session of each slot: which sign-in, its latest renewal, and
            \* whether it is still stored
  row,      \* the source row as each worker's session holds it
  wrote,    \* each worker's flushed, uncommitted writes
  seen,     \* the slot rows as a recovery pass holds them
  pc, at,   \* where each worker is, and the slot it works on
  opened,   \* the stored session its browser was opened with
  retried,  \* a grid job that has signed in again in place
  todo      \* the slots a recovery pass has still to visit

rows    == <<source, slot, login>>
session == <<row, wrote, seen>>
worker  == <<pc, at, opened, retried, todo>>
vars    == <<rows, session, worker>>

SourceStates == {"ACTIVE", "PAUSED", "HALTED"}
\* A HALTED slot is GUARDED when the address guard (url_policy) halted it, HALTED when the site
\* showed a block.
Halts        == {"HALTED", "GUARDED"}
SlotStates   == {"ACTIVE", "NEEDS_HUMAN_LOGIN", "PAUSED", "EMPTY"} \cup Halts
Labels       == {"idle", "choose", "map", "work", "inplace", "commit", "rollback",
                 "scan", "recovering", "signing", "checking"}
Logins       == [sign_in : 0..MaxLogins, renewal : 0..1, stored : BOOLEAN]
NoRow        == [state |-> "ACTIVE", admin |-> FALSE]   \* a closed session holds no row
NoSlots      == [s \in Slot |-> [state |-> "EMPTY", login |-> None]]
NoWrites     == [source |-> None, slot |-> [s \in Slot |-> None]]

TypeOK ==
  /\ source \in [state : SourceStates, admin : BOOLEAN, review : BOOLEAN]
  /\ slot \in [Slot -> SlotStates]
  /\ login \in [Slot -> Logins]
  /\ row \in [Worker -> [state : SourceStates, admin : BOOLEAN]]
  /\ wrote \in [Worker -> [source : SourceStates \cup {None},
                           slot : [Slot -> SlotStates \cup {None}]]]
  /\ seen \in [Worker -> [Slot -> [state : SlotStates, login : Logins \cup {None}]]]
  /\ pc \in [Worker -> Labels]
  /\ at \in [Worker -> Slot \cup {None}]
  /\ opened \in [Worker -> Logins \cup {None}]
  /\ retried \in [Worker -> BOOLEAN]
  /\ todo \in [Worker -> SUBSET Slot]

\* Both slots were signed in once; one of them may have been lost since.
Init ==
  /\ source = [state |-> "ACTIVE", admin |-> FALSE, review |-> FALSE]
  /\ slot \in {f \in [Slot -> {"ACTIVE", "NEEDS_HUMAN_LOGIN"}] : \E s \in Slot : f[s] = "ACTIVE"}
  /\ login = [s \in Slot |-> [sign_in |-> 0, renewal |-> 0, stored |-> TRUE]]
  /\ row = [w \in Worker |-> NoRow]
  /\ wrote = [w \in Worker |-> NoWrites]
  /\ seen = [w \in Worker |-> NoSlots]
  /\ pc = [w \in Worker |-> "idle"]
  /\ at = [w \in Worker |-> None]
  /\ opened = [w \in Worker |-> None]
  /\ retried = [w \in Worker |-> FALSE]
  /\ todo = [w \in Worker |-> {}]
--------------------------------------------------------------------------------
(* Rows, sessions and transactions. *)

At(w, l)   == pc[w] = l
Goto(w, l) == pc' = [pc EXCEPT ![w] = l]

\* A row is locked while another session has written it and not committed.
SourceFree(w)  == \A v \in Worker \ {w} : wrote[v].source = None
SlotFree(w, s) == \A v \in Worker \ {w} : wrote[v].slot[s] = None

\* The rows as session w reads them now: what is committed, under its own writes.
SlotRead(w, s) == IF wrote[w].slot[s] = None THEN slot[s] ELSE wrote[w].slot[s]

\* The lock of this login is taken; an operator takes none.
InUse(s) == \E w \in Worker : Kind[w] # "operator" /\ at[w] = s

SessionOf(w) == [row |-> row[w], wrote |-> wrote[w]]

\* A flush waits for the rows it writes.
Flushable(w, x) ==
  /\ x.wrote.source # wrote[w].source => SourceFree(w)
  /\ \A s \in Slot : x.wrote.slot[s] # wrote[w].slot[s] => SlotFree(w, s)

\* The session of w becomes x.
Flush(w, x) ==
  /\ Flushable(w, x)
  /\ row' = [row EXCEPT ![w] = x.row]
  /\ wrote' = [wrote EXCEPT ![w] = x.wrote]

\* Only what was written is stored; halt_source also asks for an admin's review.
Committed(x) ==
  IF x.wrote.source = None THEN source
  ELSE [source EXCEPT !.state = x.wrote.source, !.review = @ \/ x.wrote.source = "HALTED"]

\* The session of w becomes x, and is committed.
Commit(w, x) ==
  /\ Flushable(w, x)
  /\ source' = Committed(x)
  /\ slot' = [s \in Slot |-> IF x.wrote.slot[s] = None THEN slot[s] ELSE x.wrote.slot[s]]
  /\ wrote' = [wrote EXCEPT ![w] = NoWrites]

\* A session ends, with the browser closed and the locks released.
Leave(w) ==
  /\ Goto(w, "idle")
  /\ row' = [row EXCEPT ![w] = NoRow]
  /\ seen' = [seen EXCEPT ![w] = NoSlots]
  /\ at' = [at EXCEPT ![w] = None]
  /\ opened' = [opened EXCEPT ![w] = None]
  /\ retried' = [retried EXCEPT ![w] = FALSE]
--------------------------------------------------------------------------------
(* What SessionManager does to a session's rows, as functions of the session. *)

\* pause_source: an UPDATE names the columns the session holds another value of, and no others.
Pausing(x) ==
  IF x.row.state = "PAUSED" THEN x
  ELSE [x EXCEPT !.row.state = "PAUSED", !.wrote.source = "PAUSED"]

Halting(x, s, as) ==
  [x EXCEPT !.row.state = "HALTED", !.wrote.source = "HALTED", !.wrote.slot[s] = as]

\* mark_needs_human_login: with no other ACTIVE slot the source is paused.
Marking(w, x, s) ==
  LET marked == [x EXCEPT !.wrote.slot[s] = "NEEDS_HUMAN_LOGIN"] IN
  IF \E r \in Slot \ {s} : SlotRead(w, r) = "ACTIVE" THEN marked ELSE Pausing(marked)

\* _resume_source_if_paused(respect_admin=True), by what the session holds of the row.
Resuming(x) ==
  IF x.row.state = "PAUSED" /\ ~x.row.admin
    THEN [x EXCEPT !.row.state = "ACTIVE", !.wrote.source = "ACTIVE"]
    ELSE x

Activating(x, s) == Resuming([x EXCEPT !.wrote.slot[s] = "ACTIVE"])

--------------------------------------------------------------------------------
(* Jobs. *)

\* run_source and run_search_harvest: a paused or halted source is not run.
Start(w) ==
  /\ At(w, "idle") /\ Kind[w] \in Jobs
  /\ source.state = "ACTIVE" /\ SourceFree(w)
  /\ row' = [row EXCEPT ![w] = [state |-> "ACTIVE", admin |-> source.admin]]
  /\ Goto(w, "choose")
  /\ UNCHANGED <<rows, wrote, seen, at, opened, retried, todo>>

\* A login is opened though its lock is taken.
Candidates_NoLock(w) ==
  {s \in Slot : slot[s] = "ACTIVE" /\ login[s].stored /\ (Kind[w] = "walk" \/ s = Own[w])}

Candidates(w) ==
  {s \in Slot : slot[s] = "ACTIVE" /\ login[s].stored /\ ~InUse(s)
                 /\ (Kind[w] = "walk" \/ s = Own[w])}

\* A grid job that finds no ACTIVE slot at all pauses the source.
Choose(w) ==
  /\ At(w, "choose")
  /\ \/ \E s \in Candidates(w) :
          /\ at' = [at EXCEPT ![w] = s]
          /\ opened' = [opened EXCEPT ![w] = login[s]]
          /\ Goto(w, IF Kind[w] = "grid" THEN "map" ELSE "work")
          /\ UNCHANGED <<rows, session, retried, todo>>
     \/ /\ Candidates(w) = {} /\ Kind[w] = "grid" /\ \A s \in Slot : slot[s] # "ACTIVE"
        /\ Flush(w, Pausing(SessionOf(w))) /\ Goto(w, "commit")
        /\ UNCHANGED <<rows, seen, at, opened, retried, todo>>
     \/ /\ Candidates(w) = {} /\ (Kind[w] = "grid" => \E s \in Slot : slot[s] = "ACTIVE")
        /\ Leave(w)
        /\ UNCHANGED <<rows, wrote, todo>>

\* The search surface is mapped, and the first window begins.
Mapped(w) ==
  /\ At(w, "map") /\ Goto(w, "work")
  /\ UNCHANGED <<rows, session, at, opened, retried, todo>>

\* _charge_page merges the page counter and commits; the merge refreshes config_json.
Charge(w) ==
  /\ At(w, "work") /\ SourceFree(w)
  /\ row' = [row EXCEPT ![w].admin = source.admin]
  /\ UNCHANGED <<rows, wrote, seen, worker>>

\* The cookies are stored whatever the row holds by now.
Renewable_Always(w) == slot[at[w]] = "ACTIVE"

\* refresh_storage_state: compare-and-update against the session the browser was opened with.
Renewable(w) == slot[at[w]] = "ACTIVE" /\ login[at[w]] = opened[w]

Renewed(w) == [opened[w] EXCEPT !.renewal = 1 - @]

\* _persist_live_session, after each window of the grid; it commits.
Renew(w) ==
  /\ At(w, "work") /\ Kind[w] = "grid" /\ SlotFree(w, at[w])
  /\ Renewable(w)
  /\ login' = [login EXCEPT ![at[w]] = Renewed(w)]
  /\ opened' = [opened EXCEPT ![w] = Renewed(w)]
  /\ UNCHANGED <<source, slot, session, pc, at, retried, todo>>

\* Which endings commit what the job wrote: a grid job's windows catch everything, but nothing
\* is caught around the mapping of the surface; a harvest tick catches LoginRequired; the walk
\* catches it and rolls back.
Commits(w, why) ==
  \/ Kind[w] = "grid" /\ At(w, "work")
  \/ Kind[w] = "harvest" /\ why = "login"

\* The runner closes the browser, marks or halts, and raises (its slot is exclusive).
Fail(w, why) ==
  /\ \/ At(w, "work")
     \/ At(w, "map")
  /\ LET x == SessionOf(w) IN
       Flush(w, CASE why \in {"login", "verification"} -> Marking(w, x, at[w])
                  [] why = "block"                     -> Halting(x, at[w], "HALTED")
                  [] why = "address"                   -> Halting(x, at[w], "GUARDED")
                  [] OTHER                             -> x)
  /\ Goto(w, IF Kind[w] = "grid" /\ At(w, "work") /\ why = "login" /\ ~retried[w] THEN "inplace"
             ELSE IF Commits(w, why) THEN "commit" ELSE "rollback")
  /\ UNCHANGED <<rows, seen, at, opened, retried, todo>>

Finish(w) ==
  /\ At(w, "work") /\ Goto(w, "commit")
  /\ UNCHANGED <<rows, session, at, opened, retried, todo>>

Reasons == {"login", "verification", "block", "address", "disconnected"}

\* recover_slot finds the stored session alive, and stores the cookies the site renewed while
\* it looked; or it signs in with the saved credentials.
Verified(w, s) == {login[s]} \cup (IF login[s] = opened[w] THEN {Renewed(w)} ELSE {})

Signed(s)   == [sign_in |-> login[s].sign_in + 1, renewal |-> 0, stored |-> TRUE]
SignedIn(s) == IF login[s].sign_in < MaxLogins THEN {Signed(s)} ELSE {}

\* recover_slot with the job's own lock held, on the login it has just marked: the stored
\* session is alive, the saved credentials sign in, the site blocks, or nothing comes of it.
\* A job does this once.
InPlace(w) ==
  /\ At(w, "inplace")
  /\ LET s == at[w] IN
     \/ \E l \in Verified(w, s) \cup SignedIn(s) :
          /\ Commit(w, Activating(SessionOf(w), s))
          /\ row' = [row EXCEPT ![w] = Activating(SessionOf(w), s).row]
          /\ login' = [login EXCEPT ![s] = l]
          /\ opened' = [opened EXCEPT ![w] = IF l.stored THEN l ELSE @]
          /\ retried' = [retried EXCEPT ![w] = TRUE]
          /\ Goto(w, "map")
     \/ /\ Flush(w, Halting(SessionOf(w), s, "HALTED"))
        /\ Goto(w, "commit") /\ UNCHANGED <<rows, opened, retried>>
     \/ Goto(w, "commit") /\ UNCHANGED <<rows, row, wrote, opened, retried>>
  /\ UNCHANGED <<seen, at, todo>>

EndJob(w) ==
  /\ \/ At(w, "commit") /\ Commit(w, SessionOf(w))
     \/ /\ At(w, "rollback")
        /\ wrote' = [wrote EXCEPT ![w] = NoWrites]
        /\ UNCHANGED <<source, slot>>
  /\ Leave(w)
  /\ UNCHANGED <<login, todo>>
--------------------------------------------------------------------------------
(* The login-recovery pass. *)

\* The source and the slot rows are read once, at the start of the pass.
StartPass(w) ==
  /\ At(w, "idle") /\ Kind[w] = "recovery" /\ source.state # "HALTED"
  /\ row' = [row EXCEPT ![w] = [state |-> source.state, admin |-> source.admin]]
  /\ seen' = [seen EXCEPT ![w] = [s \in Slot |-> [state |-> slot[s], login |-> login[s]]]]
  /\ todo' = [todo EXCEPT ![w] = Slot]
  /\ Goto(w, "scan")
  /\ UNCHANGED <<rows, wrote, at, opened, retried>>

First(S) == CHOOSE s \in S : \A r \in S : s <= r

Recoverable(x) == x \in {"NEEDS_HUMAN_LOGIN", "EMPTY"}

\* The next slot: recovered when it is lost, its attempt is due and its lock is free.
Visit(w) ==
  /\ At(w, "scan") /\ todo[w] # {}
  /\ LET s == First(todo[w]) IN
       /\ todo' = [todo EXCEPT ![w] = @ \ {s}]
       /\ \/ /\ Recoverable(seen[w][s].state) /\ ~InUse(s)
             /\ at' = [at EXCEPT ![w] = s]
             /\ opened' = [opened EXCEPT ![w] = seen[w][s].login]
             /\ Goto(w, "recovering")
          \/ UNCHANGED <<at, opened, pc>>
  /\ UNCHANGED <<rows, session, retried>>

\* release_dns_halt: the host the guard refused resolves to public addresses again, so the slot
\* waits for a login; it is recovered at once when an attempt is due and its lock is free.
Release(w) ==
  /\ At(w, "scan") /\ todo[w] # {}
  /\ LET s == First(todo[w])
         x == [SessionOf(w) EXCEPT !.wrote.slot[s] = "NEEDS_HUMAN_LOGIN"] IN
       /\ seen[w][s].state = "GUARDED"
       /\ seen' = [seen EXCEPT ![w][s].state = "NEEDS_HUMAN_LOGIN"]
       /\ todo' = [todo EXCEPT ![w] = @ \ {s}]
       /\ \/ /\ Flush(w, x) /\ ~InUse(s)
             /\ at' = [at EXCEPT ![w] = s]
             /\ opened' = [opened EXCEPT ![w] = seen[w][s].login]
             /\ Goto(w, "recovering")
             /\ UNCHANGED <<source, slot>>
          \/ Commit(w, x) /\ UNCHANGED <<row, at, opened, pc>>
  /\ UNCHANGED <<login, retried>>

Between(w) ==
  /\ Goto(w, "scan")
  /\ at' = [at EXCEPT ![w] = None]
  /\ opened' = [opened EXCEPT ![w] = None]

CanVerify(w, s) == seen[w][s].state = "NEEDS_HUMAN_LOGIN" /\ seen[w][s].login.stored

\* recover_slot: alive, signed in again, blocked, or failed (the attempt is merged into
\* config_json).
Recover(w) ==
  /\ At(w, "recovering")
  /\ LET s == at[w]
         x == Activating(SessionOf(w), s) IN
     \/ \E l \in (IF CanVerify(w, s) THEN Verified(w, s) ELSE {}) \cup SignedIn(s) :
          /\ Commit(w, x)
          /\ row' = [row EXCEPT ![w] = x.row]
          /\ login' = [login EXCEPT ![s] = l]
          /\ seen' = [seen EXCEPT ![w][s].state = "ACTIVE"]
          /\ Between(w)
          /\ UNCHANGED <<retried, todo>>
     \/ /\ Commit(w, Halting(SessionOf(w), s, "HALTED"))
        /\ Leave(w)
        /\ todo' = [todo EXCEPT ![w] = {}]
        /\ UNCHANGED login
     \/ /\ SourceFree(w) /\ Commit(w, SessionOf(w))
        /\ row' = [row EXCEPT ![w].admin = source.admin]
        /\ Between(w)
        /\ UNCHANGED <<login, seen, retried, todo>>

\* The last slot's row is still the one the pass read; the others are read again.
SlotSeen(w, s) == IF \A r \in Slot : r <= s THEN seen[w][s].state ELSE slot[s]

\* Only a pass that recovered a slot itself looks at a paused source.
Resumable_OwnRecovery(w) ==
  row[w].state = "PAUSED" /\ ~row[w].admin /\ \E s \in Slot : seen[w][s].state = "ACTIVE" /\ slot[s] # "ACTIVE"

Resumable(w) ==
  row[w].state = "PAUSED" /\ ~row[w].admin /\ \E s \in Slot : SlotSeen(w, s) = "ACTIVE"

\* resume_paused_source, when the pause is older than the cool-down.
Resume(w) ==
  /\ At(w, "scan") /\ todo[w] = {} /\ Resumable(w)
  /\ Commit(w, Resuming(SessionOf(w)))
  /\ Leave(w)
  /\ UNCHANGED <<login, todo>>

EndPass(w) ==
  /\ At(w, "scan") /\ todo[w] = {}
  /\ Leave(w)
  /\ UNCHANGED <<rows, wrote, todo>>
--------------------------------------------------------------------------------
(* The operator's login, and the administrator. *)

\* start_login is refused on a HALTED source.
StartLogin(w) ==
  /\ At(w, "idle") /\ Kind[w] = "operator" /\ source.state # "HALTED"
  /\ \E s \in Slot : at' = [at EXCEPT ![w] = s]
  /\ Goto(w, "signing")
  /\ UNCHANGED <<rows, session, opened, retried, todo>>

\* complete_login reads the source row, and then loads a page to see whether it is signed in.
CheckLogin(w) ==
  /\ At(w, "signing")
  /\ row' = [row EXCEPT ![w] = [state |-> source.state, admin |-> source.admin]]
  /\ Goto(w, "checking")
  /\ UNCHANGED <<rows, wrote, seen, at, opened, retried, todo>>

\* save_storage_state by a human, which lifts an admin's pause too; or no login after all.
CompleteLogin(w) ==
  /\ At(w, "checking")
  /\ LET s == at[w]
         x == Activating([SessionOf(w) EXCEPT !.row.admin = FALSE], s) IN
       \/ /\ Flushable(w, x) /\ login[s].sign_in < MaxLogins
          /\ slot' = [slot EXCEPT ![s] = "ACTIVE"]
          /\ login' = [login EXCEPT ![s] = Signed(s)]
          /\ source' = [Committed(x) EXCEPT !.admin = @ /\ ~(row[w].state = "PAUSED" /\ row[w].admin)]
       \/ UNCHANGED rows
  /\ Leave(w)
  /\ UNCHANGED <<wrote, todo>>

NobodyWrites == \A w \in Worker : wrote[w] = NoWrites

\* change_state: pause; resume, unless the source is HALTED; re_enable, which needs a reviewer, or
\* retry_now, which needs one on a HALTED source: both send halted slots to a human.
Admin ==
  /\ NobodyWrites
  /\ \/ /\ "pause" \in AdminActs
        /\ source' = [source EXCEPT !.state = "PAUSED", !.admin = TRUE]
        /\ UNCHANGED slot
     \/ /\ "resume" \in AdminActs /\ source.state # "HALTED"
        /\ source' = [source EXCEPT !.state = "ACTIVE", !.admin = FALSE]
        /\ UNCHANGED slot
     \/ /\ "review" \in AdminActs
        /\ source' = [state |-> "ACTIVE", admin |-> FALSE, review |-> FALSE]
        /\ slot' = [s \in Slot |-> IF slot[s] \in Halts THEN "NEEDS_HUMAN_LOGIN" ELSE slot[s]]
  /\ UNCHANGED <<login, session, worker>>

\* slot_action: pause, resume (not a HALTED slot, nor one without a session), clear.
AdminSlot(s) ==
  /\ "slot" \in AdminActs /\ \A w \in Worker : wrote[w].slot[s] = None
  /\ \E to \in {"PAUSED", "ACTIVE", "EMPTY"} :
       /\ to = "ACTIVE" => slot[s] \notin Halts /\ login[s].stored
       /\ slot' = [slot EXCEPT ![s] = to]
       /\ login' = [login EXCEPT ![s].stored = @ /\ to # "EMPTY"]
  /\ UNCHANGED <<source, session, worker>>
--------------------------------------------------------------------------------
Job(w) ==
  \/ Start(w) \/ Choose(w) \/ Mapped(w) \/ Charge(w) \/ Renew(w)
  \/ \E why \in Reasons : Fail(w, why)
  \/ Finish(w) \/ InPlace(w) \/ EndJob(w)

Pass(w) == StartPass(w) \/ Visit(w) \/ Release(w) \/ Recover(w) \/ Resume(w) \/ EndPass(w)

Login(w) == StartLogin(w) \/ CheckLogin(w) \/ CompleteLogin(w)

Next ==
  \/ \E w \in Worker : Job(w) \/ Pass(w) \/ Login(w)
  \/ Admin
  \/ \E s \in Slot : AdminSlot(s)

Spec == Init /\ [][Next]_vars

\* Sessions end their transactions, and Beat starts a recovery pass every minute.  A pause that
\* lasts outlives the cool-down, so of the passes that could resume it one does.
FairSpec ==
  /\ Spec
  /\ \A w \in Worker : WF_vars(InPlace(w) \/ EndJob(w) \/ Pass(w)) /\ SF_vars(Resume(w))
--------------------------------------------------------------------------------
(* Properties. *)

\* A new login is never replaced by the cookies of an older one, and a session an admin cleared
\* does not come back: "A human login completed meanwhile, or an admin clear, [...] wins; the
\* stale browser's cookies never overwrite it" (refresh_storage_state).
RenewalKeepsLogin ==
  [][\A s \in Slot :
       /\ login'[s].sign_in >= login[s].sign_in
       /\ login'[s].stored /\ ~login[s].stored => login'[s].sign_in > login[s].sign_in]_vars

\* A job that ends because the site took its login does not leave that login ACTIVE: the next
\* job would open the dead session again.
LossMarked ==
  [][\A w \in Worker :
       Kind[w] # "walk" /\ pc[w] \in {"commit", "rollback"} /\ wrote[w].source # "HALTED"
         /\ \E s \in Slot : wrote[w].slot[s] = "NEEDS_HUMAN_LOGIN"
         /\ pc'[w] = "idle"
       => slot'[at[w]] # "ACTIVE"]_vars

\* A slot halted for a block is reopened by a reviewer, an operator or an administrator, or by a
\* recovery pass that had read its row before the block: no job marks or reactivates over a halt
\* that another session has committed, and no pass takes one it has read for a lost login.
SlotHaltSticks ==
  [][\A s \in Slot : slot[s] = "HALTED" /\ slot'[s] # "HALTED" =>
       \/ source.review /\ ~source'.review
       \/ AdminSlot(s)
       \/ \E w \in Worker : Login(w) /\ at[w] = s
       \/ \E w \in Worker : Pass(w) /\ seen[w][s].state # "HALTED"]_vars

\* No automatic step reopens a halted slot before an admin has reviewed the block ("No slot
\* switch [...] Admin must re-enable").
HaltNeedsReview ==
  [][\A s \in Slot : slot[s] = "HALTED" /\ slot'[s] # "HALTED" =>
       (source.review /\ ~source'.review) \/ (\E w \in Worker : Login(w))]_vars

\* So does a halted source.
HaltSticks == [][source.state = "HALTED" /\ source'.state # "HALTED" => ~source'.review]_vars

\* A source that runs has no block waiting for an admin's review.
ReviewFirst == source.state = "ACTIVE" => ~source.review

\* When both slots are down the source is paused, once the jobs that lost them have ended.
BothDownPauses ==
  (\A w \in Worker : pc[w] = "idle") /\ (\A s \in Slot : slot[s] = "NEEDS_HUMAN_LOGIN")
    => source.state # "ACTIVE"

\* A block the site showed a job halts the source when the job ends.
BlockHalts ==
  [][\A w \in Worker :
       pc[w] \in {"commit", "rollback"} /\ wrote[w].source = "HALTED" /\ pc'[w] = "idle"
       => source'.state = "HALTED"]_vars

\* The administrator's pause is lifted by an administrator or by a human's login only.
AdminPauseKept ==
  [][source.state = "PAUSED" /\ source.admin /\ source'.state = "ACTIVE" => ~source'.admin]_vars

\* A pause for want of a login does not outlive the login's return ("stays paused even after
\* its slots are ACTIVE again" is what resume_paused_source was written against).
Stuck(s) == source.state = "PAUSED" /\ ~source.admin /\ slot[s] = "ACTIVE"
PausedResumes == \A s \in Slot : Stuck(s) ~> ~Stuck(s)
================================================================================
