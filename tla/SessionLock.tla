------------------------------ MODULE SessionLock ------------------------------
(***************************************************************************)
(* The Redis lock of one login source (scraper/auth/session_manager.py,    *)
(* class SessionLock) with the modules it leans on: the tokens and the     *)
(* dead-holder test of pls_lock_holder.py, the registry of tracked locks   *)
(* (pls_lock_registry.py), its release when a worker process shuts down    *)
(* (pls_lock_shutdown.py) and the worker heartbeat                         *)
(* (pls_worker_heartbeat.py).                                              *)
(*                                                                         *)
(* One lock name has two Redis keys: an exclusive key that holds one       *)
(* token, and a sorted set of at most two shared holders, each with its    *)
(* own expiry.  Every Redis script is one atomic action; every other await *)
(* of acquire() is a step of its own, so other workers run in between.     *)
(*                                                                         *)
(* Time is a set of countdowns that Tick lowers together: a key whose      *)
(* countdown reaches zero has expired.  The sorted set's own EXPIRE is     *)
(* left out: it is renewed with every member, so it only ever removes a    *)
(* set whose members have all expired, which the prelude does anyway.      *)
(***************************************************************************)
EXTENDS Naturals, FiniteSets

CONSTANTS
  Proc,               \* worker processes (one pid on one host each)
  Host,               \* worker hosts (containers)
  HostOf,             \* the host each process runs on
  Nonce,              \* secrets.token_hex(8); a nonce in use is never drawn again
  Form,               \* the forms this lock name is taken in
  None,               \* no token
  LockTTL,            \* LOCK_TTL_SECONDS, in ticks
  AliveTTL,           \* WORKER_ALIVE_TTL_SECONDS, in ticks
  HeartbeatReliable   \* the heartbeat of a host with a running process never lapses

Token == [owner: Proc, nonce: Nonce]

ASSUME HostAssumption  == HostOf \in [Proc -> Host]
ASSUME NoneAssumption  == None \notin Token
ASSUME FormAssumption  == Form \subseteq {"exclusive", "shared", "tracked"}
ASSUME TTLAssumption   == LockTTL \in Nat \ {0} /\ AliveTTL \in Nat \ {0}
ASSUME BeatAssumption  == HeartbeatReliable \in BOOLEAN

VARIABLES
  exclusive,     \* the token under the exclusive key, or None
  exclusiveTtl,  \* ticks until the exclusive key expires
  holders,       \* the members of the sorted set
  holderTtl,     \* ticks until each member's score has passed
  aliveTtl,      \* ticks until pls:worker_alive:<host> expires
  up,            \* is the process running
  phase,         \* where the process is in acquire / refresh / release
  form,          \* the form its lock object has: max_holders, identity, track_shutdown
  token,         \* the token of its lock object
  seen,          \* the value a takeover read from the exclusive key
  registered,    \* the process's list of tracked locks (pls_lock_registry._held)
  lease          \* ticks left of what the process was last granted (history)

redis   == <<exclusive, exclusiveTtl, holders, holderTtl>>
process == <<phase, form, token, seen, registered, lease>>
vars    == <<redis, aliveTtl, up, process>>

Phases == {"idle", "refused", "read", "judge", "clear", "retry", "touch", "held"}

TypeOK ==
  /\ exclusive \in Token \cup {None}
  /\ exclusiveTtl \in 0..LockTTL
  /\ holders \subseteq Token
  /\ holderTtl \in [Token -> 0..LockTTL]
  /\ aliveTtl \in [Host -> 0..AliveTTL]
  /\ up \in [Proc -> BOOLEAN]
  /\ phase \in [Proc -> Phases]
  /\ form \in [Proc -> Form]
  /\ token \in [Proc -> Token \cup {None}]
  /\ seen \in [Proc -> Token \cup {None}]
  /\ registered \in [Proc -> SUBSET Token]
  /\ lease \in [Proc -> 0..LockTTL]

Init ==
  /\ exclusive = None /\ exclusiveTtl = 0
  /\ holders = {} /\ holderTtl = [t \in Token |-> 0]
  /\ aliveTtl = [h \in Host |-> AliveTTL]
  /\ up = [p \in Proc |-> TRUE]
  /\ phase = [p \in Proc |-> "idle"]
  /\ form \in [Proc -> Form]
  /\ token = [p \in Proc |-> None]
  /\ seen = [p \in Proc |-> None]
  /\ registered = [p \in Proc |-> {}]
  /\ lease = [p \in Proc |-> 0]
--------------------------------------------------------------------------------
(* The Redis scripts. *)

(* Definitions named <operator>_<bug> are the operator with a plausible bug; the   *)
(* specification never uses them.                                                  *)

\* The prelude of every script on the sorted set: members whose score has passed go.
LiveHolders == {t \in holders : holderTtl[t] > 0}

\* Each form looks at its own key only.
Grantable_OwnKey(f) ==
  IF f = "shared" THEN Cardinality(LiveHolders) < 2 ELSE exclusive = None

\* _try_acquire_once: the two forms exclude each other, and there are two shared places.
Grantable(f) ==
  /\ exclusive = None
  /\ IF f = "shared" THEN Cardinality(LiveHolders) < 2 ELSE LiveHolders = {}

Grant(p, t, f) ==
  /\ lease' = [lease EXCEPT ![p] = LockTTL]
  /\ IF f = "shared"
       THEN /\ holders' = LiveHolders \cup {t}
            /\ holderTtl' = [holderTtl EXCEPT ![t] = LockTTL]
            /\ UNCHANGED <<exclusive, exclusiveTtl>>
       ELSE /\ exclusive' = t /\ exclusiveTtl' = LockTTL
            /\ holders' = LiveHolders
            /\ UNCHANGED holderTtl

\* Compare-and-delete on the exclusive key, for any of the tokens ts.
DeleteExclusive(ts) ==
  IF exclusive \in ts
    THEN exclusive' = None /\ exclusiveTtl' = 0
    ELSE UNCHANGED <<exclusive, exclusiveTtl>>

\* The key is renewed without comparing its value.
StillMine_Exists(p) ==
  IF form[p] = "shared" THEN LiveHolders # {} ELSE exclusive # None

\* The key of p's lock still holds p's token.
StillMine(p) ==
  IF form[p] = "shared" THEN token[p] \in LiveHolders ELSE exclusive = token[p]

\* A token of host and pid alone.
Fresh_NoNonce(t) == t \notin holders

\* A token drawn with a fresh nonce.
Fresh(t) ==
  /\ t # exclusive /\ t \notin holders
  /\ \A q \in Proc : t # seen[q] /\ t # token[q] /\ t \notin registered[q]
--------------------------------------------------------------------------------
(* Acquiring. *)

\* The heartbeat is written with the lock's own TTL.
Touch_LockTTL(h) == aliveTtl' = [aliveTtl EXCEPT ![h] = LockTTL]

\* touch_worker_alive
Touch(h) == aliveTtl' = [aliveTtl EXCEPT ![h] = AliveTTL]

\* What follows a grant: a lock with an identity touches the heartbeat before it is registered.
AfterGrant(f) == IF f = "tracked" THEN "touch" ELSE "held"

\* acquire(): a new lock object, and the first _try_acquire_once.
Acquire(p) ==
  /\ up[p] /\ phase[p] \in {"idle", "refused"}
  /\ \E n \in Nonce, f \in Form :
       LET t == [owner |-> p, nonce |-> n] IN
       /\ Fresh(t)
       /\ form' = [form EXCEPT ![p] = f]
       /\ \/ /\ Grantable(f)
             /\ Grant(p, t, f)
             /\ token' = [token EXCEPT ![p] = t]
             /\ phase' = [phase EXCEPT ![p] = AfterGrant(f)]
          \/ /\ ~Grantable(f)
             /\ holders' = LiveHolders
             /\ phase' = [phase EXCEPT ![p] = IF f = "tracked" THEN "read" ELSE "refused"]
             /\ token' = [token EXCEPT ![p] = IF f = "tracked" THEN t ELSE None]
             /\ UNCHANGED <<exclusive, exclusiveTtl, holderTtl, lease>>
  /\ UNCHANGED <<aliveTtl, up, seen, registered>>

\* raise SessionLockHeld: the lock object is dropped.
Refuse(p) ==
  /\ phase' = [phase EXCEPT ![p] = "refused"]
  /\ token' = [token EXCEPT ![p] = None]

Forget(p) == seen' = [seen EXCEPT ![p] = None]

\* The takeover reads the holder's value; a key that has gone meanwhile still means "held".
ReadHolder(p) ==
  /\ up[p] /\ phase[p] = "read"
  /\ IF exclusive = None
       THEN Refuse(p) /\ UNCHANGED seen
       ELSE /\ seen' = [seen EXCEPT ![p] = exclusive]
            /\ phase' = [phase EXCEPT ![p] = "judge"]
            /\ UNCHANGED token
  /\ UNCHANGED <<redis, aliveTtl, up, form, registered, lease>>

\* lock_value_holder_stale: a pid of this host is asked for, another host by its heartbeat.
HolderStale(p, t) ==
  IF HostOf[t.owner] = HostOf[p] THEN ~up[t.owner] ELSE aliveTtl[HostOf[t.owner]] = 0

JudgeHolder(p) ==
  /\ up[p] /\ phase[p] = "judge"
  /\ IF HolderStale(p, seen[p])
       THEN phase' = [phase EXCEPT ![p] = "clear"] /\ UNCHANGED <<token, seen>>
       ELSE Refuse(p) /\ Forget(p)
  /\ UNCHANGED <<redis, aliveTtl, up, form, registered, lease>>

\* _clear_exclusive_if_value
ClearStale(p) ==
  /\ up[p] /\ phase[p] = "clear"
  /\ DeleteExclusive({seen[p]})
  /\ Forget(p)
  /\ IF exclusive = seen[p]
       THEN phase' = [phase EXCEPT ![p] = "retry"] /\ UNCHANGED token
       ELSE Refuse(p)
  /\ UNCHANGED <<holders, holderTtl, aliveTtl, up, form, registered, lease>>

RetryAcquire(p) ==
  /\ up[p] /\ phase[p] = "retry"
  /\ \/ /\ Grantable(form[p])
        /\ Grant(p, token[p], form[p])
        /\ phase' = [phase EXCEPT ![p] = "touch"]
        /\ UNCHANGED token
     \/ /\ ~Grantable(form[p])
        /\ holders' = LiveHolders
        /\ Refuse(p)
        /\ UNCHANGED <<exclusive, exclusiveTtl, holderTtl, lease>>
  /\ UNCHANGED <<aliveTtl, up, form, seen, registered>>

\* touch_worker_alive, then _register_shutdown_track.
TouchAndRegister(p) ==
  /\ up[p] /\ phase[p] = "touch"
  /\ Touch(HostOf[p])
  /\ registered' = [registered EXCEPT ![p] = @ \cup {token[p]}]
  /\ phase' = [phase EXCEPT ![p] = "held"]
  /\ UNCHANGED <<redis, up, form, token, seen, lease>>
--------------------------------------------------------------------------------
(* Holding and letting go. *)

\* One EXPIRE for the whole set: the places of all members are renewed.
Renewed_WholeSet(p) ==
  [t \in Token |-> IF t \in LiveHolders THEN LockTTL ELSE holderTtl[t]]

\* ZADD XX: a shared holder renews its own score.
Renewed(p) == [holderTtl EXCEPT ![token[p]] = LockTTL]

\* refresh(): renew what is still mine; otherwise drop it and raise SessionLockHeld.
Refresh(p) ==
  /\ up[p] /\ phase[p] = "held"
  /\ IF form[p] = "tracked" THEN Touch(HostOf[p]) ELSE UNCHANGED aliveTtl
  /\ holders' = IF form[p] = "shared" THEN LiveHolders ELSE holders
  /\ \/ /\ StillMine(p)
        /\ IF form[p] = "shared"
             THEN holderTtl' = Renewed(p) /\ UNCHANGED exclusiveTtl
             ELSE exclusiveTtl' = LockTTL /\ UNCHANGED holderTtl
        /\ lease' = [lease EXCEPT ![p] = LockTTL]
        /\ UNCHANGED <<phase, token, registered>>
     \/ /\ ~StillMine(p)
        /\ Refuse(p)
        /\ registered' = [registered EXCEPT ![p] = @ \ {token[p]}]
        /\ lease' = [lease EXCEPT ![p] = 0]
        /\ UNCHANGED <<exclusiveTtl, holderTtl>>
  /\ UNCHANGED <<exclusive, up, form, seen>>

\* release(): unregister, then delete the token if the key still holds it.  When Redis
\* does not answer the token stays behind until it expires.
Release(p) ==
  /\ up[p] /\ phase[p] = "held"
  /\ registered' = [registered EXCEPT ![p] = @ \ {token[p]}]
  /\ phase' = [phase EXCEPT ![p] = "idle"]
  /\ token' = [token EXCEPT ![p] = None]
  /\ lease' = [lease EXCEPT ![p] = 0]
  /\ \/ IF form[p] = "shared"
          THEN /\ holders' = LiveHolders \ {token[p]}
               /\ holderTtl' = [holderTtl EXCEPT ![token[p]] = 0]
               /\ UNCHANGED <<exclusive, exclusiveTtl>>
          ELSE DeleteExclusive({token[p]}) /\ UNCHANGED <<holders, holderTtl>>
     \/ UNCHANGED redis
  /\ UNCHANGED <<aliveTtl, up, form, seen>>

\* The process ends: nothing it knew survives, what it wrote to Redis does.
Gone(p) ==
  /\ up' = [up EXCEPT ![p] = FALSE]
  /\ phase' = [phase EXCEPT ![p] = "idle"]
  /\ token' = [token EXCEPT ![p] = None]
  /\ seen' = [seen EXCEPT ![p] = None]
  /\ registered' = [registered EXCEPT ![p] = {}]
  /\ lease' = [lease EXCEPT ![p] = 0]
  /\ UNCHANGED <<holders, holderTtl, aliveTtl, form>>

\* worker_process_shutdown: release_all_registered_sync.
Shutdown(p) ==
  /\ up[p]
  /\ DeleteExclusive(registered[p])
  /\ Gone(p)

\* SIGKILL, out of memory, host loss.
Crash(p) ==
  /\ up[p]
  /\ UNCHANGED <<exclusive, exclusiveTtl>>
  /\ Gone(p)

\* A new process under the same pid (a restarted container draws the same pids again).
Restart(p) ==
  /\ ~up[p]
  /\ up' = [up EXCEPT ![p] = TRUE]
  /\ IF HeartbeatReliable THEN Touch(HostOf[p]) ELSE UNCHANGED aliveTtl
  /\ UNCHANGED <<redis, process>>

\* One round of the heartbeat thread of a running process.
Beat(p) ==
  /\ up[p]
  /\ Touch(HostOf[p])
  /\ UNCHANGED <<redis, up, process>>

Lower(n) == IF n = 0 THEN 0 ELSE n - 1

Tick ==
  /\ HeartbeatReliable => \A p \in Proc : up[p] => aliveTtl[HostOf[p]] > 1
  /\ exclusive' = IF exclusiveTtl <= 1 THEN None ELSE exclusive
  /\ exclusiveTtl' = Lower(exclusiveTtl)
  /\ holderTtl' = [t \in Token |-> Lower(holderTtl[t])]
  /\ aliveTtl' = [h \in Host |-> Lower(aliveTtl[h])]
  /\ lease' = [p \in Proc |-> Lower(lease[p])]
  /\ UNCHANGED <<holders, up, phase, form, token, seen, registered>>
--------------------------------------------------------------------------------
Step(p) ==
  \/ Acquire(p) \/ ReadHolder(p) \/ JudgeHolder(p) \/ ClearStale(p) \/ RetryAcquire(p)
  \/ TouchAndRegister(p) \/ Refresh(p) \/ Release(p)
  \/ Shutdown(p) \/ Crash(p) \/ Restart(p) \/ Beat(p)

Next == Tick \/ \E p \in Proc : Step(p)

Spec == Init /\ [][Next]_vars

\* Time passes, and the heartbeat thread of a process that stays up keeps its period.
FairSpec == Spec /\ WF_vars(Tick) /\ \A p \in Proc : WF_vars(Beat(p) /\ aliveTtl' # aliveTtl)
--------------------------------------------------------------------------------
(* Properties. *)

\* What the lock excludes, in Redis: an exclusive holder and shared holders never coexist
\* and there are never more than two shared holders ("Check and acquire both keys in one
\* script so a recovery browser cannot overlap a dual-shard harvest browser").
Exclusion ==
  /\ exclusive # None => LiveHolders = {}
  /\ Cardinality(LiveHolders) <= 2

\* A process that holds the lock, and was granted it less than a TTL ago, is still the
\* owner in Redis: no release, expiry, shutdown or takeover of another worker ever takes
\* a lock from under a live holder.  (A takeover that outlives its evidence, a release of
\* an expired lock and a reused pid are what could.)
WithinLease(p) == phase[p] \in {"touch", "held"} /\ lease[p] > 0

LeaseHonoured == \A p \in Proc : WithinLease(p) => StillMine(p)

\* Two processes within their leases never hold the lock in forms that exclude each other.
HoldersCompatible ==
  \A p, q \in Proc :
    p # q /\ WithinLease(p) /\ WithinLease(q) => form[p] = "shared" /\ form[q] = "shared"

\* The lock implements the lease its callers rely on.
ModeOf(t) == IF exclusive = t THEN "exclusive" ELSE IF t \in LiveHolders THEN "shared" ELSE "none"

Promise == INSTANCE Lease WITH Owner <- Token, mode <- [t \in Token |-> ModeOf(t)]
ImplementsLease == Promise!LeaseSpec

\* The token of a process that no longer holds it does not keep the lock for ever.
Orphan(t) == token[t.owner] # t \/ phase[t.owner] \in {"idle", "refused"}
OrphanFreed == \A t \in Token : (exclusive = t /\ Orphan(t)) ~> (exclusive # t)

\* Nor does it keep one of the two shared places: a shard that was killed, or whose release
\* Redis did not answer, "drops out on its own instead of keeping its place while the other
\* holder refreshes", however often that one does.
PlaceFreed == \A t \in Token : (t \in LiveHolders /\ Orphan(t)) ~> (t \notin LiveHolders)
================================================================================
