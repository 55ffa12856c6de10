--------------------------- MODULE SessionLockProofs ---------------------------
(* Machine-checked proofs about SessionLock, for any processes, hosts and TTLs. *)
EXTENDS SessionLock, FiniteSetTheorems, TLAPS

(***************************************************************************)
(* Type correctness.                                                       *)
(***************************************************************************)
\* A process has a token exactly while it is acquiring or holding, the token is its own,
\* at most that token is registered for release at shutdown, and only the tracked form
\* goes through a takeover.
TokenOf(p) ==
  /\ phase[p] \in {"idle", "refused"} => token[p] = None
  /\ phase[p] \notin {"idle", "refused"} => token[p] \in Token /\ token[p].owner = p
  /\ registered[p] \subseteq IF phase[p] = "held" THEN {token[p]} ELSE {}
  /\ phase[p] \in {"read", "judge", "clear", "retry"} => form[p] = "tracked"
  /\ ~up[p] => phase[p] = "idle"

TokenOK == \A p \in Proc : TokenOf(p)

\* Every operation of a process keeps every variable within its type.
LEMMA StepType ==
  ASSUME NEW p \in Proc, TypeOK, TokenOK, Step(p)
  PROVE  TypeOK'
<1> USE NoneAssumption, FormAssumption, TTLAssumption, HostAssumption
<1>0. LiveHolders \subseteq holders
  BY DEF LiveHolders
<1>1. CASE Acquire(p)
  <2>1. PICK n \in Nonce, f \in Form :
          LET t == [owner |-> p, nonce |-> n] IN
          /\ form' = [form EXCEPT ![p] = f]
          /\ \/ /\ Grant(p, t, f)
                /\ token' = [token EXCEPT ![p] = t]
                /\ phase' = [phase EXCEPT ![p] = AfterGrant(f)]
             \/ /\ holders' = LiveHolders
                /\ phase' = [phase EXCEPT ![p] = IF f = "tracked" THEN "read" ELSE "refused"]
                /\ token' = [token EXCEPT ![p] = IF f = "tracked" THEN t ELSE None]
                /\ UNCHANGED <<exclusive, exclusiveTtl, holderTtl, lease>>
    BY <1>1 DEF Acquire
  <2>2. [owner |-> p, nonce |-> n] \in Token
    BY DEF Token
  <2>3. UNCHANGED <<aliveTtl, up, seen, registered>>
    BY <1>1 DEF Acquire
  <2> QED  BY <1>0, <2>1, <2>2, <2>3 DEF TypeOK, Grant, AfterGrant, Phases
<1>2. CASE ReadHolder(p)
  BY <1>2 DEF TypeOK, ReadHolder, Refuse, Phases, redis
<1>3. CASE JudgeHolder(p)
  BY <1>3 DEF TypeOK, JudgeHolder, Refuse, Forget, Phases, redis
<1>4. CASE ClearStale(p)
  BY <1>4 DEF TypeOK, ClearStale, DeleteExclusive, Refuse, Forget, Phases
<1>5. CASE RetryAcquire(p)
  <2>1. token[p] \in Token
    BY <1>5 DEF TokenOK, TokenOf, RetryAcquire
  <2> QED  BY <1>0, <1>5, <2>1 DEF TypeOK, RetryAcquire, Grant, Refuse, Phases
<1>6. CASE TouchAndRegister(p)
  <2>1. token[p] \in Token
    BY <1>6 DEF TokenOK, TokenOf, TouchAndRegister
  <2> QED  BY <1>6, <2>1 DEF TypeOK, TouchAndRegister, Touch, Phases, redis
<1>7. CASE Refresh(p)
  BY <1>0, <1>7 DEF TypeOK, Refresh, Touch, Refuse, Renewed, StillMine, Phases
<1>8. CASE Release(p)
  BY <1>0, <1>8 DEF TypeOK, Release, DeleteExclusive, Phases, redis
<1>9. CASE Shutdown(p)
  BY <1>9 DEF TypeOK, Shutdown, Gone, DeleteExclusive, Phases
<1>10. CASE Crash(p)
  BY <1>10 DEF TypeOK, Crash, Gone, Phases
<1>11. CASE Restart(p)
  BY <1>11 DEF TypeOK, Restart, Touch, redis, process
<1>12. CASE Beat(p)
  BY <1>12 DEF TypeOK, Beat, Touch, redis, process
<1> QED
  BY <1>1, <1>2, <1>3, <1>4, <1>5, <1>6, <1>7, <1>8, <1>9, <1>10, <1>11, <1>12 DEF Step

\* A process writes only its own part of the process state.
LEMMA OthersUntouched ==
  ASSUME NEW p \in Proc, NEW q \in Proc, q # p, TypeOK, Step(p)
  PROVE  /\ phase'[q] = phase[q] /\ token'[q] = token[q] /\ registered'[q] = registered[q]
         /\ up'[q] = up[q] /\ form'[q] = form[q] /\ seen'[q] = seen[q] /\ lease'[q] = lease[q]
<1> USE DEF TypeOK
<1>1. CASE Acquire(p)
  BY <1>1 DEF Acquire, Grant
<1>2. CASE ReadHolder(p) \/ JudgeHolder(p) \/ ClearStale(p)
  BY <1>2 DEF ReadHolder, JudgeHolder, ClearStale, Refuse, Forget
<1>3. CASE RetryAcquire(p)
  BY <1>3 DEF RetryAcquire, Grant, Refuse
<1>4. CASE TouchAndRegister(p) \/ Refresh(p)
  BY <1>4 DEF TouchAndRegister, Refresh, Refuse
<1>5. CASE Release(p)
  BY <1>5 DEF Release
<1>6. CASE Shutdown(p) \/ Crash(p)
  BY <1>6 DEF Shutdown, Crash, Gone
<1>7. CASE Restart(p) \/ Beat(p)
  BY <1>7 DEF Restart, Beat, process
<1> QED  BY <1>1, <1>2, <1>3, <1>4, <1>5, <1>6, <1>7 DEF Step

\* Every operation of a process keeps its token and its registry in step with its phase.
LEMMA StepToken ==
  ASSUME NEW p \in Proc, TypeOK, TokenOK, Step(p)
  PROVE  TokenOK'
<1>1. TokenOf(p)
  BY DEF TokenOK
<1>2. TokenOf(p)'
  <2> USE <1>1, NoneAssumption DEF TypeOK, TokenOf
  <2>1. CASE Acquire(p)
    <3>1. PICK n \in Nonce, f \in Form :
            LET t == [owner |-> p, nonce |-> n] IN
            /\ form' = [form EXCEPT ![p] = f]
            /\ \/ /\ token' = [token EXCEPT ![p] = t]
                  /\ phase' = [phase EXCEPT ![p] = AfterGrant(f)]
               \/ /\ phase' = [phase EXCEPT ![p] = IF f = "tracked" THEN "read" ELSE "refused"]
                  /\ token' = [token EXCEPT ![p] = IF f = "tracked" THEN t ELSE None]
      BY <2>1 DEF Acquire
    <3>2. [owner |-> p, nonce |-> n] \in Token
      BY DEF Token
    <3>3. UNCHANGED <<up, registered>> /\ up[p] /\ registered[p] = {}
      BY <2>1 DEF Acquire
    <3> QED  BY <3>1, <3>2, <3>3 DEF AfterGrant
  <2>2. CASE ReadHolder(p) \/ JudgeHolder(p) \/ ClearStale(p) \/ RetryAcquire(p)
    <3>1. phase[p] \notin {"idle", "refused", "held", "touch"} /\ up[p] /\ UNCHANGED <<up, registered, form>>
      BY <2>2 DEF ReadHolder, JudgeHolder, ClearStale, RetryAcquire
    <3>2. \/ phase'[p] = "refused" /\ token'[p] = None
          \/ phase'[p] \in {"judge", "clear", "retry", "touch"} /\ token'[p] = token[p]
      BY <2>2 DEF ReadHolder, JudgeHolder, ClearStale, RetryAcquire, Refuse
    <3>3. token[p] \in Token /\ registered[p] = {} /\ form[p] = "tracked"
      BY <3>1 DEF Phases
    <3> QED  BY <3>1, <3>2, <3>3
  <2>3. CASE TouchAndRegister(p)
    BY <2>3 DEF TouchAndRegister
  <2>4. CASE Refresh(p)
    BY <2>4 DEF Refresh, Refuse
  <2>5. CASE Release(p)
    BY <2>5 DEF Release
  <2>6. CASE Shutdown(p) \/ Crash(p)
    BY <2>6 DEF Shutdown, Crash, Gone
  <2>7. CASE Restart(p) \/ Beat(p)
    BY <2>7 DEF Restart, Beat, process
  <2> QED  BY <2>1, <2>2, <2>3, <2>4, <2>5, <2>6, <2>7 DEF Step
<1>3. ASSUME NEW q \in Proc, q # p
      PROVE  TokenOf(q)'
  <2>1. /\ phase'[q] = phase[q] /\ token'[q] = token[q]
        /\ registered'[q] = registered[q] /\ up'[q] = up[q] /\ form'[q] = form[q]
    BY <1>3, OthersUntouched
  <2> QED  BY <2>1 DEF TokenOK, TokenOf
<1> QED  BY <1>2, <1>3 DEF TokenOK

\* So does the passing of time.
LEMMA TickType ==
  ASSUME TypeOK, Tick
  PROVE  TypeOK'
<1>1. \A N \in Nat : \A n \in 0..N : Lower(n) \in 0..N
  BY DEF Lower
<1> QED  BY <1>1, TTLAssumption DEF TypeOK, Tick

\* Types and tokens together are inductive.
LEMMA Typing == Spec => [](TypeOK /\ TokenOK)
<1>1. Init => TypeOK /\ TokenOK
  BY TTLAssumption DEF Init, TypeOK, TokenOK, TokenOf, Phases
<1>2. TypeOK /\ TokenOK /\ [Next]_vars => TypeOK' /\ TokenOK'
  <2>1. TypeOK /\ TokenOK /\ Tick => TypeOK' /\ TokenOK'
    BY TickType DEF Tick, TokenOK, TokenOf
  <2>2. TypeOK /\ TokenOK /\ UNCHANGED vars => TypeOK' /\ TokenOK'
    BY DEF TypeOK, TokenOK, TokenOf, vars, redis, process
  <2> QED  BY <2>1, <2>2, StepType, StepToken DEF Next
<1> QED  BY <1>1, <1>2, PTL DEF Spec

\* Every value the lock and its processes hold is of its type, for any number of
\* processes and hosts.
THEOREM TypeCorrect == Spec => []TypeOK
BY Typing, PTL
--------------------------------------------------------------------------------
(***************************************************************************)
(* Exclusion in Redis: the inductive invariant adds that the sorted set is *)
(* finite, which the cardinality bound needs.                              *)
(***************************************************************************)
ExclusionInv ==
  /\ IsFiniteSet(holders)
  /\ Exclusion

\* The prelude only removes members, so it lowers their number.
LEMMA LiveFinite ==
  ASSUME IsFiniteSet(holders)
  PROVE  IsFiniteSet(LiveHolders) /\ Cardinality(LiveHolders) \in Nat
BY FS_Subset, FS_CardinalityType DEF LiveHolders

\* Fewer live members never exceed two either.
LEMMA FewerLive ==
  ASSUME NEW S, IsFiniteSet(S), Cardinality(S) <= 2, NEW T \in SUBSET S
  PROVE  IsFiniteSet(T) /\ Cardinality(T) <= 2
<1>1. Cardinality(T) \in Nat /\ Cardinality(S) \in Nat /\ Cardinality(T) <= Cardinality(S)
  BY FS_Subset, FS_CardinalityType
<1> QED  BY <1>1, FS_Subset

\* A grant keeps the two forms apart and fills at most the second shared place.
LEMMA GrantKeepsExclusion ==
  ASSUME NEW p \in Proc, NEW t \in Token, NEW f \in {"exclusive", "shared", "tracked"},
         TypeOK, ExclusionInv, Grantable(f), Grant(p, t, f)
  PROVE  ExclusionInv'
<1>1. IsFiniteSet(LiveHolders) /\ Cardinality(LiveHolders) \in Nat
  BY LiveFinite DEF ExclusionInv
<1>2. CASE f = "shared"
  <2>1. holders' = LiveHolders \cup {t} /\ exclusive' = None
    BY <1>2 DEF Grant, Grantable
  <2>2. IsFiniteSet(holders') /\ Cardinality(holders') <= 2
    <3>1. Cardinality(LiveHolders) < 2
      BY <1>2 DEF Grantable
    <3>2. /\ IsFiniteSet(LiveHolders \cup {t})
          /\ Cardinality(LiveHolders \cup {t}) =
               IF t \in LiveHolders THEN Cardinality(LiveHolders) ELSE Cardinality(LiveHolders) + 1
      BY <1>1, FS_AddElement, Zenon
    <3> QED  BY <1>1, <2>1, <3>1, <3>2
  <2>3. LiveHolders' \subseteq holders'
    BY DEF LiveHolders
  <2> QED  BY <2>1, <2>2, <2>3, FewerLive DEF ExclusionInv, Exclusion
<1>3. CASE f # "shared"
  <2>1. holders' = {} /\ LiveHolders' = {}
    BY <1>3 DEF Grant, Grantable, LiveHolders
  <2> QED  BY <2>1, FS_EmptySet DEF ExclusionInv, Exclusion
<1> QED  BY <1>2, <1>3

\* Whatever only removes live members, and never sets the exclusive key, is harmless.
LEMMA ShrinkKeepsExclusion ==
  ASSUME ExclusionInv, holders' \subseteq holders, LiveHolders' \subseteq LiveHolders,
         exclusive' \in {exclusive, None}
  PROVE  ExclusionInv'
<1>1. IsFiniteSet(holders') /\ IsFiniteSet(LiveHolders)
  BY FS_Subset, LiveFinite DEF ExclusionInv
<1>2. Cardinality(LiveHolders') <= 2
  BY <1>1, FewerLive DEF ExclusionInv, Exclusion
<1> QED  BY <1>1, <1>2 DEF ExclusionInv, Exclusion

\* Every operation of a process grants the lock to a token that is not in Redis, or only
\* removes what is there.
Granted(p) ==
  \E t \in Token, f \in {"exclusive", "shared", "tracked"} :
    t \notin LiveHolders /\ Grantable(f) /\ Grant(p, t, f)

Shrunk ==
  /\ holders' \subseteq holders
  /\ LiveHolders' \subseteq LiveHolders
  /\ exclusive' \in {exclusive, None}

LEMMA StepShape ==
  ASSUME NEW p \in Proc, TypeOK, TokenOK, Step(p)
  PROVE  Granted(p) \/ Shrunk
<1> USE FormAssumption
<1>1. ASSUME holders' \in {holders, LiveHolders}, UNCHANGED <<exclusive, holderTtl>>
      PROVE  Shrunk
  BY <1>1 DEF LiveHolders, Shrunk
<1>2. CASE Acquire(p)
  <2>1. PICK n \in Nonce, f \in Form :
          /\ Fresh([owner |-> p, nonce |-> n])
          /\ \/ Grantable(f) /\ Grant(p, [owner |-> p, nonce |-> n], f)
             \/ holders' = LiveHolders /\ UNCHANGED <<exclusive, holderTtl>>
    BY <1>2 DEF Acquire
  <2>2. [owner |-> p, nonce |-> n] \in Token /\ [owner |-> p, nonce |-> n] \notin LiveHolders
    BY <2>1 DEF Token, Fresh, LiveHolders
  <2>3. f \in {"exclusive", "shared", "tracked"}
    OBVIOUS
  <2> QED  BY <1>1, <2>1, <2>2, <2>3 DEF Granted
<1>3. CASE RetryAcquire(p)
  <2>1. token[p] \in Token /\ form[p] = "tracked"
    BY <1>3 DEF RetryAcquire, TokenOK, TokenOf
  <2>2. \/ Grantable(form[p]) /\ Grant(p, token[p], form[p])
        \/ holders' = LiveHolders /\ UNCHANGED <<exclusive, holderTtl>>
    BY <1>3 DEF RetryAcquire
  <2>3. Grantable(form[p]) => token[p] \notin LiveHolders
    BY <2>1 DEF Grantable
  <2> QED  BY <1>1, <2>1, <2>2, <2>3 DEF Granted
<1>4. CASE ClearStale(p) \/ Shutdown(p) \/ Crash(p)
  <2>1. holders' = holders /\ holderTtl' = holderTtl /\ exclusive' \in {exclusive, None}
    BY <1>4 DEF ClearStale, Shutdown, Crash, Gone, DeleteExclusive
  <2> QED  BY <2>1 DEF LiveHolders, Shrunk
<1>5. CASE Refresh(p)
  <2>1. holders' \subseteq holders /\ exclusive' = exclusive
    BY <1>5 DEF Refresh, LiveHolders
  <2>2. CASE form[p] = "shared" /\ StillMine(p)
    <3>1. token[p] \in LiveHolders /\ holders' = LiveHolders
      BY <1>5, <2>2 DEF Refresh, StillMine
    <3> QED  BY <2>1, <3>1 DEF LiveHolders, Shrunk
  <2>3. CASE ~(form[p] = "shared" /\ StillMine(p))
    <3>1. holders' \in {holders, LiveHolders} /\ holderTtl' = holderTtl
      BY <1>5, <2>3 DEF Refresh
    <3> QED  BY <2>1, <3>1 DEF LiveHolders, Shrunk
  <2> QED  BY <2>2, <2>3
<1>6. CASE Release(p)
  <2>1. holders' \subseteq holders /\ exclusive' \in {exclusive, None}
    BY <1>6 DEF Release, DeleteExclusive, LiveHolders, redis
  <2>2. \/ holders' = LiveHolders \ {token[p]} /\ holderTtl' = [holderTtl EXCEPT ![token[p]] = 0]
        \/ holders' = holders /\ holderTtl' = holderTtl
    BY <1>6 DEF Release, redis
  <2> QED  BY <2>1, <2>2 DEF LiveHolders, TypeOK, Shrunk
<1>7. CASE ReadHolder(p) \/ JudgeHolder(p) \/ TouchAndRegister(p) \/ Restart(p) \/ Beat(p)
  <2>1. UNCHANGED redis
    BY <1>7 DEF ReadHolder, JudgeHolder, TouchAndRegister, Restart, Beat
  <2> QED  BY <1>1, <2>1 DEF redis
<1> QED  BY <1>2, <1>3, <1>4, <1>5, <1>6, <1>7 DEF Step

LEMMA TickShape ==
  ASSUME TypeOK, Tick
  PROVE  Shrunk
<1>1. \A t \in Token : holderTtl'[t] > 0 => holderTtl[t] > 0
  BY TTLAssumption DEF Tick, Lower, TypeOK
<1> QED  BY <1>1 DEF LiveHolders, Tick, TypeOK, Shrunk

\* The exclusion invariant is inductive.
LEMMA ExclusionInductive == Spec => []ExclusionInv
<1>1. Init => ExclusionInv
  <2>1. Init => holders = {} /\ LiveHolders = {}
    BY DEF Init, LiveHolders
  <2> QED  BY <2>1, FS_EmptySet DEF ExclusionInv, Exclusion
<1>2. TypeOK /\ TokenOK /\ ExclusionInv /\ [Next]_vars => ExclusionInv'
  <2>1. ExclusionInv /\ UNCHANGED vars => ExclusionInv'
    BY DEF ExclusionInv, Exclusion, LiveHolders, vars, redis
  <2>2. ExclusionInv /\ Shrunk => ExclusionInv'
    BY ShrinkKeepsExclusion DEF Shrunk
  <2>3. \A p \in Proc : TypeOK /\ ExclusionInv /\ Granted(p) => ExclusionInv'
    BY GrantKeepsExclusion DEF Granted
  <2> QED  BY <2>1, <2>2, <2>3, StepShape, TickShape DEF Next
<1> QED  BY <1>1, <1>2, Typing, PTL DEF Spec

\* In Redis an exclusive holder and shared holders never coexist, and there are never
\* more than two shared holders, however the workers' scripts interleave.
THEOREM LockExcludes == Spec => []Exclusion
BY ExclusionInductive, PTL DEF ExclusionInv
--------------------------------------------------------------------------------
(***************************************************************************)
(* A live holder keeps its lock.  The takeover is the only step that       *)
(* deletes a token its process did not draw; between its judgement and its *)
(* deletion stands the evidence that the token's process has let go of it, *)
(* and fresh nonces keep that evidence true however long it is held.       *)
(***************************************************************************)
BeatInv == \A p \in Proc : up[p] => aliveTtl[HostOf[p]] > 0

SeenOf(p) == phase[p] \in {"judge", "clear"} => seen[p] \in Token

EvidenceOf(p) == phase[p] = "clear" => token[seen[p].owner] # seen[p]

LeaseOf(p) ==
  WithinLease(p) =>
    IF form[p] = "shared"
      THEN token[p] \in holders /\ holderTtl[token[p]] >= lease[p]
      ELSE exclusive = token[p] /\ exclusiveTtl >= lease[p]

LeaseInv ==
  /\ BeatInv
  /\ \A p \in Proc : SeenOf(p) /\ EvidenceOf(p) /\ LeaseOf(p)

\* With reliable heartbeats every host with a running process has a live heartbeat key.
LEMMA BeatPreserved ==
  ASSUME TypeOK, HeartbeatReliable, BeatInv, [Next]_vars
  PROVE  BeatInv'
<1> USE TTLAssumption, HostAssumption DEF TypeOK, BeatInv
<1>1. ASSUME NEW p \in Proc, Step(p)
      PROVE  BeatInv'
  <2>1. \/ aliveTtl' = aliveTtl
        \/ aliveTtl' = [aliveTtl EXCEPT ![HostOf[p]] = AliveTTL]
    BY <1>1 DEF Step, Acquire, ReadHolder, JudgeHolder, ClearStale, RetryAcquire, TouchAndRegister,
                Refresh, Release, Shutdown, Crash, Gone, Restart, Beat, Touch
  <2>2. CASE Restart(p)
    BY <2>2 DEF Restart, Touch
  <2>3. CASE ~Restart(p)
    <3>1. \A q \in Proc : up'[q] => up[q]
      BY <1>1, <2>3 DEF Step, Acquire, ReadHolder, JudgeHolder, ClearStale, RetryAcquire,
                        TouchAndRegister, Refresh, Release, Shutdown, Crash, Gone, Beat
    <3> QED  BY <2>1, <3>1
  <2> QED  BY <2>2, <2>3
<1>2. ASSUME Tick
      PROVE  BeatInv'
  BY <1>2 DEF Tick, Lower
<1>3. ASSUME UNCHANGED vars
      PROVE  BeatInv'
  BY <1>3 DEF vars
<1> QED  BY <1>1, <1>2, <1>3 DEF Next

\* The evidence of a takeover survives every step: a token that was let go is never drawn again.
LEMMA EvidencePreserved ==
  ASSUME TypeOK, TokenOK, HeartbeatReliable, LeaseInv,
         NEW p \in Proc, Step(p), NEW q \in Proc
  PROVE  SeenOf(q)' /\ EvidenceOf(q)'
<1> USE NoneAssumption
<1>1. SeenOf(q) /\ EvidenceOf(q) /\ SeenOf(p) /\ EvidenceOf(p)
  BY DEF LeaseInv
<1>2. ASSUME NEW r \in Proc
      PROVE  token'[r] \in {token[r], None} \/ token'[r] # seen[q]
  <2>1. CASE r # p
    BY <2>1, OthersUntouched
  <2>2. CASE r = p /\ Acquire(p)
    <3>1. PICK n \in Nonce, f \in Form :
            /\ Fresh([owner |-> p, nonce |-> n])
            /\ \/ token' = [token EXCEPT ![p] = [owner |-> p, nonce |-> n]]
               \/ token' = [token EXCEPT ![p] = IF f = "tracked" THEN [owner |-> p, nonce |-> n] ELSE None]
      BY <2>2 DEF Acquire
    <3>2. [owner |-> p, nonce |-> n] # seen[q]
      BY <3>1 DEF Fresh
    <3>3. token'[p] \in {[owner |-> p, nonce |-> n], None}
      BY <3>1 DEF TypeOK
    <3> QED  BY <2>2, <3>2, <3>3
  <2>3. CASE r = p /\ (ReadHolder(p) \/ JudgeHolder(p) \/ ClearStale(p) \/ RetryAcquire(p))
    BY <2>3 DEF ReadHolder, JudgeHolder, ClearStale, RetryAcquire, Refuse, TypeOK
  <2>4. CASE r = p /\ (TouchAndRegister(p) \/ Refresh(p) \/ Restart(p) \/ Beat(p))
    BY <2>4 DEF TouchAndRegister, Refresh, Restart, Beat, Refuse, process, TypeOK
  <2>5. CASE r = p /\ (Release(p) \/ Shutdown(p) \/ Crash(p))
    BY <2>5 DEF Release, Shutdown, Crash, Gone, TypeOK
  <2> QED  BY <2>1, <2>2, <2>3, <2>4, <2>5 DEF Step
<1>3. CASE q # p
  <2>1. phase'[q] = phase[q] /\ seen'[q] = seen[q]
    BY <1>3, OthersUntouched
  <2>2. ASSUME phase[q] = "clear"
        PROVE  token'[seen[q].owner] # seen[q]
    <3>1. seen[q] \in Token /\ seen[q].owner \in Proc
      BY <1>1, <2>2 DEF SeenOf, Token
    <3> QED  BY <1>1, <1>2, <2>2, <3>1 DEF EvidenceOf
  <2> QED  BY <1>1, <2>1, <2>2 DEF SeenOf, EvidenceOf
<1>4. CASE q = p
  <2>1. CASE ReadHolder(p)
    BY <1>4, <2>1 DEF ReadHolder, Refuse, SeenOf, EvidenceOf, TypeOK
  <2>2. CASE JudgeHolder(p) /\ HolderStale(p, seen[p])
    <3>1. seen[p] \in Token /\ seen[p].owner \in Proc
      BY <1>1, <2>2 DEF JudgeHolder, SeenOf, Token
    <3>2. ~up[seen[p].owner]
      BY <2>2, <3>1 DEF HolderStale, LeaseInv, BeatInv
    <3>3. token[seen[p].owner] # seen[p]
      BY <3>1, <3>2 DEF TokenOK, TokenOf
    <3>4. phase'[p] = "clear" /\ seen' = seen /\ token' = token
      BY <2>2 DEF JudgeHolder, TypeOK
    <3> QED  BY <1>4, <3>1, <3>3, <3>4 DEF SeenOf, EvidenceOf
  <2>3. CASE ~ReadHolder(p) /\ ~Beat(p) /\ ~(JudgeHolder(p) /\ HolderStale(p, seen[p]))
    <3>1. phase'[p] \notin {"judge", "clear"}
      <4>1. CASE Acquire(p)
        BY <4>1 DEF Acquire, AfterGrant, TypeOK
      <4>2. CASE JudgeHolder(p) \/ ClearStale(p) \/ RetryAcquire(p) \/ TouchAndRegister(p) \/ Refresh(p)
        BY <2>3, <4>2 DEF JudgeHolder, ClearStale, RetryAcquire, TouchAndRegister, Refresh, Refuse, TypeOK
      <4>3. CASE Release(p) \/ Shutdown(p) \/ Crash(p)
        BY <4>3 DEF Release, Shutdown, Crash, Gone, TypeOK
      <4>4. CASE Restart(p)
        BY <4>4 DEF Restart, process, TokenOK, TokenOf
      <4> QED  BY <2>3, <4>1, <4>2, <4>3, <4>4 DEF Step
    <3> QED  BY <1>4, <3>1 DEF SeenOf, EvidenceOf
  <2>4. CASE Beat(p)
    BY <1>1, <1>4, <2>4 DEF Beat, process, SeenOf, EvidenceOf
  <2> QED  BY <2>1, <2>2, <2>3, <2>4
<1> QED  BY <1>3, <1>4

\* Another worker's step leaves the lock of a process within its lease alone.
LEMMA OthersKeepLease ==
  ASSUME TypeOK, TokenOK, HeartbeatReliable, LeaseInv,
         NEW p \in Proc, Step(p), NEW q \in Proc, q # p
  PROVE  LeaseOf(q)'
<1> USE NoneAssumption
<1>1. /\ phase'[q] = phase[q] /\ token'[q] = token[q] /\ form'[q] = form[q] /\ lease'[q] = lease[q]
  BY OthersUntouched
<1> SUFFICES ASSUME WithinLease(q)
             PROVE  IF form[q] = "shared"
                      THEN token[q] \in holders' /\ holderTtl'[token[q]] >= lease[q]
                      ELSE exclusive' = token[q] /\ exclusiveTtl' >= lease[q]
  BY <1>1 DEF LeaseOf, WithinLease
<1>2. LeaseOf(q) /\ token[q] \in Token /\ token[q].owner = q /\ lease[q] \in 1..LockTTL
  BY DEF LeaseInv, TokenOK, TokenOf, WithinLease, TypeOK
<1>3. phase[p] \notin {"idle", "refused"} => token[p] # token[q]
  BY <1>2 DEF TokenOK, TokenOf
<1>4. CASE form[q] = "shared"
  <2>1. token[q] \in LiveHolders /\ token[q] \in holders /\ holderTtl[token[q]] >= lease[q]
    BY <1>2, <1>4, TTLAssumption DEF LeaseOf, LiveHolders, TypeOK
  <2>2. ASSUME NEW t, NEW f, t # token[q], Grantable(f), Grant(p, t, f)
        PROVE  token[q] \in holders' /\ holderTtl'[token[q]] >= lease[q]
    BY <2>1, <2>2 DEF Grantable, Grant, TypeOK
  <2>3. CASE Acquire(p)
    <3>1. PICK n \in Nonce, f \in Form :
            \/ Grantable(f) /\ Grant(p, [owner |-> p, nonce |-> n], f)
            \/ holders' = LiveHolders /\ UNCHANGED holderTtl
      BY <2>3 DEF Acquire
    <3>2. [owner |-> p, nonce |-> n] # token[q]
      BY <1>2
    <3> QED  BY <1>4, <2>1, <2>2, <3>1, <3>2
  <2>4. CASE RetryAcquire(p)
    <3>1. \/ Grantable(form[p]) /\ Grant(p, token[p], form[p])
          \/ holders' = LiveHolders /\ UNCHANGED holderTtl
      BY <2>4 DEF RetryAcquire
    <3>2. token[p] # token[q]
      BY <1>3, <2>4 DEF RetryAcquire
    <3> QED  BY <1>4, <2>1, <2>2, <3>1, <3>2
  <2>5. CASE Refresh(p)
    <3>1. token[q] \in holders'
      BY <2>1, <2>5 DEF Refresh
    <3>2. holderTtl' = holderTtl \/ holderTtl' = [holderTtl EXCEPT ![token[p]] = LockTTL]
      BY <2>5 DEF Refresh, Renewed
    <3> QED  BY <1>4, <2>1, <2>5, <1>2, <3>1, <3>2, TTLAssumption DEF TypeOK
  <2>6. CASE Release(p)
    <3>1. token[p] # token[q]
      BY <1>3, <2>6 DEF Release
    <3>2. \/ /\ holders' = LiveHolders \ {token[p]}
             /\ holderTtl' = [holderTtl EXCEPT ![token[p]] = 0]
          \/ UNCHANGED <<holders, holderTtl>>
      BY <2>6 DEF Release, redis
    <3> QED  BY <1>2, <1>4, <2>1, <3>1, <3>2 DEF TypeOK
  <2>7. CASE ~(Acquire(p) \/ RetryAcquire(p) \/ Refresh(p) \/ Release(p))
    <3>1. UNCHANGED <<holders, holderTtl>>
      BY <2>7 DEF Step, ReadHolder, JudgeHolder, ClearStale, TouchAndRegister, Shutdown, Crash, Gone,
                  Restart, Beat, redis
    <3> QED  BY <1>4, <2>1, <3>1
  <2> QED  BY <2>3, <2>4, <2>5, <2>6, <2>7
<1>5. CASE form[q] # "shared"
  <2>1. exclusive = token[q] /\ exclusive # None /\ exclusiveTtl >= lease[q]
    BY <1>2, <1>5 DEF LeaseOf
  <2>2. \A f : ~Grantable(f)
    BY <2>1 DEF Grantable
  <2>3. CASE Acquire(p) \/ RetryAcquire(p)
    BY <1>5, <2>1, <2>2, <2>3 DEF Acquire, RetryAcquire
  <2>4. CASE ClearStale(p)
    <3>1. token[seen[p].owner] # seen[p]
      BY <2>4 DEF ClearStale, LeaseInv, EvidenceOf
    <3>2. exclusive # seen[p]
      BY <1>2, <2>1, <3>1
    <3> QED  BY <1>5, <2>1, <2>4, <3>2 DEF ClearStale, DeleteExclusive
  <2>5. CASE Refresh(p)
    BY <1>2, <1>5, <2>1, <2>5, TTLAssumption DEF Refresh, TypeOK
  <2>6. CASE Release(p)
    BY <1>3, <1>5, <2>1, <2>6 DEF Release, DeleteExclusive, redis
  <2>7. CASE Shutdown(p)
    <3>1. exclusive \notin registered[p]
      BY <1>3, <2>1 DEF TokenOK, TokenOf
    <3> QED  BY <1>5, <2>1, <2>7, <3>1 DEF Shutdown, DeleteExclusive
  <2>8. CASE ReadHolder(p) \/ JudgeHolder(p) \/ TouchAndRegister(p) \/ Crash(p) \/ Restart(p) \/ Beat(p)
    <3>1. UNCHANGED <<exclusive, exclusiveTtl>>
      BY <2>8 DEF ReadHolder, JudgeHolder, TouchAndRegister, Crash, Restart, Beat, redis
    <3> QED  BY <1>5, <2>1, <3>1
  <2> QED  BY <2>3, <2>4, <2>5, <2>6, <2>7, <2>8 DEF Step
<1> QED  BY <1>4, <1>5

\* A process's own step either ends its lease or leaves Redis agreeing with it.
LEMMA OwnLease ==
  ASSUME TypeOK, TokenOK, NEW p \in Proc, LeaseOf(p), Step(p)
  PROVE  LeaseOf(p)'
<1> USE DEF TypeOK, LeaseOf, WithinLease
<1>1. ASSUME NEW t \in Token, NEW f \in Form, Grant(p, t, f),
             token'[p] = t, form'[p] = f
      PROVE  LeaseOf(p)'
  BY <1>1, TTLAssumption DEF Grant
<1>2. CASE Acquire(p)
  <2>1. PICK n \in Nonce, f \in Form :
          /\ form' = [form EXCEPT ![p] = f]
          /\ \/ /\ Grant(p, [owner |-> p, nonce |-> n], f)
                /\ token' = [token EXCEPT ![p] = [owner |-> p, nonce |-> n]]
             \/ phase' = [phase EXCEPT ![p] = IF f = "tracked" THEN "read" ELSE "refused"]
    BY <1>2 DEF Acquire
  <2>2. [owner |-> p, nonce |-> n] \in Token
    BY DEF Token
  <2>3. CASE phase' = [phase EXCEPT ![p] = IF f = "tracked" THEN "read" ELSE "refused"]
    BY <2>3
  <2>4. CASE Grant(p, [owner |-> p, nonce |-> n], f) /\ token' = [token EXCEPT ![p] = [owner |-> p, nonce |-> n]]
    <3>1. token'[p] = [owner |-> p, nonce |-> n] /\ form'[p] = f
      BY <2>1, <2>4
    <3> QED  BY <1>1, <2>2, <2>4, <3>1
  <2> QED  BY <2>1, <2>3, <2>4
<1>3. CASE RetryAcquire(p)
  <2>1. token[p] \in Token /\ form[p] \in Form
    BY <1>3 DEF RetryAcquire, TokenOK, TokenOf
  <2>2. \/ Grant(p, token[p], form[p]) /\ token' = token /\ form' = form
        \/ phase' = [phase EXCEPT ![p] = "refused"]
    BY <1>3 DEF RetryAcquire, Refuse
  <2> QED  BY <1>1, <2>1, <2>2
<1>4. CASE ReadHolder(p) \/ JudgeHolder(p) \/ ClearStale(p)
  BY <1>4 DEF ReadHolder, JudgeHolder, ClearStale, Refuse
<1>5. CASE TouchAndRegister(p)
  BY <1>5 DEF TouchAndRegister, redis
<1>6. CASE Refresh(p) /\ StillMine(p)
  <2>1. token[p] \in Token
    BY <1>6 DEF Refresh, TokenOK, TokenOf
  <2>2. /\ lease'[p] = LockTTL /\ token'[p] = token[p] /\ form'[p] = form[p]
        /\ exclusive' = exclusive
    BY <1>6 DEF Refresh
  <2>3. CASE form[p] = "shared"
    <3>1. holderTtl'[token[p]] = LockTTL /\ token[p] \in holders'
      BY <1>6, <2>1, <2>3 DEF Refresh, Renewed, StillMine
    <3> QED  BY <2>2, <2>3, <3>1, TTLAssumption
  <2>4. CASE form[p] # "shared"
    <3>1. exclusiveTtl' = LockTTL /\ exclusive = token[p]
      BY <1>6, <2>4 DEF Refresh, StillMine
    <3> QED  BY <2>2, <2>4, <3>1, TTLAssumption
  <2> QED  BY <2>3, <2>4
<1>7. CASE Refresh(p) /\ ~StillMine(p)
  BY <1>7 DEF Refresh, Refuse
<1>8. CASE Release(p) \/ Shutdown(p) \/ Crash(p)
  BY <1>8 DEF Release, Shutdown, Crash, Gone
<1>9. CASE Restart(p) \/ Beat(p)
  BY <1>9 DEF Restart, Beat, redis, process
<1> QED  BY <1>2, <1>3, <1>4, <1>5, <1>6, <1>7, <1>8, <1>9 DEF Step

\* Time runs down the lease no later than the key behind it.
LEMMA TickLease ==
  ASSUME TypeOK, TokenOK, NEW p \in Proc, LeaseOf(p), Tick
  PROVE  LeaseOf(p)'
<1>1. /\ phase' = phase /\ token' = token /\ form' = form /\ holders' = holders
      /\ lease'[p] = Lower(lease[p])
  BY DEF Tick
<1> SUFFICES ASSUME WithinLease(p)'
             PROVE  LeaseOf(p)'
  BY DEF LeaseOf
<1>2. WithinLease(p) /\ lease[p] \in 2..LockTTL /\ lease'[p] = lease[p] - 1
  BY <1>1, TTLAssumption DEF WithinLease, Lower, TypeOK
<1>3. token[p] \in Token
  BY <1>2 DEF WithinLease, TokenOK, TokenOf
<1>4. CASE form[p] = "shared"
  <2>1. token[p] \in holders /\ holderTtl[token[p]] >= lease[p] /\ holderTtl[token[p]] \in 0..LockTTL
    BY <1>2, <1>3, <1>4 DEF LeaseOf, TypeOK
  <2>2. holderTtl'[token[p]] = holderTtl[token[p]] - 1
    BY <1>2, <1>3, <2>1, TTLAssumption DEF Tick, Lower
  <2> QED  BY <1>1, <1>2, <1>4, <2>1, <2>2, TTLAssumption DEF LeaseOf
<1>5. CASE form[p] # "shared"
  <2>1. exclusive = token[p] /\ exclusiveTtl >= lease[p] /\ exclusiveTtl \in 0..LockTTL
    BY <1>2, <1>5 DEF LeaseOf, TypeOK
  <2>2. exclusive' = exclusive /\ exclusiveTtl' = exclusiveTtl - 1
    BY <1>2, <2>1, TTLAssumption DEF Tick, Lower
  <2> QED  BY <1>1, <1>2, <1>5, <2>1, <2>2, TTLAssumption DEF LeaseOf
<1> QED  BY <1>4, <1>5

\* The lease invariant is inductive while heartbeats are reliable.
LEMMA LeasePreserved ==
  ASSUME TypeOK, TokenOK, HeartbeatReliable, LeaseInv, [Next]_vars
  PROVE  LeaseInv'
<1>1. BeatInv'
  BY BeatPreserved DEF LeaseInv
<1>2. ASSUME NEW q \in Proc
      PROVE  SeenOf(q)' /\ EvidenceOf(q)' /\ LeaseOf(q)'
  <2>0. LeaseOf(q) /\ SeenOf(q) /\ EvidenceOf(q)
    BY DEF LeaseInv
  <2>1. CASE \E p \in Proc : Step(p)
    BY <2>0, <2>1, EvidencePreserved, OthersKeepLease, OwnLease
  <2>2. CASE Tick
    BY <2>0, <2>2, TickLease DEF Tick, SeenOf, EvidenceOf
  <2>3. CASE UNCHANGED vars
    BY <2>0, <2>3 DEF vars, redis, process, SeenOf, EvidenceOf, LeaseOf, WithinLease
  <2> QED  BY <2>1, <2>2, <2>3 DEF Next
<1> QED  BY <1>1, <1>2 DEF LeaseInv

\* As long as the heartbeat of a running worker does not lapse, no release, expiry,
\* shutdown or dead-holder takeover of another worker takes the lock from a process that
\* was granted it less than a TTL ago, and two such processes never hold it in forms that
\* exclude each other.
THEOREM LiveHolderKeepsLock ==
  Spec => [](HeartbeatReliable => LeaseHonoured /\ HoldersCompatible)
<1> DEFINE I == HeartbeatReliable => LeaseInv
<1>1. Init => I
  BY TTLAssumption, HostAssumption
     DEF Init, LeaseInv, BeatInv, SeenOf, EvidenceOf, LeaseOf, WithinLease
<1>2. TypeOK /\ TokenOK /\ I /\ [Next]_vars => I'
  BY LeasePreserved
<1>3. TypeOK /\ TokenOK /\ Exclusion /\ I => (HeartbeatReliable => LeaseHonoured /\ HoldersCompatible)
  <2> SUFFICES ASSUME TypeOK, TokenOK, Exclusion, LeaseInv
               PROVE  LeaseHonoured /\ HoldersCompatible
    OBVIOUS
  <2>1. ASSUME NEW p \in Proc, WithinLease(p)
        PROVE  StillMine(p) /\ token[p] \in Token /\ token[p].owner = p
    BY <2>1, TTLAssumption
       DEF LeaseInv, LeaseOf, StillMine, LiveHolders, WithinLease, TokenOK, TokenOf, TypeOK
  <2>2. HoldersCompatible
    BY <2>1, NoneAssumption DEF HoldersCompatible, StillMine, Exclusion
  <2> QED  BY <2>1, <2>2 DEF LeaseHonoured
<1> HIDE DEF I
<1> QED  BY <1>1, <1>2, <1>3, Typing, LockExcludes, PTL DEF Spec
--------------------------------------------------------------------------------
(***************************************************************************)
(* The lock implements the lease of module Lease: a grant is a Grant, and  *)
(* every other step ends some ownerships or none.                          *)
(***************************************************************************)
Mode == [t \in Token |-> ModeOf(t)]

\* A step that only removes what is in Redis ends ownerships.
LEMMA ShrinkEnds ==
  ASSUME TypeOK, Exclusion, Shrunk
  PROVE  [Promise!LeaseNext]_Mode
<1> DEFINE S == {t \in Token : ModeOf(t) # "none" /\ ModeOf(t)' = "none"}
<1>1. \A t \in Token : ModeOf(t)' \in {ModeOf(t), "none"}
  BY NoneAssumption DEF ModeOf, Shrunk, Exclusion
<1>2. S \in SUBSET (Promise!Shared \cup Promise!Exclusive)
  BY DEF Promise!Shared, Promise!Exclusive, ModeOf
<1>3. Mode' = [t \in Token |-> IF t \in S THEN "none" ELSE Mode[t]]
  BY <1>1 DEF Mode
<1>4. CASE S = {}
  BY <1>3, <1>4 DEF Mode
<1>5. CASE S # {}
  BY <1>2, <1>3, <1>5 DEF Mode, Promise!LeaseNext, Promise!End
<1> QED  BY <1>4, <1>5

\* A finite set of fewer than two elements has no two different ones.
LEMMA FewerThanTwo ==
  ASSUME NEW S, IsFiniteSet(S), Cardinality(S) < 2
  PROVE  \A a, b \in S : a = b
<1> SUFFICES ASSUME NEW a \in S, NEW b \in S, a # b
             PROVE  FALSE
  OBVIOUS
<1>1. Cardinality(S) \in Nat
  BY FS_CardinalityType
<1>2. IsFiniteSet(S \ {a}) /\ Cardinality(S \ {a}) = IF a \in S THEN Cardinality(S) - 1 ELSE Cardinality(S)
  BY FS_RemoveElement, Zenon
<1>3. Cardinality(S \ {a}) \in Nat
  BY <1>2, FS_CardinalityType
<1>4. Cardinality(S \ {a}) = 0
  BY <1>1, <1>2, <1>3
<1>5. S \ {a} = {}
  BY <1>2, <1>4, FS_EmptySet
<1> QED  BY <1>5

\* A grant by Redis is a grant of the lease.
LEMMA GrantGrants ==
  ASSUME TypeOK, ExclusionInv, NEW p \in Proc, Granted(p)
  PROVE  Promise!LeaseNext
<1> USE NoneAssumption, TTLAssumption
<1>1. PICK t \in Token, f \in {"exclusive", "shared", "tracked"} :
        t \notin LiveHolders /\ Grantable(f) /\ Grant(p, t, f)
  BY DEF Granted
<1>2. exclusive = None /\ Promise!Exclusive = {} /\ Promise!Shared = LiveHolders
  BY <1>1 DEF Grantable, Promise!Exclusive, Promise!Shared, ModeOf, LiveHolders, TypeOK
<1>3. Mode[t] = "none"
  BY <1>1, <1>2 DEF Mode, ModeOf
<1>4. CASE f = "shared"
  <2>1. exclusive' = None /\ LiveHolders' = LiveHolders \cup {t}
    BY <1>1, <1>2, <1>4 DEF Grant, LiveHolders, TypeOK
  <2>2. Mode' = [Mode EXCEPT ![t] = "shared"]
    BY <1>2, <2>1 DEF Mode, ModeOf
  <2>3. \A a, b \in LiveHolders : a = b
    <3>1. IsFiniteSet(LiveHolders) /\ Cardinality(LiveHolders) < 2
      BY <1>1, <1>4, LiveFinite DEF Grantable, ExclusionInv
    <3> QED  BY <3>1, FewerThanTwo
  <2>4. Promise!Grant(t, "shared")
    BY <1>2, <1>3, <2>2, <2>3 DEF Promise!Grant, Mode
  <2> QED  BY <2>4 DEF Promise!LeaseNext
<1>5. CASE f # "shared"
  <2>1. exclusive' = t /\ LiveHolders = {} /\ LiveHolders' = {}
    BY <1>1, <1>5 DEF Grant, Grantable, LiveHolders
  <2>2. Mode' = [Mode EXCEPT ![t] = "exclusive"]
    BY <1>2, <2>1 DEF Mode, ModeOf
  <2>3. Promise!Grant(t, "exclusive")
    BY <1>2, <1>3, <2>1, <2>2 DEF Promise!Grant, Mode
  <2> QED  BY <2>3 DEF Promise!LeaseNext
<1> QED  BY <1>4, <1>5

\* Every behaviour of the lock, seen as the tokens that own it, is a behaviour of the lease.
THEOREM LockImplementsLease == Spec => ImplementsLease
<1>1. Init => Promise!LeaseInit
  BY NoneAssumption DEF Init, Promise!LeaseInit, ModeOf, LiveHolders
<1>2. TypeOK /\ TokenOK /\ ExclusionInv /\ [Next]_vars => [Promise!LeaseNext]_Mode
  <2>1. UNCHANGED vars => Mode' = Mode
    BY DEF vars, redis, Mode, ModeOf, LiveHolders
  <2> QED  BY <2>1, StepShape, TickShape, ShrinkEnds, GrantGrants DEF Next, ExclusionInv
<1> QED
  BY <1>1, <1>2, Typing, ExclusionInductive, PTL DEF Spec, ImplementsLease, Promise!LeaseSpec, Mode
================================================================================
