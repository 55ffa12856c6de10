--------------------------------- MODULE Lease ---------------------------------
(***************************************************************************)
(* What the lock of a login source promises its callers                    *)
(* (scraper/auth/session_manager.py, SessionLock): at any time the login   *)
(* is held by nobody, by one exclusive owner, or by at most two shared     *)
(* owners; an owner joins only while that stays true, and never changes    *)
(* its form.  How an ownership ends (release, expiry, takeover, shutdown)  *)
(* is left open, and several may end at once when time passes.             *)
(***************************************************************************)
CONSTANT Owner

VARIABLE mode   \* the form each owner holds the login in, or "none"

Shared    == {o \in Owner : mode[o] = "shared"}
Exclusive == {o \in Owner : mode[o] = "exclusive"}

LeaseInit == mode = [o \in Owner |-> "none"]

Grant(o, m) ==
  /\ mode[o] = "none"
  /\ Exclusive = {}
  /\ IF m = "shared" THEN \A a, b \in Shared : a = b ELSE Shared = {}
  /\ mode' = [mode EXCEPT ![o] = m]

End(S) ==
  /\ S # {}
  /\ mode' = [o \in Owner |-> IF o \in S THEN "none" ELSE mode[o]]

LeaseNext ==
  \/ \E o \in Owner, m \in {"exclusive", "shared"} : Grant(o, m)
  \/ \E S \in SUBSET (Shared \cup Exclusive) : End(S)

LeaseSpec == LeaseInit /\ [][LeaseNext]_mode
================================================================================
