---------------------------- MODULE MCLoginBrowsers ----------------------------
(* Two logins, and the casts of workers whose overlap each run asks about. *)
EXTENDS LoginBrowsers, TLC

CONSTANTS s1, s2, h1, h2, pl, wk, sp, kp, rc

\* Which job each worker runs, and its slot when it is bound to one.
MCKind == (s1 :> "shard") @@ (s2 :> "shard") @@ (h1 :> "harvest") @@ (h2 :> "harvest")
          @@ (pl :> "plain") @@ (wk :> "walk") @@ (sp :> "spot") @@ (kp :> "keepalive") @@ (rc :> "recovery")
MCOwn == [w \in DOMAIN MCKind |-> IF w \in {s2, h2} THEN 2 ELSE 1]

\* Recovery runs in a container of its own; the keepalive of the Beat does not.
MCOutside == {w \in Worker : MCKind[w] = "recovery"}
\* The keepalive that the host's cron starts in the API's container.
MCCron == {w \in Worker : MCKind[w] \in {"recovery", "keepalive"}}

MCKindOf == [w \in Worker |-> MCKind[w]]
MCOwnOf == [w \in Worker |-> MCOwn[w]]
================================================================================
