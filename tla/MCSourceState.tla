----------------------------- MODULE MCSourceState -----------------------------
(* Two logins, and the casts of workers whose races each run asks about. *)
EXTENDS SourceState, TLC

CONSTANTS g1, g2, h1, h2, wk, rc, op

MCKind == (g1 :> "grid") @@ (g2 :> "grid") @@ (h1 :> "harvest") @@ (h2 :> "harvest")
          @@ (wk :> "walk") @@ (rc :> "recovery") @@ (op :> "operator")

MCKindOf == [w \in Worker |-> MCKind[w]]
MCOwnOf  == [w \in Worker |-> IF w \in {g2, h2} THEN 2 ELSE 1]
================================================================================
