--------------------------- MODULE SessionFamilies ---------------------------
(***************************************************************************)
(* What refresh-token rotation promises, without rows, locks or requests.   *)
(* A login opens a family of sessions.  A refresh moves the family from its *)
(* live session to a new one, so it never has two; a revocation closes      *)
(* families, and a closed family stays closed.                              *)
(***************************************************************************)
CONSTANT Sessions

VARIABLES issued,  \* sessions that have ever existed
          live     \* for each family, the sessions of it that can be refreshed

fvars == <<issued, live>>

FamiliesInit == issued = {} /\ live = [f \in Sessions |-> {}]

\* A family is named after its first session.
Open(f) ==
  /\ f \in Sessions \ issued
  /\ issued' = issued \union {f}
  /\ live' = [live EXCEPT ![f] = {f}]

Advance(f, s, t) ==
  /\ live[f] = {s}
  /\ t \in Sessions \ issued
  /\ issued' = issued \union {t}
  /\ live' = [live EXCEPT ![f] = {t}]

Close(F) ==
  /\ live' = [f \in Sessions |-> IF f \in F THEN {} ELSE live[f]]
  /\ UNCHANGED issued

FamiliesNext ==
  \/ \E f \in Sessions : Open(f)
  \/ \E f, s, t \in Sessions : Advance(f, s, t)
  \/ \E F \in SUBSET Sessions : Close(F)

FamiliesSpec == FamiliesInit /\ [][FamiliesNext]_fvars
=============================================================================
