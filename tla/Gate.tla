-------------------------------- MODULE Gate --------------------------------
(***************************************************************************)
(* What a run of the harness is for, stated without its steps: a gate that *)
(* obligations pass one way or the other, that opens only when every one   *)
(* of them was met, and that closes only for one that was not.             *)
(***************************************************************************)
CONSTANT Obligations

VARIABLES met, unmet, outcome

gateVars == <<met, unmet, outcome>>

GateInit == met = {} /\ unmet = {} /\ outcome = "running"

\* Obligations are found met or unmet, and what was found stands.
Find ==
  /\ met' \in SUBSET Obligations /\ unmet' \in SUBSET Obligations
  /\ met \subseteq met' /\ unmet \subseteq unmet' /\ met' \cap unmet' = {}

\* Only a run that met everything is green, and only one that did not is red; a run may also
\* end having concluded nothing.
GateNext ==
  /\ outcome = "running"
  /\ Find
  /\ \/ outcome' = "running"
     \/ outcome' = "green" /\ met' = Obligations
     \/ outcome' = "red" /\ unmet' # {}
     \/ outcome' = "nothing"

GateSpec == GateInit /\ [][GateNext]_gateVars
=============================================================================
