----------------------------- MODULE MCHarness -----------------------------
(***************************************************************************)
(* A small run for TLC: a program suite with one plain and one marked      *)
(* unit, a refusal suite with a marked unit, the sweep, and a reviewed     *)
(* list with the line of each marker: a unit that fails before its marker  *)
(* is looked up leaves its line unmatched.                                 *)
(***************************************************************************)
EXTENDS Harness

CONSTANTS p1, p2, c1, key2, key3

MCTests ==
  <<[stage |-> "program", units |-> <<p1, p2>>],
    [stage |-> "check",   units |-> <<c1>>],
    [stage |-> "parse",   units |-> <<p1>>]>>

MCKeyOf == [f \in {p1, p2, c1} |-> CASE f = p1 -> NoKey [] f = p2 -> key2 [] f = c1 -> key3]

MCPendingList == {key2, key3}

MCFilters == {{p1, c1}}

MCTreeChecks == <<"check_layering", "check_no_recursion">>
=============================================================================
