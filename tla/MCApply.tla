------------------------------ MODULE MCApply ------------------------------
(***************************************************************************)
(* Plans of four steps in two subcycles.  In the first plan three steps of *)
(* one subcycle write dates, the third one beside a date the first wrote;  *)
(* the others use a decision's label early, never declared, declined or    *)
(* misused, or rewrite lines of the steps before them, as step1 of 0.0.3   *)
(* does those of its step0d.                                               *)
(***************************************************************************)
EXTENDS Apply

MCAccepted == {1, 2}

Patch(sub, dated, sees, declares, cites, misused) ==
  [sub |-> sub, dated |-> dated, sees |-> sees, rewrites |-> {}, declares |-> declares, cites |-> cites,
   misused |-> misused]

Rewriting(patch, js) == [patch EXCEPT !.rewrites = js]

\* Four steps that differ only in the labels of the second and the third.
Labelled(two, three, misused) ==
  <<Patch(1, TRUE, {}, {1}, {}, FALSE),
    Patch(1, TRUE, {}, two.declares, two.cites, misused),
    Patch(1, TRUE, {1}, three.declares, three.cites, FALSE),
    Patch(2, TRUE, {}, {}, {1}, FALSE)>>

L(declares, cites) == [declares |-> declares, cites |-> cites]

MCPlans ==
  {Labelled(L({}, {1}), L({2}, {1, 2}), FALSE),   \* fine
   Labelled(L({}, {2}), L({2}, {}), FALSE),       \* cited before it is declared
   Labelled(L({}, {3}), L({}, {}), FALSE),        \* declared by no step
   Labelled(L({3}, {}), L({}, {3}), FALSE),       \* declined
   Labelled(L({}, {}), L({}, {}), TRUE),          \* a bare label
   \* an undated first step, and one that only stands beside a date
   <<Patch(1, FALSE, {}, {1}, {}, FALSE), Patch(1, TRUE, {}, {}, {1}, FALSE),
     Patch(1, FALSE, {2}, {}, {}, FALSE), Patch(2, TRUE, {}, {2}, {}, FALSE)>>,
   \* lines rewritten by the next step, and by one of the next subcycle
   <<Patch(1, FALSE, {}, {}, {}, FALSE), Rewriting(Patch(1, TRUE, {}, {}, {}, FALSE), {1}),
     Patch(1, TRUE, {2}, {}, {}, FALSE), Rewriting(Patch(2, TRUE, {}, {}, {}, FALSE), {2})>>}
=============================================================================
