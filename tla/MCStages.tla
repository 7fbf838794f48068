------------------------------ MODULE MCStages ------------------------------
(***************************************************************************)
(* A small manifest for TLC: a program suite whose units differ in what    *)
(* they ask (stressed and capped; pending, listed and capped as well;      *)
(* pending and not listed; unreadable; expecting an error), a refusal      *)
(* suite (plain, pending, expecting no error), and the sweep.              *)
(***************************************************************************)
EXTENDS Stages

CONSTANTS p1, p2, p3, p4, c1, c2, c3,   \* files
          T7, L1,               \* codes: a type error, a lexical one
          at1, at2,             \* sites
          s1, s2,               \* LLVM value names
          DEF1                  \* a compiler defect

MCFiles == {p1, p2, p3, p4, c1, c2, c3}

Plain == [readable |-> TRUE, exit |-> 0, errors |-> {}, stress |-> 1, cap |-> NoCap,
          pending |-> NoMarker]

Undefined == [label |-> DEF1, observation |-> "undefined-value", argument |-> s1]
Accepted  == [label |-> DEF1, observation |-> "accepted", argument |-> NoArgument]

MCExpect ==
  [f \in MCFiles |->
     CASE f = p1 -> [Plain EXCEPT !.stress = 2, !.cap = 64]
       [] f = p2 -> [Plain EXCEPT !.exit = 7, !.cap = 64, !.pending = Undefined]
       [] f = p3 -> [Plain EXCEPT !.pending = Accepted]
       [] f = p4 -> [Plain EXCEPT !.readable = FALSE]
       [] f = c3 -> [Plain EXCEPT !.exit = 7]
       [] f = c1 -> [Plain EXCEPT !.errors = {[code |-> T7, at |-> {at1}]}]
       [] f = c2 -> [Plain EXCEPT !.errors = {[code |-> T7, at |-> {at1, at2}]},
                                  !.pending = Accepted]]

MCPendingList == {<<p2, Undefined>>, <<c2, Accepted>>}

MCTests ==
  <<[stage |-> "program", units |-> <<p1, p2, p3, p4, c1>>],
    [stage |-> "check", units |-> <<c1, c2, c3>>],
    [stage |-> "parse",   units |-> <<c1, p1>>]>>

MCFilters == {{p2, c2}}

\* Every exit with no diagnostic and no text, and the ways an exit of 0 or 1 can speak.
MCOutputs ==
  {[npkc |-> x, diagnostics |-> {}, text |-> FALSE] : x \in {0, 2, Hang}}
    \cup {[npkc |-> x, diagnostics |-> d, text |-> TRUE] :
            x \in {0, 1}, d \in {{<<T7, at1>>}, {<<T7, at2>>}, {<<T7, at1>>, <<L1, at2>>}}}
=============================================================================
