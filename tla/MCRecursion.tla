---------------------------- MODULE MCRecursion ----------------------------
(***************************************************************************)
(* Every call graph of three functions, of four functions of one call each *)
(* at most, and of two that call a third of no definition; and every tree  *)
(* of two names one of which two modules define.                           *)
(***************************************************************************)
EXTENDS Recursion, FiniteSets

MCNames == 1..4

Tree(names, calls) == [i \in DOMAIN names |-> [name |-> names[i], calls |-> calls[i]]]

MCGraphs ==
  {Tree(<<1, 2, 3>>, g) : g \in [1..3 -> SUBSET (1..3)]}
    \cup {Tree(<<1, 2, 3, 4>>, g) : g \in [1..4 -> {{}} \cup {{c} : c \in 1..4}]}

\* The same name in two modules.
MCTwice == {Tree(<<1, 2, 1>>, g) : g \in [1..3 -> SUBSET (1..2)]}

\* A call of something that no definition of the tree names.
MCOutside == {Tree(<<1, 2>>, g) : g \in [1..2 -> SUBSET (1..3)]}

MCSources == MCGraphs \cup MCTwice \cup MCOutside
=============================================================================
