----------------------------- MODULE MCMutants -----------------------------
(***************************************************************************)
(* Mutants of two edits of one file and a nested checkout, of one nested   *)
(* checkout twice, and of a text that stands in one of the trees.          *)
(***************************************************************************)
EXTENDS Mutants

Row(n, f, old, new) == [name |-> n, file |-> f, old |-> old, new |-> new]
MCRows == <<Row("both", "f", "x", "v"), Row("nest", "n", Checkout, "w"), Row("both", "f", "y", "w"),
            Row("both", "n", Checkout, "w"), Row("gone", "g", "x", "w"), Row("nest", "n", Checkout, "w")>>
MCOrder == <<"both", "nest", "gone">>
MCTrees == {[f \in {"f", "g"} |-> IF f = "f" THEN <<"x", "y">> ELSE <<"x">>], [f \in {"f"} |-> <<"x", "x", "y">>]}
MCAsks == {{}, {"both", Unchanged}, {"gone", "nest"}, {"other"}}
=============================================================================
