----------------------------- MODULE MCWorkflow -----------------------------
(***************************************************************************)
(* Three jobs over two commits of the compiler, of two LLVM tarballs of    *)
(* one version and one of another, and over two emissions.                 *)
(***************************************************************************)
EXTENDS Workflow, TLC

Pin(commit, emission, version, tarball) ==
  [commit |-> commit, emission |-> emission, version |-> version, tarball |-> tarball]

\* A pin, the pin moved to the next commit of the compiler, and the pin of a tarball cut again.
MCPins == {Pin("c1", "e1", "v1", "t1"), Pin("c2", "e2", "v1", "t1"), Pin("c1", "e1", "v1", "t2")}

MCReports == [t \in {"t1", "t2", "t3"} |-> IF t = "t3" THEN "v2" ELSE "v1"]

JobSymmetry == Permutations(Jobs)
=============================================================================
