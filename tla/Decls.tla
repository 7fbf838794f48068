------------------------------- MODULE Decls -------------------------------
(***************************************************************************)
(* meta/roadmap/0.0/0.0.4_tools/claims.py, decls: the `error:`             *)
(* declarations of every .npk file that git lists, held to the one module  *)
(* that may declare them (PD-191), to SAFETY.md's names, and to the list   *)
(* of the files that declare one on purpose.                               *)
(*                                                                         *)
(* A file is its path, the module it names and the names it declares, in   *)
(* order, as its blanked text has them; `there` is false of a file that    *)
(* git lists and the checkout does not hold.                               *)
(***************************************************************************)
EXTENDS Integers, SequencesExt, FiniteSets

CONSTANTS
  Declaring,   \* the path of the one module that declares
  Module,      \* its name
  SpecNames,   \* SAFETY.md section 3's names
  SourceTrees  \* what decls may find: records [git, safety, files, listed]

\* git lists a path once.
ASSUME SourcesAssumption ==
  \A t \in SourceTrees : \A f \in t.files :
    /\ f.declares \in Seq({f.declares[i] : i \in DOMAIN f.declares})
    /\ \A g \in t.files : f.path = g.path => f = g

VARIABLES
  sources,  \* the tree at hand: git answers?, SAFETY.md is there?, the files, the listed paths
  faults,   \* the findings
  exit      \* "running", or the exit status

declsVars == <<sources, faults, exit>>

\* The files that are read, those git lists and the checkout holds.
Texts == {f \in sources.files : f.there}
Paths(fs) == {f.path : f \in fs}

\* The names a path declares, each as often as it does.
DeclaredAt(p) == LET f == CHOOSE f \in Texts : f.path = p IN f.declares

CannotRead == ~sources.git \/ Texts = {} \/ ~sources.safety

DeclsUnreadable ==
  /\ exit = "running" /\ CannotRead
  /\ exit' = "2"
  /\ UNCHANGED <<sources, faults>>

\* Mutant: a name declared twice is one of the table's all the same.
MineOnce ==
  LET mine == DeclaredAt(Declaring)
  IN {<<"foreign", n>> : n \in ToSet(mine) \ SpecNames} \cup {<<"missing", n>> : n \in SpecNames \ ToSet(mine)}

\* What is wrong with what the declaring module declares, when it is there.
Mine ==
  LET mine == DeclaredAt(Declaring)
  IN {<<"misnamed", f.mod>> : f \in {f \in Texts : f.path = Declaring /\ f.mod # Module}}
       \cup {<<"foreign", n>> : n \in ToSet(mine) \ SpecNames}
       \cup {<<"again", n>> : n \in {n \in SpecNames : \E i, j \in DOMAIN mine : i < j /\ mine[i] = n /\ mine[j] = n}}
       \cup {<<"missing", n>> : n \in SpecNames \ ToSet(mine)}

\* The declarations of the others, but for the listed files; the module itself is judged above.
Outside ==
  {<<"outside", f.path>> : f \in {f \in Texts : f.path # Declaring /\ f.path \notin sources.listed
                                                /\ f.declares # <<>>}}

\* The list's lines that name no file, or one that declares nothing.
ListFaults ==
  {<<"listed", p>> : p \in {p \in sources.listed : p \notin Paths(Texts) \/ DeclaredAt(p) = <<>>}}

CheckDecls ==
  /\ exit = "running" /\ ~CannotRead
  /\ faults' = (IF Declaring \in Paths(Texts) THEN Mine ELSE {}) \cup Outside \cup ListFaults
  /\ exit' = IF faults' = {} THEN "0" ELSE "1"
  /\ UNCHANGED sources

DeclsNext == DeclsUnreadable \/ CheckDecls

-----------------------------------------------------------------------------
(* Properties. *)

\* Where a name is declared, the listed files apart: the path, and the place in its text.
MadeAt(n) ==
  UNION {{<<f.path, i>> : i \in {i \in DOMAIN f.declares : f.declares[i] = n}} :
           f \in {f \in Texts : f.path \notin sources.listed \/ f.path = Declaring}}

\* claims.py's header and PD-191: decls passes exactly when the declarations are the table's, each
\* made once, in the declaring module, or none is made while it is absent -- the listed files apart,
\* each of which declares something.  So every name that can be raised has one declaring module,
\* which check_error_budget takes for granted.
OneDeclarer ==
  sources.git /\ exit \in {"0", "1"} =>
    (exit = "0" <=>
       /\ \A n \in SpecNames \cup UNION {ToSet(f.declares) : f \in Texts} :
            IF n \in SpecNames /\ Declaring \in Paths(Texts)
            THEN \E m \in MadeAt(n) : m[1] = Declaring /\ MadeAt(n) = {m}
            ELSE MadeAt(n) = {}
       /\ \A f \in Texts : f.path = Declaring => f.mod = Module
       /\ \A p \in sources.listed : \E f \in Texts : f.path = p /\ f.declares # <<>>)
=============================================================================
