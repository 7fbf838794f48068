----------------------------- MODULE TreeChecks -----------------------------
(***************************************************************************)
(* harness/treecheck.py: the library's sources diffed against the tables   *)
(* of its specifications, one check after the other in the order of ALL.   *)
(* A file is a record of its layer, its name, the names of its MAY IMPORT  *)
(* header (a set of at most one set), and its text, the lexemes of         *)
(* Lexical with the words the checks look for among them:                  *)
(*   <<"use", j>> an import of file j, of no file of src/ when j is 0;     *)
(*   <<"error", n>>, <<"fail", n>> a name declared, a name raised;         *)
(*   <<"int", v>>, <<"fixed", n, v>> a literal, a constant and its value;  *)
(*   <<"product">>, <<"sum", literal>> an x * y, an x = x + (a literal?);  *)
(*   <<"cite", r>> a rule's id beside a specification's name.              *)
(* An identity is a module and a name; a module is its file.               *)
(***************************************************************************)
EXTENDS Lexical, Recursion

CONSTANTS
  MayImport,   \* BUILD.md B-17's table: the layers each layer may import
  ErrorNames,  \* SAFETY.md section 3's names
  Declares,    \* SAFETY.md S-6: the names each layer may declare
  Bounds,      \* SAFETY.md section 7's table: the value of each named bound
  Rules,       \* the rules the specifications define
  Trees        \* the trees: records of the files, in the order of the walk, and the functions

Root == "lib"   \* the layer of a file directly under src/

Declarable(layer) == IF layer \in DOMAIN Declares THEN Declares[layer] ELSE {}

\* What a layer may import declares nothing that the layer itself may not.
ASSUME TablesAgree ==
  \A l \in DOMAIN MayImport : \A m \in MayImport[l] : Declarable(m) \subseteq Declarable(l)

VARIABLES
  tree,      \* the files at hand
  stage,     \* the check under way
  file,      \* how many files its loop is past
  texts,     \* the blanked texts
  decl,      \* the files that declare each name, in order
  raised,    \* the identities raised: <<the declaring file, or 0 for the prelude, and the name>>
  findings,  \* what the checks report, but for the cycles, which are `bad`
  gone       \* the rules cited that no specification defines

treeVars == <<tree, stage, file, texts, decl, raised, findings, gone, lexicalVars, recursionVars>>

\* The places of the words of a kind in a text, and what they name.
Words(kind, t) == {k \in DOMAIN t : t[k][1] = kind}
Named(kind, t) == {t[k][2] : k \in Words(kind, t)}

\* An import is of a file of the tree, when it is of one at all; a word is what its kind has it be; and
\* no name is declared in the prelude.
ASSUME TreesAssumption ==
  /\ "prelude" \notin DOMAIN Declares
  /\ \A t \in Trees :
       /\ t.files \in Seq({t.files[i] : i \in DOMAIN t.files})
       /\ \A i \in DOMAIN t.files : LET x == t.files[i].text
                                  IN /\ x \in Seq({x[k] : k \in DOMAIN x})
                                     /\ \A k \in Words("use", x) : x[k][2] \in 0..Len(t.files)
                                     /\ \A k \in Words("product", x) : x[k] = <<"product">>
                                     /\ \A k \in Words("fixed", x) : x[k] = <<"fixed", x[k][2], x[k][3]>>

TextOf(i) == IF i \in DOMAIN tree THEN tree[i].text ELSE <<>>
LayerOf(i) == IF i = 0 THEN "prelude" ELSE tree[i].layer

TreeInit ==
  /\ \E t \in Trees : tree = t.files /\ source = t.functions
  /\ Init
  /\ stage = "layering" /\ file = 0
  /\ text = TextOf(1) /\ at = 0 /\ out = <<>>
  /\ texts = <<>>
  /\ decl = [n \in UNION {Named("error", tree[i].text) \cup Named("fail", tree[i].text) : i \in DOMAIN tree} |-> <<>>]
  /\ raised = {} /\ findings = {} /\ gone = {}

At(check, i, k, line) == [check |-> check, file |-> i, at |-> k, line |-> line]
About(check, i)       == At(check, i, 0, 0)
Raised(d, n)          == [check |-> "budget", file |-> d, name |-> n]

Here == tree[file + 1]
InStage(s) == stage = s /\ file < Len(tree)
NextFile == file' = file + 1 /\ UNCHANGED <<tree, stage>>
Turn(s, t) == stage = s /\ file = Len(tree) /\ stage' = t /\ file' = 0 /\ UNCHANGED tree

\* Mutant: an import of a file directly under src/ is left out.
ForbiddenButRoot(layer, to) == to \notin MayImport[layer] \cup {layer, Root}

Forbidden(layer, to) == to \notin MayImport[layer] \cup {layer}

\* The file's header and its imports against its layer's row.  The text is read as it stands, since
\* a blanked one names no file: an import in a comment counts.
LayeringOf(i) ==
  LET f == tree[i]
  IN IF f.layer = Root THEN {}
     ELSE IF f.layer \notin DOMAIN MayImport THEN {About("layering", i)}
     ELSE {About("layering", i) : w \in {MayImport[f.layer]} \ f.header}
            \cup {At("layering", i, k, 0) : k \in {k \in Words("use", f.text) :
                     f.text[k][2] # 0 /\ Forbidden(f.layer, tree[f.text[k][2]].layer)}}

CheckLayering ==
  /\ InStage("layering")
  /\ findings' = findings \cup LayeringOf(file + 1)
  /\ NextFile
  /\ UNCHANGED <<texts, decl, raised, gone, lexicalVars, recursionVars>>

\* A file's text is blanked; the checks that blank it again get the same text.
BlankOn ==
  /\ InStage("blank") /\ Blank
  /\ UNCHANGED <<tree, stage, file, texts, decl, raised, findings, gone, recursionVars>>

KeepBlanked ==
  /\ InStage("blank") /\ at = Len(text)
  /\ texts' = Append(texts, out)
  /\ text' = TextOf(file + 2) /\ at' = 0 /\ out' = <<>>
  /\ NextFile
  /\ UNCHANGED <<decl, raised, findings, gone, recursionVars>>

Declare ==
  /\ InStage("declare")
  /\ decl' = [n \in DOMAIN decl |-> IF n \in Named("error", texts[file + 1])
                                    THEN Append(decl[n], file + 1) ELSE decl[n]]
  /\ NextFile
  /\ UNCHANGED <<texts, raised, findings, gone, lexicalVars, recursionVars>>

\* The file whose declaration a raise in file i is taken for: its own, else the first of the tree.
DeclaredBy(n, i) ==
  IF \E k \in DOMAIN decl[n] : decl[n][k] = i THEN i
  ELSE IF decl[n] # <<>> THEN decl[n][1] ELSE 0

Raise ==
  /\ InStage("raise")
  /\ raised' = raised \cup {<<DeclaredBy(n, file + 1), n>> : n \in Named("fail", texts[file + 1])}
  /\ NextFile
  /\ UNCHANGED <<texts, decl, findings, gone, lexicalVars, recursionVars>>

\* Mutant: the table of names alone.
WithinTheTable(d, n) == n \in ErrorNames

\* The name is one of the table's, and one that the layer of its declaration may declare.
WithinBudget(d, n) == n \in ErrorNames /\ n \in Declarable(LayerOf(d))

CheckErrorBudget ==
  /\ Turn("raise", "constants")
  /\ findings' = findings \cup {Raised(r[1], r[2]) : r \in {r \in raised : ~WithinBudget(r[1], r[2])}}
  /\ UNCHANGED <<texts, decl, raised, gone, lexicalVars, recursionVars>>

IsLimits(f) == f.layer = "core" /\ f.name = "limits.npk"

\* The value limits.npk gives a name: its last, or none.
Values(t, n) ==
  LET S == {k \in Words("fixed", t) : t[k][2] = n} IN IF S = {} THEN {} ELSE {t[Max(S)][3]}

LimitsMatch(t) ==
  /\ \A n \in DOMAIN Bounds : Values(t, n) = {Bounds[n]}
  /\ Named("fixed", t) \subseteq DOMAIN Bounds

BoundAt(t, k) == \E n \in DOMAIN Bounds : t[k][2] = Bounds[n]

\* The literals that are a bound, each at its line of the blanked text.
Literals(i) ==
  {At("constants", i, k, LineOf(texts[i], k)) : k \in {k \in Words("int", texts[i]) : BoundAt(texts[i], k)}}

CheckConstantsNamed ==
  /\ InStage("constants")
  /\ findings' = findings \cup
       (IF ~IsLimits(Here) THEN Literals(file + 1)
        ELSE IF LimitsMatch(texts[file + 1]) THEN {} ELSE {About("constants", file + 1)})
  /\ NextFile
  /\ UNCHANGED <<texts, decl, raised, gone, lexicalVars, recursionVars>>

Guarded(f) == f.layer \in {"scan", "format"} /\ f.name # "arith.npk"

Accumulates(t, k) == t[k] \in {<<"product">>, <<"sum", FALSE>>}

CheckNoRawAccumulate ==
  /\ InStage("accumulate")
  /\ findings' = findings \cup
       (IF ~Guarded(Here) THEN {}
        ELSE {At("accumulate", file + 1, k, LineOf(texts[file + 1], k)) :
                k \in {k \in DOMAIN texts[file + 1] : Accumulates(texts[file + 1], k)}})
  /\ NextFile
  /\ UNCHANGED <<texts, decl, raised, gone, lexicalVars, recursionVars>>

CheckNoRecursion ==
  /\ stage = "recursion" /\ Next
  /\ UNCHANGED <<tree, stage, file, texts, decl, raised, findings, gone, lexicalVars>>

EndRecursion ==
  /\ stage = "recursion" /\ pc = "done"
  /\ stage' = "specs"
  /\ UNCHANGED <<tree, file, texts, decl, raised, findings, gone, lexicalVars, recursionVars>>

\* It reports and finds nothing: a rule cited that is gone fails no run.
CheckSpecsCurrent ==
  /\ InStage("specs")
  /\ gone' = gone \cup (Named("cite", Here.text) \ Rules)
  /\ NextFile
  /\ UNCHANGED <<texts, decl, raised, findings, lexicalVars, recursionVars>>

TurnOn ==
  /\ \/ Turn("layering", "blank") \/ Turn("blank", "declare") \/ Turn("declare", "raise")
     \/ Turn("constants", "accumulate") \/ Turn("accumulate", "recursion") \/ Turn("specs", "done")
  /\ UNCHANGED <<texts, decl, raised, findings, gone, lexicalVars, recursionVars>>

TreeNext ==
  \/ CheckLayering \/ BlankOn \/ KeepBlanked \/ Declare \/ Raise \/ CheckErrorBudget
  \/ CheckConstantsNamed \/ CheckNoRawAccumulate \/ CheckNoRecursion \/ EndRecursion
  \/ CheckSpecsCurrent \/ TurnOn

TreeSpec == TreeInit /\ [][TreeNext]_treeVars /\ WF_treeVars(TreeNext)

-----------------------------------------------------------------------------
(* Properties. *)

\* lexical.py's header: a check reading code is not fooled by a word in a comment, and misses none
\* in the code: what the text holds in code is kept, and all else is blank, a quote or a line end.
OnlyCodeIsKept ==
  \A i \in DOMAIN texts : \A k \in DOMAIN texts[i] :
    IF k \in InCode(tree[i].text) THEN texts[i][k] = tree[i].text[k]
    ELSE texts[i][k] \in {Space, LineEnd} \cup Quotes

Lined == {f \in findings : f.check \in {"constants", "accumulate"} /\ f.at # 0}

\* A line number that is not the file's has a literal before it that swallows a line's end: it
\* closes on no line, or a backslash ends its line.
LinesLostInLiterals ==
  \A f \in Lined : f.line # LineOf(tree[f.file].text, f.at) =>
    \E k \in 1..(f.at - 1) : k \in InLiteral(tree[f.file].text) /\ tree[f.file].text[k] = LineEnd

\* The tree passed: no check found anything.
Clean == stage = "done" /\ findings = {}

InCodeOf(i, kind) == {tree[i].text[k] : k \in InCode(tree[i].text) \cap Words(kind, tree[i].text)}

\* BUILD.md B-17: a module imports only the layers its row names.
ImportsKeepTheTable ==
  \A i \in DOMAIN tree : tree[i].layer # Root =>
    \A u \in InCodeOf(i, "use") : u[2] # 0 =>
      tree[u[2]].layer \in MayImport[tree[i].layer] \cup {tree[i].layer}

DeclaredIn(i) == {w[2] : w \in InCodeOf(i, "error")}

\* What the compiler asks of a raised name: the file declares it, or one file that it imports does,
\* or no file does and it is the prelude's.
Resolves(i, n) ==
  \/ n \in DeclaredIn(i)
  \/ \E u \in InCodeOf(i, "use") : u[2] # 0 /\ n \in DeclaredIn(u[2])
  \/ \A j \in DOMAIN tree : n \notin DeclaredIn(j)

Compiles == \A i \in DOMAIN tree : \A w \in InCodeOf(i, "fail") : Resolves(i, w[2])

DeclaredOnce == \A i, j \in DOMAIN tree : i # j => DeclaredIn(i) \cap DeclaredIn(j) = {}

\* SAFETY.md S-1: each error name is raised only in the layers S-6 lists.  check_error_budget asks
\* about the layer that declares it, so this takes the layering too, and a tree that compiles; a name
\* that two files declare is taken for the first one's, which is why claims.py's decls asks for one.
RaisedWhereListed ==
  Clean /\ Compiles /\ DeclaredOnce =>
    \A i \in DOMAIN tree : tree[i].layer # Root =>
      \A w \in InCodeOf(i, "fail") : w[2] \in ErrorNames \cap Declarable(tree[i].layer)

\* PA-004: limits.npk gives each bound its value and no other file writes one out.
BoundsHaveTheirPlace ==
  \A i \in DOMAIN tree :
    IF IsLimits(tree[i])
    THEN /\ {<<"fixed", n, Bounds[n]>> : n \in DOMAIN Bounds} \subseteq InCodeOf(i, "fixed")
         /\ {w[2] : w \in InCodeOf(i, "fixed")} \subseteq DOMAIN Bounds
    ELSE \A w \in InCodeOf(i, "int") : \A n \in DOMAIN Bounds : w[2] # Bounds[n]

\* PA-012, the no-trap rule: the scanner and the formats multiply and accumulate in
\* arith.npk alone.
ArithmeticIsGuarded ==
  \A i \in DOMAIN tree : Guarded(tree[i]) =>
    InCodeOf(i, "product") = {} /\ <<"sum", FALSE>> \notin InCodeOf(i, "sum")

\* The checks' promise, treecheck.py's header: the code of a tree that passes, whatever stands in its
\* comments and literals and whichever check reads it blanked, keeps the tables of the specifications.
CleanTreeKeepsTables == Clean => ImportsKeepTheTable /\ BoundsHaveTheirPlace /\ ArithmeticIsGuarded

\* The checks end.
TreeEnds == <>(stage = "done")
=============================================================================
