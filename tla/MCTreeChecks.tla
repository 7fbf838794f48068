---------------------------- MODULE MCTreeChecks ----------------------------
(***************************************************************************)
(* Every text of four lexemes, or of five that open a literal, in one file *)
(* of scan; trees of four files that declare, import and raise; the        *)
(* borders of the tables; and the call graphs of MCRecursion.              *)
(***************************************************************************)
EXTENDS TreeChecks, MCRecursion

MCErrorNames == {"EParseState", "EParseEncode"}
MCMayImport ==
  [core |-> {}, scan |-> {"core"}, doc |-> {"scan", "core"}, emit |-> {"doc", "scan", "core"}]
MCDeclares == [doc |-> {"EParseState"}, emit |-> {"EParseState", "EParseEncode"}]
MCBounds == [NPARSE_DEPTH |-> 7, NPARSE_KEYS |-> 9]
MCRules == {"S-1"}

File(layer, name, t) ==
  [layer |-> layer, name |-> name, text |-> t,
   header |-> IF layer \in DOMAIN MCMayImport THEN {MCMayImport[layer]} ELSE {}]
Files(fs) == [files |-> fs, functions |-> <<>>]

Lexemes == {LineOpener, BlockOpener, BlockCloser, Backslash, LineEnd, <<"int", 7>>} \cup Quotes
MCTexts ==
  {Files(<<File("scan", "cursor.npk", t)>>) :
     t \in UNION {[1..n -> Lexemes] : n \in 0..4} \cup {<<<<"double">>>> \o u : u \in [1..4 -> Lexemes]}}

State == "EParseState"   Encode == "EParseEncode"
\* lib, core, doc and emit, in the order of the walk.
MCBudgets ==
  {Files(<<File("lib", "lib.npk", a), File("core", "core.npk", b), File("doc", "doc.npk", c), File("emit", "emit.npk", d)>>) :
     a \in {<<>>, <<<<"use", 3>>, <<"fail", State>>>>},
     b \in {<<>>, <<<<"error", State>>>>, <<<<"error", State>>, <<"fail", State>>>>, <<LineOpener, <<"error", State>>>>,
            <<<<"use", 3>>, <<"fail", State>>>>, <<LineOpener, <<"use", 3>>>>},
     c \in {<<>>, <<<<"error", State>>>>, <<<<"use", 2>>, <<"fail", State>>>>, <<<<"use", 4>>, <<"fail", Encode>>>>,
            <<<<"use", 1>>>>, <<<<"use", 0>>, <<"fail", "EOther">>>>},
     d \in {<<>>, <<<<"error", Encode>>, <<"fail", Encode>>>>, <<<<"use", 3>>, <<"fail", State>>>>,
            <<<<"use", 2>>, <<"fail", State>>>>, <<<<"error", "EOther">>, <<"fail", "EOther">>>>}}

Fixed(n, v) == <<"fixed", n, v>>
MCLimits ==
  {Files(<<File("core", "limits.npk", t), File(layer, "b.npk", <<u>>)>>) :
     t \in {<<>>, <<Fixed("NPARSE_DEPTH", 7)>>, <<Fixed("NPARSE_DEPTH", 7), Fixed("NPARSE_KEYS", 9)>>,
            <<Fixed("NPARSE_KEYS", 9), LineOpener, Fixed("NPARSE_DEPTH", 7)>>,
            <<Fixed("NPARSE_DEPTH", 7), Fixed("NPARSE_KEYS", 8)>>,
            <<Fixed("NPARSE_DEPTH", 7), Fixed("NPARSE_KEYS", 9), Fixed("NPARSE_OTHER", 9)>>},
     layer \in {"core", "scan"},
     u \in {<<"int", 7>>, <<"int", 8>>, <<"cite", "S-1">>, <<"cite", "S-99">>}}

MCSums ==
  {Files(<<File(layer, name, <<u, v>>)>>) :
     layer \in {"scan", "doc"}, name \in {"arith.npk", "cursor.npk"},
     u \in {<<"product">>, <<"sum", TRUE>>, <<"sum", FALSE>>, LineOpener}, v \in {<<"product">>, <<"sum", FALSE>>, LineEnd}}

\* A layer of no row, and headers that are not the row's.
MCHeaders ==
  {Files(<<[File(layer, "a.npk", <<<<"use", 1>>>>) EXCEPT !.header = h]>>) :
     layer \in {"lib", "core", "scan", "new"}, h \in {{}, {{}}, {{"core"}}}}

MCTrees ==
  MCTexts \cup MCBudgets \cup MCLimits \cup MCSums \cup MCHeaders
    \cup {[files |-> <<>>, functions |-> g] : g \in MCSources}
MCTreeSources == {<<>>} \cup MCSources
=============================================================================
