---------------------------- MODULE IrScanProofs ----------------------------
(***************************************************************************)
(* For every runtime, every emission LLVM can take and every pair of       *)
(* lists: the scan finds the denied edges that are there, and its silence, *)
(* with the checks before it, leaves a unit no unreviewed way out.         *)
(***************************************************************************)
EXTENDS IrScan, TLAPS

(* The inductive invariant, in named parts: what each pass has read so far. *)

\* What the first k lines define and declare.
DefinesTo(t, k)  == {t[i].name : i \in {j \in 1..k : t[j].kind = "define"}}
DeclaresTo(t, k) == {t[i].name : i \in {j \in 1..k : t[j].kind = "declare"}}

SymbolsRight ==
  /\ pass = "symbols" => defined = DefinesTo(text, n) /\ declared = DeclaresTo(text, n)
  /\ pass = "calls" => defined = Defines(text) /\ declared = Declares(text)

CurRight == pass = "calls" => \A f \in Symbols : cur = f <=> Within(text, n + 1, f)

\* An edge of the first k lines.
IsEdgeTo(t, e, k) ==
  \E i \in 1..k, f \in Symbols :
    /\ Calls(t, i, f) /\ e = <<Generated[f], t[i].name>>
    /\ t[i].name \in Declares(t) \ Defines(t) /\ t[i].name \notin Intrinsics

OutRight == pass = "calls" => \A e \in Edges : e \in out <=> IsEdgeTo(text, e, n)

FloorRight ==
  /\ program # "floor" =>
       /\ \A e \in Edges : e \in floor_edges <=> IsEdge(emitted["floor"], e)
       /\ "floor list" \notin failures => floor_edges = FLOOR_EDGES
  /\ pass = "judged" => program = "unit"

Fresh == pass = "runtime" => n = 0 /\ defined = {} /\ declared = {} /\ program = "floor"
InputsFine == \A p \in Programs : WellFormed(emitted[p])
RuntimeClassed == pass \in {"symbols", "calls", "judged"} => Classed

IrScanInv ==
  /\ TypeOK /\ InputsFine /\ Fresh /\ RuntimeClassed
  /\ SymbolsRight /\ CurRight /\ OutRight /\ FloorRight /\ FindsWhatIsThere

-----------------------------------------------------------------------------
(* Lines. *)

\* The next line of the program's text, and its types.
LEMMA LineTypes ==
  ASSUME TypeOK
  PROVE  /\ text \in Seq(Lines) /\ Len(text) \in Nat /\ DOMAIN text = 1..Len(text) /\ n \in Nat
         /\ n < Len(text) => n + 1 \in 1..Len(text) /\ Name \in Symbols
                             /\ Kind \in {"define", "declare", "call", "close", "other"}
<1>1. text \in Seq(Lines) /\ n \in 0..Len(text)
  BY DEF TypeOK, text
<1>2. Len(text) \in Nat /\ DOMAIN text = 1..Len(text)
  BY <1>1
<1>3. ASSUME n < Len(text) PROVE n + 1 \in 1..Len(text) /\ text[n + 1] \in Lines
  BY <1>1, <1>2, <1>3
<1> QED
  BY <1>1, <1>2, <1>3 DEF Lines, Name, Kind

\* The function around the line after a line.
LEMMA WithinStep ==
  ASSUME NEW t, NEW k \in Nat, NEW f
  PROVE  /\ t[k + 1].kind = "define" => (Within(t, (k + 1) + 1, f) <=> f = t[k + 1].name)
         /\ t[k + 1].kind = "close" => ~Within(t, (k + 1) + 1, f)
         /\ t[k + 1].kind \notin {"define", "close"} => (Within(t, (k + 1) + 1, f) <=> Within(t, k + 1, f))
<1>1. /\ 1..(((k + 1) + 1) - 1) = 1..((k + 1) - 1) \cup {k + 1}
      /\ \A d \in 1..k : (d + 1)..(((k + 1) + 1) - 1) = ((d + 1)..((k + 1) - 1)) \cup {k + 1}
      /\ ((k + 1) + 1)..(((k + 1) + 1) - 1) = {}
      /\ (k + 1) - 1 = k
  OBVIOUS
<1>2. ASSUME t[k + 1].kind = "define" PROVE Within(t, (k + 1) + 1, f) <=> f = t[k + 1].name
  BY <1>1, <1>2 DEF Within
<1>3. ASSUME t[k + 1].kind = "close" PROVE ~Within(t, (k + 1) + 1, f)
  BY <1>1, <1>3 DEF Within
<1>4. ASSUME t[k + 1].kind \notin {"define", "close"}
      PROVE  Within(t, (k + 1) + 1, f) <=> Within(t, k + 1, f)
  BY <1>1, <1>4 DEF Within
<1> QED
  BY <1>2, <1>3, <1>4

\* No function is open before the first line.
LEMMA WithinNone == \A t, f : ~Within(t, 0 + 1, f)
  BY DEF Within

\* The edges of one line more.
LEMMA EdgeStep ==
  ASSUME NEW t, NEW k \in Nat, NEW e
  PROVE  IsEdgeTo(t, e, k + 1) <=>
           \/ IsEdgeTo(t, e, k)
           \/ \E f \in Symbols :
                /\ Calls(t, k + 1, f) /\ e = <<Generated[f], t[k + 1].name>>
                /\ t[k + 1].name \in Declares(t) \ Defines(t) /\ t[k + 1].name \notin Intrinsics
<1>1. 1..(k + 1) = 1..k \cup {k + 1}
  OBVIOUS
<1> QED
  BY <1>1 DEF IsEdgeTo

\* The edges of the whole text are those of all its lines.
LEMMA EdgesWhole ==
  ASSUME NEW t, NEW e, NEW k, DOMAIN t = 1..k
  PROVE  IsEdge(t, e) <=> IsEdgeTo(t, e, k)
  BY DEF IsEdge, IsEdgeTo

\* No line read, no edge.
LEMMA EdgesNone == \A t, e : ~IsEdgeTo(t, e, 0)
  BY DEF IsEdgeTo

-----------------------------------------------------------------------------
(* The steps. *)

LEMMA IrScanInit == Init => IrScanInv
<1> SUFFICES ASSUME Init PROVE IrScanInv
  OBVIOUS
<1>1. /\ runtime \in Runtimes /\ emitted \in Emissions /\ emitted \in [Programs -> Seq(Lines)]
      /\ program = "floor" /\ pass = "runtime" /\ n = 0
  BY IrScanAssumption DEF Init
<1>2. text \in Seq(Lines) /\ Len(text) \in Nat
  BY <1>1 DEF text, Programs
<1>3. TypeOK
  BY <1>1, <1>2 DEF Init, TypeOK, Programs
<1>4. InputsFine
  BY <1>1, IrScanAssumption DEF InputsFine
<1>5. Fresh /\ RuntimeClassed /\ SymbolsRight /\ CurRight /\ OutRight /\ FloorRight /\ FindsWhatIsThere
  BY <1>1 DEF Init, RuntimeClassed, SymbolsRight, CurRight, OutRight, FloorRight, FindsWhatIsThere, Fresh
<1> QED
  BY <1>3, <1>4, <1>5 DEF IrScanInv

\* The runtime's lists are held.
LEMMA RuntimeStep ==
  ASSUME IrScanInv, ReadRuntime
  PROVE  IrScanInv'
<1>1. /\ UNCHANGED <<runtime, emitted, program, n, defined, declared, cur, out, floor_edges, failures, found>>
      /\ pass = "runtime" /\ n \in Nat /\ text' = text /\ Classed' = Classed
  BY LineTypes DEF ReadRuntime, inputs, answers, text, IrScanInv, Classed
<1>2. TypeOK'
  BY <1>1 DEF ReadRuntime, IrScanInv, TypeOK
<1>3. RuntimeClassed'
  BY <1>1 DEF ReadRuntime, RuntimeClassed
<1>4. SymbolsRight'
  <2>1. n = 0 /\ defined = {} /\ declared = {}
    BY <1>1 DEF IrScanInv, Fresh
  <2> QED
    BY <2>1, <1>1 DEF ReadRuntime, SymbolsRight, DefinesTo, DeclaresTo
<1>5. pass' # "runtime" /\ pass' # "calls" /\ pass' # "judged"
  BY DEF ReadRuntime
<1>6. (InputsFine /\ FloorRight)'
  BY <1>1, <1>5 DEF IrScanInv, InputsFine, WellFormed, Defines, Declares, FloorRight, IsEdge, Fresh
<1> QED
  BY <1>2, <1>3, <1>4, <1>5, <1>6 DEF IrScanInv, Fresh, CurRight, OutRight, FindsWhatIsThere

\* One more line of the first pass.
LEMMA SymbolStep ==
  ASSUME IrScanInv, ReadSymbol
  PROVE  IrScanInv'
<1>1. /\ UNCHANGED <<runtime, emitted, program, pass, cur, out, floor_edges, failures, found>>
      /\ pass = "symbols" /\ n' = n + 1 /\ n < Len(text) /\ text' = text
      /\ n \in Nat /\ Len(text) \in Nat /\ Name \in Symbols /\ TypeOK
  BY LineTypes DEF ReadSymbol, inputs, answers, text, IrScanInv
<1>2. TypeOK'
  <2>1. n' = n + 1 /\ n < Len(text) /\ text' = text /\ n \in Nat /\ Len(text) \in Nat
    BY <1>1
  <2>2. (n \in 0..Len(text))'
    BY <2>1
  <2>3. defined' \subseteq Symbols /\ declared' \subseteq Symbols
    BY <1>1 DEF ReadSymbol, TypeOK
  <2> QED
    BY <1>1, <2>2, <2>3 DEF TypeOK
<1>3. 1..(n + 1) = 1..n \cup {n + 1}
  BY <1>1
<1>4. /\ DefinesTo(text, n + 1) = DefinesTo(text, n) \cup (IF Kind = "define" THEN {Name} ELSE {})
      /\ DeclaresTo(text, n + 1) = DeclaresTo(text, n) \cup (IF Kind = "declare" THEN {Name} ELSE {})
  BY <1>3 DEF DefinesTo, DeclaresTo, Kind, Name
<1>5. SymbolsRight'
  <2>1. defined = DefinesTo(text, n) /\ declared = DeclaresTo(text, n)
    BY <1>1 DEF IrScanInv, SymbolsRight
  <2>2. defined' = DefinesTo(text, n + 1) /\ declared' = DeclaresTo(text, n + 1)
    BY <2>1, <1>4 DEF ReadSymbol
  <2>3. pass' = "symbols" /\ n' = n + 1 /\ text' = text
    BY <1>1
  <2> QED
    BY <2>2, <2>3 DEF SymbolsRight, DefinesTo, DeclaresTo
<1>6. (InputsFine /\ RuntimeClassed /\ FloorRight /\ FindsWhatIsThere /\ Fresh)'
  BY <1>1 DEF IrScanInv, InputsFine, WellFormed, RuntimeClassed, Classed, FloorRight, FindsWhatIsThere, IsEdge,
     Fresh
<1> QED
  BY <1>1, <1>2, <1>5, <1>6 DEF IrScanInv, CurRight, OutRight

\* The first pass has read the whole text; the second starts.
LEMMA SymbolsReadStep ==
  ASSUME IrScanInv, SymbolsRead
  PROVE  IrScanInv'
<1>1. /\ UNCHANGED <<runtime, emitted, program, defined, declared, floor_edges, failures, found>>
      /\ pass = "symbols" /\ pass' = "calls" /\ n = Len(text) /\ n' = 0 /\ cur' = Nobody /\ out' = {}
      /\ text' = text /\ Len(text) \in Nat /\ DOMAIN text = 1..Len(text) /\ TypeOK
  BY LineTypes DEF SymbolsRead, inputs, answers, text, IrScanInv
<1>2. TypeOK'
  <2>1. n' = 0 /\ text' = text /\ Len(text) \in Nat
    BY <1>1
  <2>2. (n \in 0..Len(text))'
    BY <2>1
  <2> QED
    BY <1>1, <2>2 DEF TypeOK
<1>3. defined = Defines(text) /\ declared = Declares(text)
  BY <1>1 DEF IrScanInv, SymbolsRight, DefinesTo, DeclaresTo, Defines, Declares
<1>4. SymbolsRight'
  BY <1>1, <1>3 DEF SymbolsRight, Defines, Declares
<1>5. CurRight'
  BY <1>1, WithinNone, IrScanAssumption DEF CurRight, Within
<1>6. OutRight'
  BY <1>1, EdgesNone DEF OutRight, IsEdgeTo
<1>7. (InputsFine /\ RuntimeClassed /\ FloorRight /\ FindsWhatIsThere /\ Fresh)'
  BY <1>1 DEF IrScanInv, InputsFine, WellFormed, RuntimeClassed, Classed, FloorRight, FindsWhatIsThere, IsEdge,
     Fresh
<1> QED
  BY <1>2, <1>4, <1>5, <1>6, <1>7 DEF IrScanInv

\* One more line of the second pass.
LEMMA LineStep ==
  ASSUME IrScanInv, OpenFunction \/ CloseFunction \/ ReadCall \/ PassBy
  PROVE  IrScanInv'
<1>1. /\ UNCHANGED <<runtime, emitted, program, pass, defined, declared, floor_edges, failures, found>>
      /\ pass = "calls" /\ n < Len(text) /\ n' = n + 1
      /\ text' = text /\ n \in Nat /\ Len(text) \in Nat /\ Name \in Symbols
      /\ Kind \in {"define", "declare", "call", "close", "other"} /\ TypeOK
  BY LineTypes DEF OpenFunction, CloseFunction, ReadCall, PassBy, ReadLine, inputs, answers, text, IrScanInv
<1>2. /\ \A f \in Symbols : cur = f <=> Within(text, n + 1, f)
      /\ \A e \in Edges : e \in out <=> IsEdgeTo(text, e, n)
      /\ defined = Defines(text) /\ declared = Declares(text)
      /\ cur \in Symbols \cup {Nobody} /\ out \subseteq Edges
  BY <1>1 DEF IrScanInv, CurRight, OutRight, SymbolsRight, TypeOK
<1>3. \A f \in Symbols : cur' = f <=> Within(text, (n + 1) + 1, f)
  <2>1. CASE OpenFunction
    BY <2>1, <1>1, WithinStep DEF OpenFunction, Kind, Name
  <2>2. CASE CloseFunction
    BY <2>2, <1>1, WithinStep, IrScanAssumption DEF CloseFunction, Kind
  <2>3. CASE ReadCall \/ PassBy
    <3>1. cur' = cur /\ Kind \notin {"define", "close"}
      BY <2>3, <1>1 DEF ReadCall, PassBy
    <3> QED
      BY <3>1, <1>1, <1>2, WithinStep DEF Kind
  <2> QED
    BY <2>1, <2>2, <2>3
<1>4. CurRight'
  BY <1>1, <1>3 DEF CurRight, Within
<1>5. ASSUME ReadCall
      PROVE  /\ cur \in Symbols /\ Edge \in Edges
             /\ out' = IF Name \in (Declares(text) \ Defines(text)) \ Intrinsics THEN out \cup {Edge} ELSE out
             /\ \A f \in Symbols : Calls(text, n + 1, f) <=> f = cur
  BY <1>5, <1>1, <1>2 DEF ReadCall, Calls, Scanned, Edge, Edges, Kind
<1>6. ASSUME ~ReadCall PROVE out' = out /\ \A f \in Symbols : ~Calls(text, n + 1, f)
  BY <1>6, <1>1, <1>2, IrScanAssumption DEF OpenFunction, CloseFunction, PassBy, Calls, Kind
<1>7. out' \subseteq Edges /\ \A e \in Edges : e \in out' <=> IsEdgeTo(text, e, n + 1)
  <2>1. CASE ReadCall
    BY <2>1, <1>1, <1>2, <1>5, EdgeStep DEF Edge, Name
  <2>2. CASE ~ReadCall
    BY <2>2, <1>1, <1>2, <1>6, EdgeStep
  <2> QED
    BY <2>1, <2>2
<1>8. OutRight'
  BY <1>1, <1>7 DEF OutRight, IsEdgeTo
<1>9. cur' \in Symbols \cup {Nobody}
  BY <1>1, <1>2 DEF OpenFunction, CloseFunction, ReadCall, PassBy
<1>10. TypeOK'
  <2>1. n' = n + 1 /\ n < Len(text) /\ text' = text /\ n \in Nat /\ Len(text) \in Nat
    BY <1>1
  <2>2. (n \in 0..Len(text))'
    BY <2>1
  <2> QED
    BY <1>1, <1>7, <1>9, <2>2 DEF TypeOK
<1>11. (InputsFine /\ RuntimeClassed /\ FloorRight /\ FindsWhatIsThere /\ Fresh)'
  BY <1>1 DEF IrScanInv, InputsFine, WellFormed, RuntimeClassed, Classed, FloorRight, FindsWhatIsThere,
     IsEdge, Fresh
<1>12. SymbolsRight'
  BY <1>1, <1>2 DEF SymbolsRight, Defines, Declares
<1> QED
  BY <1>4, <1>8, <1>10, <1>11, <1>12 DEF IrScanInv

\* A scan that has read every call knows the program's edges.
LEMMA ScanKnows ==
  ASSUME IrScanInv, NEW p, CallsRead(p)
  PROVE  \A e \in Edges : e \in out <=> IsEdge(emitted[p], e)
<1>1. /\ pass = "calls" /\ n = Len(text) /\ program = p /\ text = emitted[p]
      /\ DOMAIN text = 1..n /\ \A e \in Edges : e \in out <=> IsEdgeTo(text, e, n)
  BY LineTypes DEF CallsRead, IrScanInv, OutRight, text
<1> QED
  BY <1>1, EdgesWhole

\* No line of a text is read.
LEMMA NoLine ==
  /\ \A t \in Seq(Lines) : 0 \in 0..Len(t)
  /\ \A t : DefinesTo(t, 0) = {} /\ DeclaresTo(t, 0) = {}
<1>1. 1..0 = {}
  OBVIOUS
<1> QED
  BY <1>1 DEF DefinesTo, DeclaresTo

\* Where a scan hands over to the next program's.
LEMMA HandedOver ==
  ASSUME IrScanInv, NEW p, p \in {"syscaller", "unit"}, pass = "calls", Scan(p),
         floor_edges' \subseteq Edges, found' = found, failures' \subseteq {"floor list", "instruments"}
  PROVE  (TypeOK /\ InputsFine /\ Fresh /\ RuntimeClassed /\ SymbolsRight /\ CurRight /\ OutRight
            /\ FindsWhatIsThere)'
<1>1. /\ UNCHANGED <<runtime, emitted, cur, out>> /\ TypeOK
      /\ program' = p /\ pass' = "symbols" /\ n' = 0 /\ defined' = {} /\ declared' = {}
  BY DEF Scan, inputs, IrScanInv
<1>2. (n \in 0..Len(text))'
  <2>1. emitted' \in [Programs -> Seq(Lines)] /\ program' \in Programs
    BY <1>1 DEF TypeOK, Programs
  <2>2. text' \in Seq(Lines)
    BY <2>1 DEF text
  <2> QED
    BY <2>2, <1>1, NoLine
<1>3. TypeOK'
  BY <1>1, <1>2 DEF TypeOK, Programs
<1>4. SymbolsRight'
  BY <1>1, NoLine DEF SymbolsRight
<1>5. (InputsFine /\ RuntimeClassed)'
  <2>1. InputsFine'
    BY <1>1 DEF IrScanInv, InputsFine
  <2> QED
    BY <2>1, <1>1 DEF IrScanInv, RuntimeClassed, Classed
<1> QED
  BY <1>1, <1>3, <1>4, <1>5 DEF Fresh, CurRight, OutRight, FindsWhatIsThere

\* The floor's scan ends.
LEMMA FloorStep ==
  ASSUME IrScanInv, FloorScanned
  PROVE  IrScanInv'
<1>1. /\ CallsRead("floor") /\ Scan("syscaller") /\ floor_edges' = out /\ found' = found /\ TypeOK
      /\ emitted' = emitted /\ program' = "syscaller" /\ pass' = "symbols" /\ pass = "calls"
      /\ failures' = IF out = FLOOR_EDGES THEN failures ELSE failures \cup {"floor list"}
  BY DEF FloorScanned, Scan, CallsRead, inputs, IrScanInv
<1>2. \A e \in Edges : e \in out <=> IsEdge(emitted["floor"], e)
  BY <1>1, ScanKnows
<1>3. FloorRight'
  BY <1>1, <1>2 DEF FloorRight, IsEdge
<1> QED
  BY <1>1, <1>3, HandedOver DEF IrScanInv, TypeOK

\* The syscaller's scan ends.
LEMMA SyscallerStep ==
  ASSUME IrScanInv, SyscallerScanned
  PROVE  IrScanInv'
<1>1. /\ CallsRead("syscaller") /\ Scan("unit") /\ floor_edges' = floor_edges /\ found' = found /\ TypeOK
      /\ emitted' = emitted /\ program' = "unit" /\ pass' = "symbols" /\ pass = "calls"
      /\ program = "syscaller" /\ failures' \in {failures, failures \cup {"instruments"}}
  BY DEF SyscallerScanned, Scan, CallsRead, inputs, IrScanInv
<1>2. FloorRight'
  BY <1>1 DEF IrScanInv, FloorRight, IsEdge
<1> QED
  BY <1>1, <1>2, HandedOver DEF IrScanInv, TypeOK

\* A unit's scan ends.
LEMMA UnitStep ==
  ASSUME IrScanInv, UnitScanned
  PROVE  IrScanInv'
<1>1. /\ CallsRead("unit") /\ UNCHANGED <<runtime, emitted, program, n, defined, declared, cur, out, floor_edges, failures>>
      /\ found' = Findings(out) /\ pass' = "judged" /\ pass = "calls" /\ program = "unit" /\ TypeOK
      /\ text' = text
  BY DEF UnitScanned, CallsRead, inputs, text, IrScanInv
<1>2. found' \subseteq Edges
  BY <1>1 DEF Findings, TypeOK
<1>3. TypeOK'
  BY <1>1, <1>2 DEF TypeOK
<1>4. \A e \in Edges : e \in out <=> IsEdge(emitted["unit"], e)
  BY <1>1, ScanKnows
<1>5. \A e \in Edges : e \in floor_edges <=> IsEdge(emitted["floor"], e)
  BY <1>1 DEF IrScanInv, FloorRight
<1>6. FindsWhatIsThere'
  BY <1>1, <1>4, <1>5 DEF FindsWhatIsThere, Findings, IsEdge
<1>7. (InputsFine /\ Fresh /\ RuntimeClassed)'
  BY <1>1 DEF IrScanInv, InputsFine, Fresh, RuntimeClassed, Classed
<1>8. FloorRight'
  BY <1>1 DEF IrScanInv, FloorRight
<1> QED
  BY <1>1, <1>3, <1>6, <1>7, <1>8 DEF IrScanInv, SymbolsRight, CurRight, OutRight

\* Every step keeps the invariant.
LEMMA IrScanStep == IrScanInv /\ [Next]_irScanVars => IrScanInv'
<1>1. ASSUME IrScanInv, Next PROVE IrScanInv'
  BY <1>1, RuntimeStep, SymbolStep, SymbolsReadStep, LineStep, FloorStep, SyscallerStep, UnitStep DEF Next
<1>2. ASSUME IrScanInv, UNCHANGED irScanVars PROVE IrScanInv'
  <2>1. /\ UNCHANGED <<runtime, emitted, program, pass, n, defined, declared, cur, out, floor_edges, failures, found>>
        /\ text' = text
    BY <1>2 DEF irScanVars, text
  <2>2. (TypeOK /\ InputsFine /\ Fresh /\ RuntimeClassed)'
    BY <1>2, <2>1 DEF IrScanInv, TypeOK, InputsFine, Fresh, RuntimeClassed, Classed
  <2>3. (SymbolsRight /\ CurRight /\ OutRight)'
    BY <1>2, <2>1 DEF IrScanInv, SymbolsRight, DefinesTo, DeclaresTo, Defines, Declares, CurRight, OutRight
  <2>4. (FloorRight /\ FindsWhatIsThere)'
    BY <1>2, <2>1 DEF IrScanInv, FloorRight, FindsWhatIsThere
  <2> QED
    BY <2>2, <2>3, <2>4 DEF IrScanInv
<1> QED
  BY <1>1, <1>2

\* The inductive invariant holds in every run.
LEMMA IrScanAlways == Spec => []IrScanInv
  BY IrScanInit, IrScanStep, PTL DEF Spec

-----------------------------------------------------------------------------
(* Theorems. *)

\* What a unit's silence says follows from the invariant.
LEMMA SilenceFollows == IrScanInv => SilentIsClean
<1> SUFFICES ASSUME IrScanInv, pass = "judged", failures = {}, found = {},
                    NEW i \in DOMAIN emitted["unit"], NEW f \in Symbols,
                    Calls(emitted["unit"], i, f),
                    emitted["unit"][i].name \in runtime.exported \ Defines(emitted["unit"]),
                    emitted["unit"][i].name \notin FLOOR
             PROVE  <<Generated[f], emitted["unit"][i].name>> \in FLOOR_EDGES
  BY DEF SilentIsClean
<1> DEFINE c == emitted["unit"][i].name
           e == <<Generated[f], c>>
<1>1. runtime \in [defined : SUBSET Symbols, exported : SUBSET (Symbols \ Intrinsics)]
  BY IrScanAssumption DEF IrScanInv, TypeOK
<1>2. c \in Symbols /\ c \notin Intrinsics
  BY <1>1
<1>3. c \in Declares(emitted["unit"]) \ Defines(emitted["unit"])
  BY DEF IrScanInv, InputsFine, WellFormed, Programs, Calls
<1>4. e \in Edges /\ IsEdge(emitted["unit"], e)
  BY <1>2, <1>3 DEF Edges, IsEdge
<1>5. c \in DENIED
  BY DEF IrScanInv, RuntimeClassed, Classed
<1>6. IsEdge(emitted["floor"], e)
  BY <1>4, <1>5 DEF IrScanInv, FindsWhatIsThere
<1>7. e \in floor_edges /\ floor_edges = FLOOR_EDGES
  BY <1>4, <1>6 DEF IrScanInv, FloorRight
<1> QED
  BY <1>7

\* The type invariant of the scan.
THEOREM IrScanTypes == Spec => []TypeOK
  BY IrScanAlways, PTL DEF IrScanInv

\* A unit's findings are exactly its denied edges that the floor program does not have.
THEOREM ScanIsExact == Spec => []FindsWhatIsThere
  BY IrScanAlways, PTL DEF IrScanInv

\* A silent scan in a run whose controls hold leaves no unreviewed call of a denied symbol.
THEOREM SilenceIsClean == Spec => []SilentIsClean
  BY IrScanAlways, SilenceFollows, PTL
=============================================================================
