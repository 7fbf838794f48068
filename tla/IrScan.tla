------------------------------- MODULE IrScan -------------------------------
(***************************************************************************)
(* harness/irscan.py, and what run.py holds its answers to: the lists      *)
(* DENIED and FLOOR against the runtime, the floor program's call edges    *)
(* against their list, the syscaller's one finding, and then the scan of   *)
(* a unit's IR for a denied call the floor program does not have.          *)
(*                                                                         *)
(* A line of IR is [kind, name]: what the three patterns of the scan take  *)
(* it for, and the symbol they read from it.                               *)
(***************************************************************************)
EXTENDS Integers, Sequences

CONSTANTS
  Symbols,      \* names of functions and of runtime symbols
  Generated,    \* each name with the compiler's trailing number taken off
  Intrinsics,   \* the names that start with llvm.
  DENIED, FLOOR,
  FLOOR_EDGES,  \* the floor program's call edges, reviewed
  SyscallEdge,  \* the syscaller's one finding
  Runtimes,     \* runtime objects: [defined, exported], the symbols each has
  Emissions,    \* what npkc can emit for the three programs
  Nobody        \* no enclosing function

Programs == {"floor", "syscaller", "unit"}
Lines == [kind : {"define", "declare", "call", "close", "other"}, name : Symbols]

(* What a text says, with no scan's state. *)

Defines(t)  == {t[i].name : i \in {j \in DOMAIN t : t[j].kind = "define"}}
Declares(t) == {t[i].name : i \in {j \in DOMAIN t : t[j].kind = "declare"}}

\* Line i is in the body of f.
Within(t, i, f) ==
  \E d \in 1..(i - 1) :
    /\ t[d].kind = "define" /\ t[d].name = f
    /\ \A j \in (d + 1)..(i - 1) : t[j].kind \notin {"define", "close"}

Calls(t, i, f) == t[i].kind = "call" /\ Within(t, i, f)

\* LLVM takes no module that calls what it neither defines nor declares.
WellFormed(t) == \A i \in DOMAIN t : t[i].kind = "call" => t[i].name \in Defines(t) \cup Declares(t)

ASSUME IrScanAssumption ==
  /\ Generated \in [Symbols -> Symbols]
  /\ DENIED \subseteq Symbols /\ FLOOR \subseteq Symbols /\ FLOOR_EDGES \subseteq Symbols \X Symbols
  /\ Runtimes \subseteq [defined : SUBSET Symbols, exported : SUBSET (Symbols \ Intrinsics)]
  /\ Emissions \subseteq [Programs -> Seq(Lines)]
  /\ \A e \in Emissions : \A p \in Programs : WellFormed(e[p])
  /\ Nobody \notin Symbols

VARIABLES
  runtime, emitted,
  program,      \* the one that is scanned
  pass, n,      \* its pass over the lines, and how many of them it has read
  defined, declared,
  cur,          \* the function whose body is read
  out,          \* the edges found
  floor_edges,  \* the floor program's, every scan's baseline
  failures,
  found         \* the findings in the unit

irScanVars ==
  <<runtime, emitted, program, pass, n, defined, declared, cur, out, floor_edges, failures, found>>
inputs == <<runtime, emitted>>
answers == <<floor_edges, failures, found>>

text == emitted[program]
Kind == text[n + 1].kind
Name == text[n + 1].name

Init ==
  /\ runtime \in Runtimes /\ emitted \in Emissions
  /\ program = "floor" /\ pass = "runtime" /\ n = 0
  /\ defined = {} /\ declared = {} /\ cur = Nobody /\ out = {}
  /\ floor_edges = {} /\ failures = {} /\ found = {}

\* Mutant: a symbol the lists lack is let through.
ClassedListed == (DENIED \cup FLOOR) \subseteq runtime.defined

\* The lists name what the runtime defines, and class every symbol it exports.
Classed ==
  /\ (DENIED \cup FLOOR) \subseteq runtime.defined
  /\ runtime.exported \subseteq (DENIED \cup FLOOR)

ReadRuntime ==
  /\ pass = "runtime"
  /\ pass' = IF Classed THEN "symbols" ELSE "stopped"
  /\ UNCHANGED <<inputs, program, n, defined, declared, cur, out, answers>>

\* The first pass: what the module defines and what it declares.
ReadSymbol ==
  /\ pass = "symbols" /\ n < Len(text)
  /\ n' = n + 1
  /\ defined' = IF Kind = "define" THEN defined \cup {Name} ELSE defined
  /\ declared' = IF Kind = "declare" THEN declared \cup {Name} ELSE declared
  /\ UNCHANGED <<inputs, program, pass, cur, out, answers>>

SymbolsRead ==
  /\ pass = "symbols" /\ n = Len(text)
  /\ pass' = "calls" /\ n' = 0 /\ cur' = Nobody /\ out' = {}
  /\ UNCHANGED <<inputs, program, defined, declared, answers>>

Scanned == (declared \ defined) \ Intrinsics

\* The second pass.
ReadLine == pass = "calls" /\ n < Len(text) /\ n' = n + 1
            /\ UNCHANGED <<inputs, program, pass, defined, declared, answers>>

OpenFunction ==
  /\ ReadLine /\ Kind = "define"
  /\ cur' = Name
  /\ UNCHANGED out

CloseFunction ==
  /\ ReadLine /\ Kind = "close"
  /\ cur' = Nobody
  /\ UNCHANGED out

Edge == <<Generated[cur], Name>>

ReadCall ==
  /\ ReadLine /\ Kind = "call" /\ cur # Nobody
  /\ out' = IF Name \in Scanned THEN out \cup {Edge} ELSE out
  /\ UNCHANGED cur

PassBy ==
  /\ ReadLine
  /\ Kind \in {"declare", "other"} \/ (Kind = "call" /\ cur = Nobody)
  /\ UNCHANGED <<cur, out>>

\* Mutant: the floor's functions are excused, whatever they call.
FindingsByFunction(edges) ==
  {e \in edges : e[2] \in DENIED /\ \A b \in floor_edges : b[1] # e[1]}

\* The denied edges that the floor program does not have.
Findings(edges) == {e \in edges \ floor_edges : e[2] \in DENIED}

CallsRead(p) == pass = "calls" /\ n = Len(text) /\ program = p

\* The next program's scan starts anew.
Scan(p) ==
  /\ program' = p /\ pass' = "symbols" /\ n' = 0 /\ defined' = {} /\ declared' = {}
  /\ UNCHANGED <<inputs, cur, out>>

\* The baseline: an edge gained or lost is a failure, and the run carries on.  (The objects' undefined
\* symbols, held beside the edges here and in the next step, are in Harness's Baseline.)
FloorScanned ==
  /\ CallsRead("floor")
  /\ floor_edges' = out
  /\ failures' = IF out = FLOOR_EDGES THEN failures ELSE failures \cup {"floor list"}
  /\ Scan("syscaller")
  /\ UNCHANGED found

\* The control: a scan that does not see the syscaller's call, and it alone, is blind.
SyscallerScanned ==
  /\ CallsRead("syscaller")
  /\ failures' = IF Findings(out) = {SyscallEdge} THEN failures ELSE failures \cup {"instruments"}
  /\ Scan("unit")
  /\ UNCHANGED <<floor_edges, found>>

UnitScanned ==
  /\ CallsRead("unit")
  /\ found' = Findings(out)
  /\ pass' = "judged"
  /\ UNCHANGED <<inputs, program, n, defined, declared, cur, out, floor_edges, failures>>

Next ==
  \/ ReadRuntime \/ ReadSymbol \/ SymbolsRead
  \/ OpenFunction \/ CloseFunction \/ ReadCall \/ PassBy
  \/ FloorScanned \/ SyscallerScanned \/ UnitScanned

Spec == Init /\ [][Next]_irScanVars

-----------------------------------------------------------------------------
(* Properties. *)

Edges == {<<Generated[f], c>> : f \in Symbols, c \in Symbols}

TypeOK ==
  /\ runtime \in Runtimes /\ emitted \in [Programs -> Seq(Lines)]
  /\ program \in Programs /\ pass \in {"runtime", "symbols", "calls", "judged", "stopped"}
  /\ n \in 0..Len(text)
  /\ defined \subseteq Symbols /\ declared \subseteq Symbols
  /\ cur \in Symbols \cup {Nobody}
  /\ out \subseteq Edges /\ floor_edges \subseteq Edges /\ found \subseteq Edges
  /\ failures \subseteq {"floor list", "instruments"}

\* The edges of a text: each call, in whose body, of what the module leaves to the runtime.
IsEdge(t, e) ==
  \E i \in DOMAIN t, f \in Symbols :
    /\ Calls(t, i, f) /\ e = <<Generated[f], t[i].name>>
    /\ t[i].name \in Declares(t) \ Defines(t) /\ t[i].name \notin Intrinsics

\* A unit's findings are its denied edges that are none of the floor program's, wherever in the two texts
\* the calls and the declarations stand, and whatever the scans before it left behind.
FindsWhatIsThere ==
  pass = "judged" => \A e \in Edges :
    e \in found <=> /\ e[2] \in DENIED
                    /\ IsEdge(emitted["unit"], e) /\ ~IsEdge(emitted["floor"], e)

\* PA-006 as the run can show it: when the lists class the runtime, the floor program's edges are its list
\* and a unit has no finding, each call it makes of a global runtime symbol is of FLOOR's, or is in a function
\* that the reviewed edges name with it.
SilentIsClean ==
  pass = "judged" /\ failures = {} /\ found = {} =>
    LET t == emitted["unit"] IN
      \A i \in DOMAIN t, f \in Symbols :
        Calls(t, i, f) /\ t[i].name \in runtime.exported \ Defines(t) =>
          t[i].name \in FLOOR \/ <<Generated[f], t[i].name>> \in FLOOR_EDGES
=============================================================================
