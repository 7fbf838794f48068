----------------------------- MODULE MCIrScan -----------------------------
(***************************************************************************)
(* A floor program whose drop glue closes a descriptor, as it is reviewed  *)
(* or with one more call; the syscaller; and every unit of up to four      *)
(* lines, or of two functions with their declarations after them.          *)
(***************************************************************************)
EXTENDS IrScan

MCSymbols == {"main", "drop.1", "drop.2", "drop.N", "sys", "close", "alloc", "llvm.trap", "new"}
MCGenerated == [s \in MCSymbols |-> IF s \in {"drop.1", "drop.2"} THEN "drop.N" ELSE s]

L(kind, name) == [kind |-> kind, name |-> name]
Close == L("close", "main")

Floor == <<L("define", "drop.1"), L("call", "close"), L("call", "alloc"), Close,
           L("declare", "close"), L("declare", "alloc")>>
GainedFloor == <<L("declare", "sys"), L("define", "main"), L("call", "sys"), Close>> \o Floor
Syscaller == Floor \o <<L("define", "main"), L("call", "sys"), Close, L("declare", "sys")>>

Any == {L("define", "drop.2"), L("define", "main"), L("define", "sys"), L("declare", "sys"),
        L("declare", "new"), L("call", "sys"), L("call", "close"), L("call", "llvm.trap"),
        L("call", "new"), Close}

Declarations == <<L("declare", "new"), L("declare", "sys"), L("declare", "llvm.trap"), L("declare", "close")>>

MCUnits ==
  {t \in UNION {[1..k -> Any] : k \in 0..4} : WellFormed(t)}
    \cup {<<L("define", f), x, y, Close, L("define", "main"), z, Close>> \o Declarations :
            f \in {"main", "drop.2"}, x \in Any, y \in Any, z \in Any}

Emitted(floor, unit) ==
  [p \in Programs |-> CASE p = "floor" -> floor [] p = "syscaller" -> Syscaller [] p = "unit" -> unit]

MCEmissions ==
  {Emitted(Floor, u) : u \in MCUnits}
    \cup {Emitted(GainedFloor, u) : u \in {Floor, Syscaller, Floor \o <<L("define", "main"), L("call", "close")>>}}

MCFloorEdges == {<<"drop.N", "close">>, <<"drop.N", "alloc">>}
MCSyscallEdge == <<"main", "sys">>

\* One that the lists class, one that has renamed a symbol, and one with a new symbol.
MCRuntimes ==
  {[defined |-> {"sys", "close", "alloc", "main"}, exported |-> {"sys", "close", "alloc"}],
   [defined |-> {"new", "close", "alloc"}, exported |-> {"new", "close", "alloc"}],
   [defined |-> {"sys", "close", "alloc", "new"}, exported |-> {"sys", "close", "alloc", "new"}]}
=============================================================================
