SPECIFICATION Spec
CONSTANTS
  Symbols <- MCSymbols
  Generated <- MCGenerated
  Intrinsics = {"llvm.trap"}
  DENIED = {"sys", "close"}
  FLOOR = {"alloc"}
  FLOOR_EDGES <- MCFloorEdges
  SyscallEdge <- MCSyscallEdge
  Runtimes <- MCRuntimes
  Emissions <- MCEmissions
  Nobody = Nobody
INVARIANTS
  FindsWhatIsThere
  SilentIsClean
CHECK_DEADLOCK FALSE
