---------------------------- MODULE Observations ----------------------------
(***************************************************************************)
(* What a test file EXPECTS, what the toolchain SHOWS about it, and the    *)
(* verdict the harness owes the two: the vocabulary the state machines of  *)
(* harness/build.py, harness/stages.py and harness/run.py share.           *)
(*                                                                         *)
(* An observation is a record of the outcomes of subprocesses, NotSeen     *)
(* where the subprocess was not started.  The verdict tables at the end    *)
(* are declarative: they say nothing of the order in which the harness     *)
(* asks, and so serve as the reference the state machines are held to.     *)
(***************************************************************************)
EXTENDS Integers, FiniteSets

CONSTANTS
  Files,         \* the .npk files of the tree, each named by its path
  Codes,         \* diagnostic codes npkc can print
  FamilyCodes,   \* the NITPICK-LEX- and NITPICK-PARSE- codes among them
  Sites,         \* line:column positions a diagnostic can be reported at
  Symbols,       \* value names LLVM can refuse a module for
  Labels,        \* compiler defects, DEF-<n>
  Exits,         \* exit statuses of a test program (a signal is negative)
  Stresses,      \* how often a unit may ask to be run on each leg
  Caps,          \* address-space caps in MiB a unit may ask for
  NotSeen,       \* a subprocess that was not started
  Hang,          \* a subprocess killed at its timeout: Python's None
  NoArgument     \* the argument of an observation that has none

ASSUME ConstantsAssumption ==
  /\ FamilyCodes \subseteq Codes
  /\ Exits \subseteq Int /\ 0 \in Exits
  /\ Stresses \subseteq Nat \ {0}
  /\ Caps \subseteq Nat \ {0}
  /\ NotSeen \notin Exits \cup Symbols \cup {Hang, 0, 1, 2, 3}
  /\ NotSeen \notin BOOLEAN
  /\ Hang \notin Exits \cup {0, 1, 2, 3}
  /\ NoArgument \notin Symbols
  /\ {"linked", "stopped", "ok"} \cap Symbols = {}
  /\ NotSeen \notin {"linked", "stopped"} /\ NoArgument # "ok"

NoCap     == 0
LegNames  == {"-O0", "-O2"}
NpkcExits == {0, 1, 2, 3, Hang}
RunExits  == Exits \cup {Hang}

-----------------------------------------------------------------------------
(* Expectations: what expect.read leaves of a file's markers. *)

\* `pending-until: DEF-<n> undefined-value <symbol>` or `... accepted`.
Marker ==
  [label : Labels, observation : {"undefined-value"}, argument : Symbols]
    \cup [label : Labels, observation : {"accepted"}, argument : {NoArgument}]

NoMarker == [label |-> NotSeen, observation |-> "none", argument |-> NoArgument]

\* An expected error admits a set of sites: all of them without `expect-error-at:`, those of
\* a line when it gives no column, one when it does.
Expectation ==
  [readable : BOOLEAN,
   exit     : Exits,
   errors   : SUBSET [code : Codes, at : SUBSET Sites],
   stress   : Stresses,
   cap      : Caps \cup {NoCap},
   pending  : Marker \cup {NoMarker}]

-----------------------------------------------------------------------------
(* Observations. *)

\* How one leg of a build ended: "linked", refused by LLVM naming a symbol (the symbol
\* itself), or "stopped" for any other reason.
LegOutcomes == {NotSeen, "linked", "stopped"} \cup Symbols

\* A program unit: npkc's exit, whether the emission's target rows are the manifest's, whether
\* its IR has a call edge the scan denies, the legs, and its runs: how many each leg had, and
\* whether one of them ended in anything but the expected exit.
ProgramObservation ==
  [npkc  : NpkcExits \cup {NotSeen},
   rows  : BOOLEAN \cup {NotSeen},
   edge  : BOOLEAN \cup {NotSeen},
   leg   : [LegNames -> LegOutcomes],
   runs  : [LegNames -> Nat],
   wrong : BOOLEAN]

Unobserved ==
  [npkc |-> NotSeen, rows |-> NotSeen, edge |-> NotSeen,
   leg |-> [l \in LegNames |-> NotSeen], runs |-> [l \in LegNames |-> 0], wrong |-> FALSE]

Diagnostic == Codes \X Sites

\* npkc over one root: its exit, the diagnostics read from what it printed, and whether it
\* printed anything at all.
Compilation ==
  {c \in [npkc : NpkcExits, diagnostics : SUBSET Diagnostic, text : BOOLEAN] :
     c.diagnostics # {} => c.text}

CodesOf(diagnostics) == {d[1] : d \in diagnostics}

-----------------------------------------------------------------------------
(* The verdict a unit is owed. *)

\* B-7: the set of codes reported is the set expected, and each expected site is reported.
CodesMet(e, diagnostics) ==
  /\ CodesOf(diagnostics) = {x.code : x \in e.errors}
  /\ \A x \in e.errors : \E d \in diagnostics : d[1] = x.code /\ d[2] \in x.at

\* A program meets its expectation: accepted by npkc, its rows the pinned target's, no denied
\* call, both legs linked, the floor program fine under the same cap, and every one of its
\* `stress` runs on each leg ending in the expected exit.
ProgramMet(e, o, floor) ==
  /\ o.npkc = 0 /\ o.rows = TRUE /\ o.edge = FALSE
  /\ e.cap # NoCap => floor = 0
  /\ \A l \in LegNames : o.leg[l] = "linked" /\ o.runs[l] = e.stress
  /\ ~o.wrong

\* The one failure a program's marker excuses: LLVM refuses every leg naming its symbol.
ProgramExcused(e, o) ==
  /\ e.pending.observation = "undefined-value"
  /\ o.npkc = 0 /\ o.rows = TRUE /\ o.edge = FALSE
  /\ \A l \in LegNames : o.leg[l] = e.pending.argument

\* floor is how the floor program ended under the unit's cap.
ProgramVerdict(e, o, floor, listed) ==
  IF e.pending = NoMarker
  THEN IF e.readable /\ e.errors = {} /\ ProgramMet(e, o, floor) THEN "PASS" ELSE "FAIL"
  ELSE IF e.readable /\ e.errors = {} /\ listed /\ ProgramExcused(e, o) THEN "PEND" ELSE "FAIL"

CheckVerdict(e, c, listed) ==
  IF e.pending = NoMarker
  THEN IF e.readable /\ e.errors # {} /\ c.npkc = 1 /\ CodesMet(e, c.diagnostics)
       THEN "PASS" ELSE "FAIL"
  ELSE IF /\ e.readable /\ e.errors # {} /\ listed /\ e.pending.observation = "accepted"
          /\ c.npkc = 0 /\ ~c.text
       THEN "PEND" ELSE "FAIL"

\* A file parses when npkc reached a verdict and reported no lexical or syntax error.
Parses(c) == c.npkc \in {0, 1} /\ CodesOf(c.diagnostics) \cap FamilyCodes = {}
=============================================================================
