------------------------------- MODULE Build -------------------------------
(***************************************************************************)
(* harness/build.py: one root compiled by npkc, its emission held to the   *)
(* manifest's target rows, and its two legs -- -O0 and the optimised one,  *)
(* each refused, stopped or linked on its own.                             *)
(*                                                                         *)
(* Each action is one subprocess (or one read of an artefact) and what the *)
(* code does with its outcome.  `npkc_exit` and `legs` are the fields of   *)
(* the Build object the callers read; `obs` is a history of what the       *)
(* subprocesses showed, kept for the properties and read by no guard.      *)
(***************************************************************************)
EXTENDS Observations

VARIABLES
  step,        \* the tool that runs next: "idle" before a build, "built" after it
  leg,         \* the leg being built
  npkc_exit,   \* Build.npkc_exit
  legs,        \* Build.legs, by name: a leg the list lacks is NotSeen
  obs          \* history: the observation of the unit at hand

buildVars == <<step, leg, npkc_exit, legs, obs>>

Steps == {"idle", "npkc", "rows", "opt", "opt rows", "llc", "undefined", "lld", "built"}

\* A Leg object: `stop` tells a leg that stopped, `undefined_value` the name LLVM refused the
\* module for, `binary` a leg that was linked.
Leg == [stop : BOOLEAN, undefined_value : Symbols \cup {NoArgument}, binary : BOOLEAN]

ASSUME BuildAssumption == NotSeen \notin Leg

NoLegs  == [l \in LegNames |-> NotSeen]
Stopped(value) == [stop |-> TRUE, undefined_value |-> value, binary |-> FALSE]
Linked  == [stop |-> FALSE, undefined_value |-> NoArgument, binary |-> TRUE]

BuildInit ==
  /\ step = "idle"
  /\ leg = "-O0"
  /\ npkc_exit = NotSeen
  /\ legs = NoLegs
  /\ obs = Unobserved

\* program() is called: a fresh Build object.
StartBuild ==
  /\ step' = "npkc"
  /\ leg' = "-O0"
  /\ npkc_exit' = NotSeen
  /\ legs' = NoLegs
  /\ obs' = Unobserved

\* The caller is done with the Build object.
BuildForgotten ==
  /\ step' = "idle"
  /\ leg' = "-O0"
  /\ npkc_exit' = NotSeen
  /\ legs' = NoLegs
  /\ obs' = Unobserved

\* Any exit but 0, a timeout included, ends the build with no leg.
Npkc(rc) ==
  /\ step = "npkc"
  /\ npkc_exit' = rc
  /\ step' = IF rc = 0 THEN "rows" ELSE "built"
  /\ obs' = [obs EXCEPT !.npkc = rc]
  /\ UNCHANGED <<leg, legs>>

\* B-1a: an emission for another target leaves one stopped leg and no optimised one.
TargetRows(same) ==
  /\ step = "rows"
  /\ step' = IF same THEN "llc" ELSE "built"
  /\ legs' = IF same THEN legs ELSE [legs EXCEPT !["-O0"] = Stopped(NoArgument)]
  /\ obs' = [obs EXCEPT !.rows = same]
  /\ UNCHANGED <<leg, npkc_exit>>

\* The leg at hand ends, stopped or not; the optimised leg is built after the -O0 one however
\* that one ended, from the same emission.
EndLeg(ended) ==
  /\ legs' = [legs EXCEPT ![leg] = ended]
  /\ leg' = "-O2"
  /\ step' = IF leg = "-O0" THEN "opt" ELSE "built"
  /\ UNCHANGED npkc_exit

\* opt or llc: "ok", or a refusal, naming an undefined value or (NoArgument) not.
Llvm(tool, next, outcome) ==
  /\ step = tool
  /\ \/ /\ outcome = "ok"
        /\ step' = next
        /\ UNCHANGED <<leg, legs, npkc_exit, obs>>
     \/ /\ outcome # "ok"
        /\ EndLeg(Stopped(outcome))
        /\ obs' = [obs EXCEPT !.leg[leg] = IF outcome = NoArgument THEN "stopped" ELSE outcome]

Opt(outcome) == Llvm("opt", "opt rows", outcome)
Llc(outcome) == Llvm("llc", "undefined", outcome)

\* A check of an artefact, or the linker: the leg goes on or stops, never naming a value.
Gate(tool, next, ok) ==
  /\ step = tool
  /\ \/ /\ ok
        /\ step' = next
        /\ UNCHANGED <<leg, legs, npkc_exit, obs>>
     \/ /\ ~ok
        /\ EndLeg(Stopped(NoArgument))
        /\ obs' = [obs EXCEPT !.leg[leg] = "stopped"]

OptimisedRows(same)   == Gate("opt rows", "llc", same)
UndefinedSymbols(ok)  == Gate("undefined", "lld", ok)

Lld(ok) ==
  /\ step = "lld"
  /\ EndLeg(IF ok THEN Linked ELSE Stopped(NoArgument))
  /\ obs' = [obs EXCEPT !.leg[leg] = IF ok THEN "linked" ELSE "stopped"]

LlvmOutcomes == {"ok", NoArgument} \cup Symbols

BuildStep ==
  \/ \E rc \in NpkcExits : Npkc(rc)
  \/ \E same \in BOOLEAN : TargetRows(same)
  \/ \E outcome \in LlvmOutcomes : Opt(outcome)
  \/ \E same \in BOOLEAN : OptimisedRows(same)
  \/ \E outcome \in LlvmOutcomes : Llc(outcome)
  \/ \E ok \in BOOLEAN : UndefinedSymbols(ok)
  \/ \E ok \in BOOLEAN : Lld(ok)

\* The build is over and its caller has not taken it yet.
Built == step = "built"

BuildTypeOK ==
  /\ step \in Steps
  /\ leg \in LegNames
  /\ npkc_exit \in NpkcExits \cup {NotSeen}
  /\ legs \in [LegNames -> Leg \cup {NotSeen}]
  /\ obs \in ProgramObservation
=============================================================================
