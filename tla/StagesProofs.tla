---------------------------- MODULE StagesProofs ----------------------------
(***************************************************************************)
(* What is proved of Stages.tla for every manifest, every expectation,     *)
(* every reviewed list and every toolchain: the type invariant; from one   *)
(* inductive invariant the verdicts of program units, the stale marker's   *)
(* meaning and the floor program's control; and that the suites implement  *)
(* Judgement, which Harness.tla is built on.                               *)
(***************************************************************************)
EXTENDS Stages, TLAPS, SequenceTheorems

-----------------------------------------------------------------------------
(* The inductive invariant: how the Build object and the history agree, at *)
(* each step of a build and at each place a unit waits for its verdict.    *)

\* A leg of the Build object is what the subprocesses of that leg showed.
LegShown(l) ==
  \/ legs[l] = NotSeen /\ obs.leg[l] = NotSeen
  \/ legs[l] = Linked /\ obs.leg[l] = "linked"
  \/ legs[l] = Stopped(NoArgument) /\ obs.leg[l] = "stopped"
  \/ \E s \in Symbols : legs[l] = Stopped(s) /\ obs.leg[l] = s

Unlegged == \A l \in LegNames : legs[l] = NotSeen /\ obs.leg[l] = NotSeen

\* An emission for another target: one stopped leg, of which no subprocess was started.
Misdirected ==
  /\ npkc_exit = 0 /\ obs.rows = FALSE
  /\ legs["-O0"] = Stopped(NoArgument) /\ legs["-O2"] = NotSeen
  /\ \A l \in LegNames : obs.leg[l] = NotSeen

TwoLegs ==
  /\ npkc_exit = 0 /\ obs.rows = TRUE
  /\ \A l \in LegNames : LegShown(l) /\ legs[l] # NotSeen

BuiltShape ==
  \/ npkc_exit \in NpkcExits \ {0} /\ Unlegged
  \/ Misdirected
  \/ TwoLegs

BuildInv ==
  /\ step # "idle"
  /\ step = "npkc" => Unlegged /\ leg = "-O0"
  /\ step = "rows" => npkc_exit = 0 /\ Unlegged /\ leg = "-O0"
  /\ step \in {"opt", "opt rows"} => leg = "-O2"
  /\ step \in {"opt", "opt rows", "llc", "undefined", "lld"} =>
       /\ npkc_exit = 0 /\ obs.rows = TRUE
       /\ \A l \in LegNames : LegShown(l)
       /\ legs["-O2"] = NotSeen
       /\ legs["-O0"] = NotSeen <=> leg = "-O0"
  /\ Built => BuiltShape

BothLinked ==
  /\ npkc_exit = 0 /\ obs.rows = TRUE /\ obs.edge = FALSE
  /\ \A l \in LegNames : legs[l] = Linked /\ obs.leg[l] = "linked"

NotRun == exits = NoRuns /\ obs.runs = [l \in LegNames |-> 0] /\ obs.wrong = FALSE

\* The history of the runs is the exits the code kept.
RunsKept(e) ==
  /\ \A l \in LegNames : Len(exits[l]) = obs.runs[l]
  /\ obs.wrong <=> ~AllExpected(e)

FloorPassed(e) == e.cap # NoCap => floor_under[e.cap] = 0

Waiting(e) ==
  \/ why = "npkc" /\ ~found /\ npkc_exit \in NpkcExits \ {0} /\ Unlegged
  \/ why = "found" /\ found /\ obs.edge = TRUE /\ (Misdirected \/ TwoLegs)
  \/ why = "stopped" /\ ~found /\ obs.edge = FALSE /\ SomeLegStopped /\ (Misdirected \/ TwoLegs)
  \/ why = "floor" /\ ~found /\ BothLinked /\ ~FloorPassed(e)
  \/ /\ why = "none" /\ ~found /\ BothLinked /\ FloorPassed(e) /\ RunsKept(e)
     /\ \A l \in LegNames : obs.runs[l] = e.stress

\* The entry and the unit at hand, wherever there is one.
Located ==
  /\ pc \in {"unit", "sweep", "said", "build", "floor", "runs", "judge"} => t \in DOMAIN Tests
  /\ pc = "unit" => Tests[t].stage # "parse"
  /\ pc = "sweep" => Tests[t].stage = "parse"
  /\ pc \in {"build", "floor", "runs", "judge"} =>
       /\ Tests[t].stage = "program" /\ file \in Files
       /\ Expect[file].readable /\ Expect[file].errors = {}
  /\ pc = "floor" => Expect[file].cap # NoCap

TypeInv == TypeOK /\ Located

ProgramInv ==
  /\ obs.npkc = npkc_exit
  /\ pc \in {"entry", "unit", "sweep"} => NotRun
  /\ pc = "build" => BuildInv /\ NotRun /\ why = "none" /\ ~found
  /\ pc = "floor" => BothLinked /\ NotRun /\ why = "none" /\ ~found
  /\ pc = "runs" =>
       /\ BothLinked /\ why = "none" /\ ~found
       /\ FloorPassed(Expect[file]) /\ RunsKept(Expect[file])
       /\ obs.runs["-O0"] <= Expect[file].stress /\ obs.runs["-O2"] < Expect[file].stress
       /\ obs.runs["-O0"] < Expect[file].stress => obs.runs["-O2"] = 0
  /\ pc = "judge" => Waiting(Expect[file]) /\ (why # "none" => NotRun)

StaleProgram ==
  pc = "said" /\ Tests[t].stage = "program" /\ Expect[file].pending # NoMarker =>
    (Said.detail = "stale" <=>
       /\ Listed(file) /\ Expect[file].readable /\ Expect[file].errors = {}
       /\ ProgramMet(Expect[file], obs, FloorUnder(Expect[file])))

IInv == TypeInv /\ ProgramInv /\ ProgramOwed /\ StaleProgram /\ FloorFirst

-----------------------------------------------------------------------------
(* Type correctness. *)

\* A leg that ends is kept in its type, whatever stopped it or linked it.
LEMMA EndLegType ==
  ASSUME BuildTypeOK, NEW ended \in Leg, NEW o \in LegOutcomes,
         EndLeg(ended), obs' = [obs EXCEPT !.leg[leg] = o]
  PROVE  BuildTypeOK'
BY DEF BuildTypeOK, EndLeg, Steps, LegNames, ProgramObservation

\* The type of what a build step may change.
LEMMA BuildStepType ==
  ASSUME BuildTypeOK, BuildStep  PROVE BuildTypeOK'
<1>1. ASSUME NEW rc \in NpkcExits, Npkc(rc)  PROVE BuildTypeOK'
  BY <1>1 DEF Npkc, BuildTypeOK, Steps, LegNames, ProgramObservation
<1>2. ASSUME NEW same \in BOOLEAN, TargetRows(same)  PROVE BuildTypeOK'
  BY <1>2 DEF TargetRows, BuildTypeOK, Steps, LegNames, ProgramObservation, Stopped, Leg
<1>3. ASSUME NEW tool \in Steps, NEW next \in Steps, NEW outcome \in LlvmOutcomes,
             Llvm(tool, next, outcome)
      PROVE  BuildTypeOK'
  <2>1. CASE outcome = "ok"
    BY <1>3, <2>1 DEF Llvm, BuildTypeOK
  <2>2. CASE outcome # "ok"
    <3>1. Stopped(outcome) \in Leg
      BY <2>2 DEF Stopped, Leg, LlvmOutcomes
    <3>2. (IF outcome = NoArgument THEN "stopped" ELSE outcome) \in LegOutcomes
      BY <2>2 DEF LlvmOutcomes, LegOutcomes
    <3>3. QED BY <1>3, <2>2, <3>1, <3>2, EndLegType DEF Llvm
  <2>3. QED BY <2>1, <2>2
<1>4. ASSUME NEW tool \in Steps, NEW next \in Steps, NEW ok \in BOOLEAN, Gate(tool, next, ok)
      PROVE  BuildTypeOK'
  <2>1. CASE ok
    BY <1>4, <2>1 DEF Gate, BuildTypeOK
  <2>2. CASE ~ok
    <3>1. Stopped(NoArgument) \in Leg /\ "stopped" \in LegOutcomes
      BY DEF Stopped, Leg, LegOutcomes
    <3>2. QED BY <1>4, <2>2, <3>1, EndLegType DEF Gate
  <2>3. QED BY <2>1, <2>2
<1>5. ASSUME NEW ok \in BOOLEAN, Lld(ok)  PROVE BuildTypeOK'
  <2>1. /\ (IF ok THEN Linked ELSE Stopped(NoArgument)) \in Leg
        /\ (IF ok THEN "linked" ELSE "stopped") \in LegOutcomes
    BY DEF Linked, Stopped, Leg, LegOutcomes
  <2>2. QED BY <1>5, <2>1, EndLegType DEF Lld
<1>6. {"opt", "opt rows", "llc", "undefined", "lld"} \subseteq Steps
  BY DEF Steps
<1>7. QED
  BY <1>1, <1>2, <1>3, <1>4, <1>5, <1>6
  DEF BuildStep, Opt, Llc, OptimisedRows, UndefinedSymbols

\* An entry's units are files, and so is what is left of them.
LEMMA TestsType ==
  /\ \A i \in DOMAIN Tests : /\ Tests[i].units \in Seq(Files)
                            /\ Tests[i].stage \in {"program", "check", "parse"}
  /\ DOMAIN Tests = 1..Len(Tests) /\ Len(Tests) \in Nat
<1> DEFINE Entries == [stage : {"program", "check", "parse"}, units : Seq(Files)]
<1>1. Tests \in Seq(Entries)
  BY StagesAssumption
<1>2. \A x \in Entries : x.units \in Seq(Files) /\ x.stage \in {"program", "check", "parse"}
  OBVIOUS
<1>3. /\ \A i \in DOMAIN Tests : Tests[i] \in Entries
      /\ DOMAIN Tests = 1..Len(Tests) /\ Len(Tests) \in Nat
  <2> HIDE DEF Entries
  <2>1. QED BY <1>1
<1>4. QED BY <1>2, <1>3

\* Sequences of one set stay so.
LEMMA SeqStays ==
  ASSUME NEW S, NEW s \in Seq(S)
  PROVE  /\ \A x \in S : Append(s, x) \in Seq(S)
         /\ s # <<>> => Head(s) \in S /\ Tail(s) \in Seq(S)
OBVIOUS

\* A verdict of the vocabulary extends the verdicts in their type.
LEMMA SayType ==
  ASSUME TypeOK, t \in DOMAIN Tests,
         NEW v \in {"PASS", "FAIL", "PEND"}, NEW f \in Files \cup {NotSeen},
         NEW d \in {"", "unlisted", "found", "stale", "different"}, Say(v, f, d)
  PROVE  verdicts' \in Seq(Verdict) /\ pc' = "said"
<1>1. [verdict |-> v, test |-> t, unit |-> f, detail |-> d] \in Verdict
  BY DEF Verdict
<1>2. verdicts \in Seq(Verdict)
  BY DEF TypeOK
<1>3. QED BY <1>1, <1>2, SeqStays DEF Say

\* What an expectation read from a file is.
LEMMA ExpectType ==
  ASSUME NEW f \in Files
  PROVE  /\ Expect[f] \in Expectation
         /\ Expect[f].readable \in BOOLEAN /\ Expect[f].exit \in Exits
         /\ Expect[f].stress \in Nat \ {0} /\ Expect[f].cap \in Caps \cup {NoCap}
<1>1. Expect[f] \in Expectation
  BY StagesAssumption
<1>2. QED BY <1>1, ConstantsAssumption DEF Expectation

\* A unit taken is a file of the entry at hand.
LEMMA TakenType ==
  ASSUME TypeInv, NEW stage \in {"program", "check"}, Taken(stage)
  PROVE  /\ Head(todo) \in Files /\ file' \in Files /\ file' = Head(todo)
         /\ todo' \in Seq(Files) /\ t \in DOMAIN Tests /\ Tests[t].stage = stage
<1>1. todo \in Seq(Files) /\ todo # <<>> /\ t \in DOMAIN Tests
  BY DEF TypeInv, TypeOK, Located, Taken
<1>2. QED BY <1>1, SeqStays DEF Taken

\* The suites' first state is well typed.
LEMMA InitType == StagesInit => TypeOK
<1> SUFFICES ASSUME StagesInit PROVE TypeOK
  OBVIOUS
<1>1. BuildTypeOK
  BY DEF StagesInit, BuildInit, BuildTypeOK, Steps, LegNames, NoLegs, Unobserved,
         ProgramObservation, LegOutcomes
<1>2. t \in 1..(Len(Tests) + 1)
  BY TestsType DEF StagesInit
<1>3. /\ exits \in [LegNames -> Seq(RunExits)] /\ verdicts \in Seq(Verdict)
      /\ todo \in Seq(Files) /\ floor_under \in [Caps -> RunExits \cup {NotSeen}]
  BY DEF StagesInit, NoRuns
<1>4. QED
  BY <1>1, <1>2, <1>3 DEF StagesInit, TypeOK

\* The entries: opened, crashed, swept, left.
LEMMA EntryType ==
  ASSUME TypeInv,
         OpenSuite \/ MissingDirectory \/ OpenSweep \/ LeaveOut \/ EndSuite \/ EndStages
  PROVE  TypeInv'
<1> USE TestsType DEF TypeInv
<1>1. BuildTypeOK'
  BY DEF TypeOK, BuildTypeOK, OpenSuite, MissingDirectory, OpenSweep, LeaveOut, EndSuite,
         EndStages, buildVars
<1>2. CASE OpenSuite
  BY <1>1, <1>2 DEF TypeOK, Located, OpenSuite, buildVars
<1>3. CASE MissingDirectory
  BY <1>1, <1>3 DEF TypeOK, Located, MissingDirectory, buildVars
<1>4. CASE OpenSweep
  BY <1>1, <1>4 DEF TypeOK, Located, OpenSweep, buildVars
<1>5. CASE LeaveOut
  BY <1>1, <1>5, SeqStays DEF TypeOK, Located, LeaveOut, buildVars
<1>6. CASE EndSuite
  BY <1>1, <1>6 DEF TypeOK, Located, EndSuite, buildVars
<1>7. CASE EndStages
  BY <1>1, <1>7 DEF TypeOK, Located, EndStages, buildVars
<1>8. QED BY <1>2, <1>3, <1>4, <1>5, <1>6, <1>7

\* A build is begun, goes on, and is over.
LEMMA BuildType ==
  ASSUME TypeInv,
         NextUnit \/ BuildProgram \/ BuildOn \/ NotBuilt \/ \E edge \in BOOLEAN : Scan(edge)
  PROVE  TypeInv'
<1> USE TestsType DEF TypeInv
<1>0. Unobserved \in ProgramObservation /\ NoLegs \in [LegNames -> Leg \cup {NotSeen}]
      /\ NoRuns \in [LegNames -> Seq(RunExits)]
  BY DEF Unobserved, ProgramObservation, LegNames, LegOutcomes, NoLegs, NoRuns
<1>1. CASE NextUnit
  <2>1. BuildTypeOK'
    BY <1>0, <1>1 DEF NextUnit, BuildForgotten, BuildTypeOK, Steps, LegNames
  <2>2. t \in DOMAIN Tests
    BY <1>1 DEF Located, NextUnit
  <2>3. /\ pc' \in {"entry", "unit"} /\ t' \in 1..(Len(Tests) + 1)
        /\ pc' = "unit" => t' = t /\ Tests[t].stage # "parse"
    BY <1>1, <2>2 DEF NextUnit
  <2>4. Located'
    BY <2>2, <2>3 DEF Located
  <2>5. TypeOK'
    <3>1. bad' = {} /\ shown' = {} /\ exits' = NoRuns
      BY <1>1 DEF NextUnit
    <3>2. QED BY <1>0, <1>1, <2>1, <2>3, <3>1 DEF TypeOK, NextUnit
  <2>6. QED BY <2>4, <2>5
<1>2. CASE BuildProgram
  <2>1. BuildTypeOK'
    BY <1>0, <1>2 DEF BuildProgram, StartBuild, BuildTypeOK, Steps, LegNames
  <2>2. /\ file' \in Files /\ file' = Head(todo) /\ todo' \in Seq(Files)
        /\ t \in DOMAIN Tests /\ Tests[t].stage = "program"
    BY <1>2, TakenType DEF BuildProgram
  <2>3. QED BY <1>0, <1>2, <2>1, <2>2 DEF TypeOK, Located, BuildProgram
<1>3. CASE BuildOn
  BY <1>3, BuildStepType DEF TypeOK, Located, BuildOn, stageVars
<1>4. CASE NotBuilt
  <2>1. BuildTypeOK'
    BY <1>4 DEF TypeOK, NotBuilt, BuildTypeOK, Steps
  <2>2. QED BY <1>4, <2>1 DEF TypeOK, Located, NotBuilt
<1>5. ASSUME NEW edge \in BOOLEAN, Scan(edge)
      PROVE  TypeInv'
  <2>1. BuildTypeOK'
    BY <1>5 DEF TypeOK, Scan, BuildTypeOK, Steps, ProgramObservation
  <2>2. /\ found' \in BOOLEAN /\ why' \in {"none", "npkc", "found", "stopped", "floor"}
        /\ pc' \in {"judge", "runs", "floor"}
        /\ pc' = "floor" => Expect[file].cap # NoCap
    BY <1>5 DEF Scan
  <2>3. QED BY <1>5, <2>1, <2>2 DEF TypeOK, Located, Scan
<1>6. QED BY <1>1, <1>2, <1>3, <1>4, <1>5

\* The floor program and the runs.
LEMMA RunType ==
  ASSUME TypeInv, NEW x \in RunExits, FloorOk(x) \/ Run(x)
  PROVE  TypeInv'
<1> USE DEF TypeInv
<1>1. CASE FloorOk(x)
  <2>1. Expect[file].cap \in Caps
    BY <1>1, ExpectType DEF FloorOk, Located
  <2>2. floor_under' \in [Caps -> RunExits \cup {NotSeen}]
    BY <1>1, <2>1 DEF FloorOk, TypeOK
  <2>3. /\ pc' \in {"judge", "runs"}
        /\ why' \in {"none", "npkc", "found", "stopped", "floor"}
    BY <1>1 DEF FloorOk, TypeOK
  <2>4. BuildTypeOK'
    BY <1>1 DEF FloorOk, TypeOK, BuildTypeOK, buildVars
  <2>5. QED BY <1>1, <2>2, <2>3, <2>4 DEF TypeOK, Located, FloorOk
<1>2. CASE Run(x)
  <2>1. PICK l \in LegNames : /\ exits' = [exits EXCEPT ![l] = Append(@, x)]
                               /\ obs' = [obs EXCEPT !.runs[l] = @ + 1,
                                                     !.wrong = @ \/ x # Expect[file].exit]
    BY <1>2 DEF Run, LegNames
  <2>2. exits' \in [LegNames -> Seq(RunExits)]
    <3>1. Append(exits[l], x) \in Seq(RunExits)
      BY SeqStays DEF TypeOK
    <3>2. QED BY <2>1, <3>1 DEF TypeOK
  <2>3. obs' \in ProgramObservation
    <3>1. obs.runs[l] + 1 \in Nat /\ obs \in ProgramObservation
      BY DEF TypeOK, BuildTypeOK, ProgramObservation
    <3>2. (obs.wrong \/ x # Expect[file].exit) \in BOOLEAN
      BY DEF TypeOK, BuildTypeOK, ProgramObservation
    <3>3. QED BY <2>1, <3>1, <3>2 DEF ProgramObservation
  <2>4. pc' \in {"judge", "runs"}
    BY <1>2 DEF Run
  <2>5. BuildTypeOK'
    BY <1>2, <2>3 DEF Run, TypeOK, BuildTypeOK
  <2>6. QED BY <1>2, <2>2, <2>4, <2>5 DEF TypeOK, Located, Run
<1>3. QED BY <1>1, <1>2

\* A verdict on a unit of a build.
LEMMA JudgeType ==
  ASSUME TypeInv, Judge \/ JudgeUnlisted \/ JudgePending
  PROVE  TypeInv'
<1> USE DEF TypeInv
<1>1. t \in DOMAIN Tests /\ file \in Files
  BY DEF Judge, JudgeUnlisted, JudgePending, Located
<1>2. PICK v \in {"PASS", "FAIL", "PEND"}, d \in {"", "unlisted", "found", "stale", "different"} :
        Say(v, file, d)
  BY DEF Judge, JudgeUnlisted, JudgePending
<1>3. verdicts' \in Seq(Verdict) /\ pc' = "said"
  BY <1>1, <1>2, SayType
<1>4. pending_seen' \subseteq PendingList
  <2>1. pending_seen \subseteq PendingList
    BY DEF TypeOK
  <2>2. QED BY <2>1 DEF Judge, JudgeUnlisted, JudgePending, See
<1>5. /\ UNCHANGED <<buildVars, only, t, todo, file, found, why, exits, bad, floor_under, shown>>
  BY DEF Judge, JudgeUnlisted, JudgePending
<1>6. BuildTypeOK'
  BY <1>5 DEF TypeOK, BuildTypeOK, buildVars
<1>7. QED BY <1>1, <1>3, <1>4, <1>5, <1>6 DEF TypeOK, Located

\* A verdict on a unit that is not built, and the sweep's.
LEMMA CheckType ==
  ASSUME TypeInv,
         \/ RefuseProgram \/ RefuseCheck \/ JudgeSweep
         \/ \E c \in Outputs : JudgeCheck(c) \/ JudgeCheckPending(c) \/ SweepFile(c)
  PROVE  TypeInv'
<1> USE DEF TypeInv
<1>0. BuildTypeOK'
  BY DEF TypeOK, BuildTypeOK, RefuseProgram, RefuseCheck, JudgeSweep, JudgeCheck,
         JudgeCheckPending, SweepFile, buildVars
<1>1. CASE RefuseProgram \/ RefuseCheck
  <2>1. /\ Head(todo) \in Files /\ file' \in Files /\ todo' \in Seq(Files)
        /\ t \in DOMAIN Tests
    BY <1>1, TakenType DEF RefuseProgram, RefuseCheck
  <2>2. verdicts' \in Seq(Verdict) /\ pc' = "said"
    BY <1>1, <2>1, SayType DEF RefuseProgram, RefuseCheck
  <2>3. QED BY <1>0, <1>1, <2>1, <2>2 DEF TypeOK, Located, RefuseProgram, RefuseCheck
<1>2. CASE JudgeSweep
  <2>1. t \in DOMAIN Tests
    BY <1>2 DEF JudgeSweep, Located
  <2>2. verdicts' \in Seq(Verdict) /\ pc' = "said"
    BY <1>2, <2>1, SayType DEF JudgeSweep
  <2>3. QED BY <1>0, <1>2, <2>1, <2>2 DEF TypeOK, Located, JudgeSweep
<1>3. ASSUME NEW c \in Outputs, JudgeCheck(c)
      PROVE  TypeInv'
  <2>1. /\ Head(todo) \in Files /\ file' \in Files /\ todo' \in Seq(Files)
        /\ t \in DOMAIN Tests
    BY <1>3, TakenType DEF JudgeCheck
  <2>2. verdicts' \in Seq(Verdict) /\ pc' = "said"
    BY <1>3, <2>1, SayType DEF JudgeCheck
  <2>3. shown' \subseteq Files \X Outputs
    <3>1. shown' = {<<Head(todo), c>>}
      BY <1>3 DEF JudgeCheck
    <3>2. QED BY <2>1, <3>1
  <2>4. QED BY <1>0, <1>3, <2>1, <2>2, <2>3 DEF TypeOK, Located, JudgeCheck
<1>4. ASSUME NEW c \in Outputs, JudgeCheckPending(c)
      PROVE  TypeInv'
  <2>1. /\ Head(todo) \in Files /\ file' \in Files /\ todo' \in Seq(Files)
        /\ t \in DOMAIN Tests
    BY <1>4, TakenType DEF JudgeCheckPending
  <2>2. shown' \subseteq Files \X Outputs
    <3>1. shown' = {<<Head(todo), c>>}
      BY <1>4 DEF JudgeCheckPending
    <3>2. QED BY <2>1, <3>1
  <2>3. pending_seen' \subseteq PendingList
    BY <1>4 DEF JudgeCheckPending, See, TypeOK
  <2>4. PICK v \in {"FAIL", "PEND"}, d \in {"", "unlisted", "stale", "different"} :
          Say(v, Head(todo), d)
    BY <1>4 DEF JudgeCheckPending
  <2>5. verdicts' \in Seq(Verdict) /\ pc' = "said"
    BY <2>1, <2>4, SayType
  <2>6. QED BY <1>0, <1>4, <2>1, <2>2, <2>3, <2>5 DEF TypeOK, Located, JudgeCheckPending
<1>5. ASSUME NEW c \in Outputs, SweepFile(c)
      PROVE  TypeInv'
  <2>1. Head(todo) \in Files /\ todo' \in Seq(Files)
    BY <1>5, SeqStays DEF SweepFile, TypeOK
  <2>2. bad' \subseteq Files /\ shown' \subseteq Files \X Outputs
    BY <1>5, <2>1 DEF SweepFile, TypeOK
  <2>3. QED BY <1>0, <1>5, <2>1, <2>2 DEF TypeOK, Located, SweepFile
<1>6. QED BY <1>1, <1>2, <1>3, <1>4, <1>5

\* Every step of the suites keeps the types, and where the unit at hand is.
LEMMA TypeStep == TypeInv /\ [StagesNext]_vars => TypeInv'
<1> SUFFICES ASSUME TypeInv, [StagesNext]_vars PROVE TypeInv'
  OBVIOUS
<1>1. CASE StagesNext
  BY <1>1, EntryType, BuildType, RunType, JudgeType, CheckType DEF StagesNext
<1>2. CASE UNCHANGED vars
  BY <1>2 DEF vars, buildVars, stageVars, TypeInv, TypeOK, BuildTypeOK, Located
<1>3. QED BY <1>1, <1>2

\* The types, and what a build's step presupposes, hold in every state.
LEMMA TypeInvariant == StagesSpec => []TypeInv
<1>1. StagesInit => TypeInv
  BY InitType DEF TypeInv, Located, StagesInit
<1>2. QED BY <1>1, TypeStep, PTL DEF StagesSpec

\* TypeOK holds of the suites, whatever the manifest, the markers and the toolchain: a marker
\* matched is a line of the reviewed list, and a verdict is about a unit of its entry.
THEOREM TypeCorrect == StagesSpec => []TypeOK
BY TypeInvariant, PTL DEF TypeInv

-----------------------------------------------------------------------------
(* The history and the Build object agree. *)

\* A leg that ends with what its subprocess showed is shown.
LEMMA EndLegShown ==
  ASSUME BuildTypeOK, BuildInv, step \in {"opt", "opt rows", "llc", "undefined", "lld"},
         NEW ended \in Leg, NEW o \in LegOutcomes,
         EndLeg(ended), obs' = [obs EXCEPT !.leg[leg] = o],
         \/ ended = Linked /\ o = "linked"
         \/ ended = Stopped(NoArgument) /\ o = "stopped"
         \/ \E s \in Symbols : ended = Stopped(s) /\ o = s
  PROVE  BuildInv'
<1>1. ended # NotSeen
  BY BuildAssumption
<1>2. /\ npkc_exit' = 0 /\ obs'.rows = TRUE
      /\ \A l \in LegNames : legs'[l] = (IF l = leg THEN ended ELSE legs[l])
      /\ \A l \in LegNames : obs'.leg[l] = (IF l = leg THEN o ELSE obs.leg[l])
  BY DEF BuildInv, EndLeg, BuildTypeOK, ProgramObservation
<1>3. \A l \in LegNames : LegShown(l)'
  BY <1>2 DEF BuildInv, LegShown
<1>4. CASE leg = "-O0"
  <2>1. step' = "opt" /\ leg' = "-O2"
    BY <1>4 DEF EndLeg
  <2>2. legs'["-O0"] # NotSeen /\ legs'["-O2"] = NotSeen
    BY <1>1, <1>2, <1>4 DEF BuildInv, LegNames
  <2>3. QED BY <1>2, <1>3, <2>1, <2>2 DEF BuildInv, Built
<1>5. CASE leg = "-O2"
  <2>1. step' = "built"
    BY <1>5 DEF EndLeg
  <2>2. \A l \in LegNames : legs'[l] # NotSeen
    BY <1>1, <1>2, <1>5 DEF BuildInv, LegNames
  <2>3. QED BY <1>2, <1>3, <2>1, <2>2 DEF BuildInv, Built, BuiltShape, TwoLegs
<1>6. QED BY <1>4, <1>5 DEF BuildTypeOK, LegNames

\* Each step of a build keeps its invariant, and runs nothing.
LEMMA BuildInvStep ==
  ASSUME BuildTypeOK, BuildInv, NotRun, obs.npkc = npkc_exit, BuildStep, UNCHANGED exits
  PROVE  BuildInv' /\ NotRun' /\ obs'.npkc = npkc_exit'
<1> DEFINE Kept == /\ obs'.npkc = npkc_exit' /\ obs'.runs = obs.runs /\ obs'.wrong = obs.wrong
<1>0. Kept => NotRun'
  BY DEF NotRun
<1>1. ASSUME NEW rc \in NpkcExits, Npkc(rc)  PROVE BuildInv' /\ Kept
  <2>1. Kept /\ Unlegged'
    BY <1>1 DEF Npkc, BuildInv, Unlegged, BuildTypeOK, ProgramObservation
  <2>2. leg' = "-O0" /\ npkc_exit' = rc /\ step' = (IF rc = 0 THEN "rows" ELSE "built")
    BY <1>1 DEF Npkc, BuildInv
  <2>3. QED BY <2>1, <2>2 DEF BuildInv, Built, BuiltShape
<1>2. ASSUME NEW same \in BOOLEAN, TargetRows(same)  PROVE BuildInv' /\ Kept
  <2>0. npkc_exit = 0 /\ Unlegged /\ leg = "-O0"
    BY <1>2 DEF TargetRows, BuildInv
  <2>1. Kept /\ npkc_exit' = 0 /\ leg' = "-O0" /\ obs'.rows = same /\ obs'.leg = obs.leg
    BY <1>2, <2>0 DEF TargetRows, BuildTypeOK, ProgramObservation
  <2>2. CASE same
    <3>1. step' = "llc" /\ legs' = legs /\ obs'.rows = TRUE
      BY <1>2, <2>1, <2>2 DEF TargetRows
    <3>2. Unlegged' /\ \A l \in LegNames : LegShown(l)'
      BY <2>0, <2>1, <3>1 DEF Unlegged, LegShown
    <3>3. legs'["-O2"] = NotSeen /\ legs'["-O0"] = NotSeen
      BY <3>2 DEF Unlegged, LegNames
    <3>4. QED BY <2>1, <3>1, <3>2, <3>3 DEF BuildInv, Built
  <2>3. CASE ~same
    <3>1. step' = "built" /\ legs' = [legs EXCEPT !["-O0"] = Stopped(NoArgument)]
      BY <1>2, <2>3 DEF TargetRows
    <3>2. Misdirected'
      BY <2>0, <2>1, <2>3, <3>1 DEF Misdirected, Unlegged, BuildTypeOK, LegNames
    <3>3. QED BY <2>1, <3>1, <3>2 DEF BuildInv, Built, BuiltShape
  <2>4. QED BY <2>2, <2>3
<1>3. ASSUME NEW tool \in {"opt", "opt rows", "llc", "undefined", "lld"},
             NEW next \in {"opt rows", "llc", "undefined", "lld"},
             step = tool, step' = next, next = "opt rows" => leg = "-O2",
             UNCHANGED <<leg, legs, npkc_exit, obs>>
      PROVE  BuildInv' /\ Kept
  BY <1>3 DEF BuildInv, Built, LegShown
<1>4. ASSUME NEW ended \in Leg, NEW o \in LegOutcomes,
             step \in {"opt", "opt rows", "llc", "undefined", "lld"},
             EndLeg(ended), obs' = [obs EXCEPT !.leg[leg] = o],
             \/ ended = Linked /\ o = "linked"
             \/ ended = Stopped(NoArgument) /\ o = "stopped"
             \/ \E s \in Symbols : ended = Stopped(s) /\ o = s
      PROVE  BuildInv' /\ Kept
  <2>1. BuildInv'
    BY <1>4, EndLegShown
  <2>2. QED BY <1>4, <2>1 DEF EndLeg, BuildTypeOK, ProgramObservation
<1>5. /\ Linked \in Leg /\ \A v \in Symbols \cup {NoArgument} : Stopped(v) \in Leg
      /\ {"linked", "stopped"} \cup Symbols \subseteq LegOutcomes
  BY DEF Linked, Stopped, Leg, LegOutcomes
<1>6. ASSUME NEW tool \in {"opt", "llc"}, NEW next \in {"opt rows", "undefined"},
             next = "opt rows" <=> tool = "opt",
             NEW outcome \in LlvmOutcomes, Llvm(tool, next, outcome)
      PROVE  BuildInv' /\ Kept
  <2>1. CASE outcome = "ok"
    BY <1>3, <1>6, <2>1 DEF Llvm, BuildInv
  <2>2. CASE outcome = NoArgument
    BY <1>4, <1>5, <1>6, <2>2, ConstantsAssumption DEF Llvm
  <2>3. CASE outcome \in Symbols
    <3>1. outcome # "ok" /\ outcome # NoArgument
      BY <2>3, ConstantsAssumption
    <3>2. QED BY <1>4, <1>5, <1>6, <2>3, <3>1 DEF Llvm
  <2>4. QED BY <2>1, <2>2, <2>3 DEF LlvmOutcomes
<1>7. ASSUME NEW tool \in {"opt rows", "undefined"}, NEW next \in {"llc", "lld"},
             NEW ok \in BOOLEAN, Gate(tool, next, ok)
      PROVE  BuildInv' /\ Kept
  <2>1. CASE ok
    BY <1>3, <1>7, <2>1 DEF Gate
  <2>2. CASE ~ok
    BY <1>4, <1>5, <1>7, <2>2 DEF Gate
  <2>3. QED BY <2>1, <2>2
<1>8. ASSUME NEW ok \in BOOLEAN, Lld(ok)  PROVE BuildInv' /\ Kept
  <2>1. CASE ok
    BY <1>4, <1>5, <1>8, <2>1 DEF Lld
  <2>2. CASE ~ok
    BY <1>4, <1>5, <1>8, <2>2 DEF Lld
  <2>3. QED BY <2>1, <2>2
<1>9. BuildInv' /\ Kept
  BY <1>1, <1>2, <1>6, <1>7, <1>8 DEF BuildStep, Opt, Llc, OptimisedRows, UndefinedSymbols
<1>10. QED BY <1>0, <1>9

-----------------------------------------------------------------------------
(* What waits for its verdict is what the reference tables ask for. *)

\* The two ways a leg of the Build object ends.
LEMMA LegFacts ==
  /\ Linked \in Leg /\ Linked # NotSeen /\ Linked.stop = FALSE
  /\ \A v \in Symbols \cup {NoArgument} :
       /\ Stopped(v) \in Leg /\ Stopped(v) # NotSeen
       /\ Stopped(v).stop = TRUE /\ Stopped(v).undefined_value = v
<1>1. Linked \in Leg /\ Linked.stop = FALSE
  BY DEF Linked, Leg
<1>2. ASSUME NEW v \in Symbols \cup {NoArgument}
      PROVE  Stopped(v) \in Leg /\ Stopped(v).stop = TRUE /\ Stopped(v).undefined_value = v
  BY DEF Stopped, Leg
<1>3. QED BY <1>1, <1>2, BuildAssumption

\* A leg that linked was seen to link.
LEMMA LinkedShown == ASSUME NEW l, legs[l] = Linked, obs.leg[l] = "linked"
                    PROVE  LegShown(l) /\ legs[l] # NotSeen
BY LegFacts DEF LegShown

\* Legs that are what their subprocesses showed name a value together.
LEMMA LegsName ==
  ASSUME TwoLegs, NEW s \in Symbols
  PROVE  EveryLegNames(s) <=> \A l \in LegNames : obs.leg[l] = s
<1>1. ASSUME NEW l \in LegNames
      PROVE  legs[l].stop /\ legs[l].undefined_value = s <=> obs.leg[l] = s
  <2>1. LegShown(l) /\ legs[l] # NotSeen
    BY <1>1 DEF TwoLegs
  <2>2. s # "linked" /\ s # "stopped" /\ s # NotSeen /\ s # NoArgument
    BY ConstantsAssumption
  <2>3. Linked.stop = FALSE /\ \A v : Stopped(v).stop = TRUE /\ Stopped(v).undefined_value = v
    BY DEF Linked, Stopped
  <2>4. CASE legs[l] = Linked /\ obs.leg[l] = "linked"
    BY <2>2, <2>3, <2>4
  <2>5. CASE \E v : legs[l] = Stopped(v) /\ obs.leg[l] = (IF v = NoArgument THEN "stopped" ELSE v)
    BY <2>2, <2>3, <2>5
  <2>6. QED BY <2>1, <2>4, <2>5, ConstantsAssumption DEF LegShown
<1>2. legs # NoLegs
  BY DEF TwoLegs, NoLegs, LegNames
<1>3. \A l \in LegNames : legs[l] # NotSeen
  BY DEF TwoLegs
<1>4. QED BY <1>1, <1>2, <1>3 DEF EveryLegNames

\* A listed unit is excused by the code exactly when the table excuses it.
LEMMA ExcusedAgrees ==
  ASSUME ProgramInv, pc = "judge", NEW e, e.pending \in Marker \cup {NoMarker},
         Waiting(Expect[file])
  PROVE  ProgramExcused(e, obs) <=>
           /\ ~found /\ e.pending.observation = "undefined-value" /\ npkc_exit = 0
           /\ EveryLegNames(e.pending.argument)
<1>0. obs.npkc = npkc_exit
  BY DEF ProgramInv
<1>1. CASE e.pending.observation # "undefined-value"
  BY <1>1 DEF ProgramExcused
<1>2. CASE e.pending.observation = "undefined-value" /\ npkc_exit # 0
  BY <1>0, <1>2 DEF ProgramExcused
<1>3. CASE e.pending.observation = "undefined-value" /\ npkc_exit = 0
  <2>1. e.pending.argument \in Symbols
    BY <1>3 DEF Marker, NoMarker
  <2>2. Misdirected \/ TwoLegs
    <3>1. BothLinked => TwoLegs
      BY LinkedShown DEF BothLinked, TwoLegs
    <3>2. QED BY <1>3, <3>1 DEF Waiting
  <2>3. (found /\ obs.edge = TRUE) \/ (~found /\ obs.edge = FALSE)
    BY <1>3 DEF Waiting, BothLinked
  <2>4. CASE Misdirected
    <3>1. ~EveryLegNames(e.pending.argument)
      <4>1. legs["-O0"] # NotSeen /\ legs["-O0"].undefined_value = NoArgument
        BY <2>4, LegFacts DEF Misdirected
      <4>2. e.pending.argument # NoArgument
        BY <2>1, ConstantsAssumption
      <4>3. QED BY <4>1, <4>2 DEF EveryLegNames, LegNames
    <3>2. QED BY <2>4, <3>1 DEF Misdirected, ProgramExcused
  <2>5. CASE TwoLegs
    BY <1>0, <1>3, <2>1, <2>3, <2>5, LegsName DEF TwoLegs, ProgramExcused
  <2>6. QED BY <2>2, <2>4, <2>5
<1>4. QED BY <1>1, <1>2, <1>3

\* A unit meets its expectation in the code exactly when the table says so.
LEMMA MetAgrees ==
  ASSUME TypeInv, ProgramInv, pc = "judge"
  PROVE  (why = "none" /\ AllExpected(Expect[file])) <=>
           ProgramMet(Expect[file], obs, FloorUnder(Expect[file]))
<1> DEFINE e == Expect[file]
<1>0. Waiting(e) /\ obs.npkc = npkc_exit /\ (why # "none" => NotRun)
  BY DEF ProgramInv
<1>1. e.stress # 0
  BY ExpectType DEF TypeInv, Located
<1> HIDE DEF e
<1>2. CASE why = "none"
  <2>1. /\ BothLinked /\ FloorPassed(e) /\ RunsKept(e)
        /\ \A l \in LegNames : obs.runs[l] = e.stress
    BY <1>0, <1>2 DEF Waiting
  <2>2. AllExpected(e) <=> ~obs.wrong
    BY <2>1 DEF RunsKept
  <2>3. ProgramMet(e, obs, FloorUnder(e)) <=> ~obs.wrong
    BY <1>0, <2>1 DEF BothLinked, FloorPassed, ProgramMet, FloorUnder
  <2>4. QED BY <1>2, <2>2, <2>3 DEF e
<1>3. CASE why # "none"
  <2>1. \A l \in LegNames : obs.runs[l] = 0
    BY <1>0, <1>3 DEF NotRun
  <2>2. ~ProgramMet(e, obs, FloorUnder(e))
    BY <1>1, <2>1 DEF ProgramMet, LegNames
  <2>3. QED BY <1>3, <2>2 DEF e
<1>4. QED BY <1>2, <1>3

-----------------------------------------------------------------------------
(* The inductive invariant, action by action. *)

\* What the last verdict is, once it is said.
LEMMA SaidIs ==
  ASSUME verdicts \in Seq(Verdict), NEW v, NEW f, NEW d, Say(v, f, d)
  PROVE  pc' = "said" /\ Said'.verdict = v /\ Said'.detail = d
BY DEF Say, Said

\* No unit is at hand, and none ran.
LEMMA EntryInv ==
  ASSUME IInv,
         \/ OpenSuite \/ MissingDirectory \/ OpenSweep \/ LeaveOut \/ EndSuite \/ EndStages
         \/ NextUnit \/ \E c \in Outputs : SweepFile(c)
  PROVE  ProgramInv' /\ ProgramOwed' /\ StaleProgram' /\ FloorFirst'
<1>1. pc' \in {"unit", "crashed", "sweep", "entry", "done"}
  BY DEF OpenSuite, MissingDirectory, OpenSweep, LeaveOut, EndSuite, EndStages, NextUnit, SweepFile
<1>2. obs'.npkc = npkc_exit' /\ NotRun'
  <2>1. CASE NextUnit
    BY <2>1 DEF NextUnit, BuildForgotten, Unobserved, NotRun
  <2>2. CASE ~NextUnit
    <3>1. pc \in {"entry", "unit", "sweep"} /\ UNCHANGED <<obs, npkc_exit, exits>>
      BY <2>2 DEF OpenSuite, MissingDirectory, OpenSweep, LeaveOut, EndSuite, EndStages,
                  SweepFile, buildVars
    <3>2. QED BY <3>1 DEF IInv, ProgramInv, NotRun
  <2>3. QED BY <2>1, <2>2
<1>3. QED BY <1>1, <1>2 DEF ProgramInv, ProgramOwed, StaleProgram, FloorFirst

\* A unit judged unbuilt is owed its failure.
LEMMA UnbuiltInv ==
  ASSUME IInv,
         \/ RefuseProgram \/ RefuseCheck \/ JudgeSweep
         \/ \E c \in Outputs : JudgeCheck(c) \/ JudgeCheckPending(c)
  PROVE  ProgramInv' /\ ProgramOwed' /\ StaleProgram' /\ FloorFirst'
<1>1. pc \in {"unit", "sweep"} /\ t' = t /\ UNCHANGED <<buildVars, exits>>
  BY DEF RefuseProgram, RefuseCheck, JudgeSweep, JudgeCheck, JudgeCheckPending, Taken
<1>2. pc' = "said"
  BY DEF RefuseProgram, RefuseCheck, JudgeSweep, JudgeCheck, JudgeCheckPending, Say
<1>3. obs.npkc = npkc_exit /\ NotRun
  BY <1>1 DEF IInv, ProgramInv
<1>4. ProgramInv'
  BY <1>1, <1>2, <1>3 DEF ProgramInv, NotRun, buildVars
<1>5. FloorFirst'
  <2>1. \A l \in LegNames : obs'.runs[l] = 0
    BY <1>1, <1>3 DEF NotRun, buildVars
  <2>2. QED BY <2>1 DEF FloorFirst
<1>6. CASE Tests[t].stage = "program"
  <2>1. RefuseProgram
    BY <1>6 DEF RefuseCheck, JudgeSweep, JudgeCheck, JudgeCheckPending, Taken, IInv, TypeInv,
                Located
  <2>2. Said'.verdict = "FAIL" /\ Said'.detail = "" /\ file' = Head(todo)
    BY <2>1, SaidIs DEF RefuseProgram, Taken, IInv, TypeInv, TypeOK
  <2>3. ~Expect[file'].readable \/ Expect[file'].errors # {}
    BY <2>1, <2>2 DEF RefuseProgram
  <2>4. ProgramOwed'
    BY <2>2, <2>3 DEF ProgramOwed, ProgramVerdict
  <2>5. StaleProgram'
    BY <2>2, <2>3 DEF StaleProgram
  <2>6. QED BY <1>4, <1>5, <2>4, <2>5
<1>7. CASE Tests[t].stage # "program"
  BY <1>1, <1>4, <1>5, <1>7 DEF ProgramOwed, StaleProgram
<1>8. QED BY <1>6, <1>7

\* Nothing is owed, and nothing has run, while a unit is built.
LEMMA BuildingInv ==
  ASSUME IInv, BuildProgram \/ BuildOn
  PROVE  ProgramInv' /\ ProgramOwed' /\ StaleProgram' /\ FloorFirst'
<1>1. CASE BuildProgram
  <2>1. pc' = "build" /\ why' = "none" /\ ~found' /\ exits' = NoRuns
    BY <1>1 DEF BuildProgram
  <2>2. obs' = Unobserved /\ npkc_exit' = NotSeen /\ step' = "npkc" /\ leg' = "-O0"
        /\ legs' = NoLegs
    BY <1>1 DEF BuildProgram, StartBuild
  <2>3. NotRun' /\ Unlegged' /\ obs'.npkc = npkc_exit'
    BY <2>1, <2>2 DEF NotRun, Unobserved, Unlegged, NoLegs
  <2>4. BuildInv'
    BY <2>2, <2>3 DEF BuildInv, Built
  <2>5. QED BY <2>1, <2>3, <2>4 DEF ProgramInv, ProgramOwed, StaleProgram, FloorFirst
<1>2. CASE BuildOn
  <2>1. pc = "build" /\ BuildStep /\ UNCHANGED stageVars
    BY <1>2 DEF BuildOn
  <2>2. BuildInv' /\ NotRun' /\ obs'.npkc = npkc_exit'
    BY <2>1, BuildInvStep DEF IInv, TypeInv, TypeOK, ProgramInv, stageVars
  <2>3. QED
    BY <2>1, <2>2 DEF IInv, ProgramInv, ProgramOwed, StaleProgram, FloorFirst, stageVars
<1>3. QED BY <1>1, <1>2

\* A unit that cannot run waits with its reason, one that can goes to the floor or to its runs.
LEMMA ScanInv ==
  ASSUME IInv, NotBuilt \/ \E edge \in BOOLEAN : Scan(edge)
  PROVE  ProgramInv' /\ ProgramOwed' /\ StaleProgram' /\ FloorFirst'
<1>0. /\ pc = "build" /\ Built /\ NotRun /\ why = "none" /\ ~found /\ obs.npkc = npkc_exit
      /\ BuiltShape /\ file \in Files
  BY DEF NotBuilt, Scan, IInv, TypeInv, Located, ProgramInv, BuildInv
<1>1. CASE NotBuilt
  <2>1. /\ pc' = "judge" /\ why' = "npkc" /\ npkc_exit # 0
        /\ UNCHANGED <<npkc_exit, legs, obs, found, exits, file>>
    BY <1>1 DEF NotBuilt
  <2>2. npkc_exit \in NpkcExits \ {0} /\ Unlegged
    BY <1>0, <2>1 DEF BuiltShape, Misdirected, TwoLegs
  <2>3. NotRun' /\ Waiting(Expect[file])'
    BY <1>0, <2>1, <2>2 DEF NotRun, Waiting, Unlegged
  <2>4. ProgramInv'
    BY <1>0, <2>1, <2>3 DEF ProgramInv
  <2>5. FloorFirst'
    BY <2>3 DEF FloorFirst, NotRun
  <2>6. QED BY <2>1, <2>4, <2>5 DEF ProgramOwed, StaleProgram
<1>2. ASSUME NEW edge \in BOOLEAN, Scan(edge)
      PROVE  ProgramInv' /\ ProgramOwed' /\ StaleProgram' /\ FloorFirst'
  <2>1. /\ npkc_exit = 0 /\ found' = edge /\ UNCHANGED <<npkc_exit, legs, exits, file>>
        /\ why' = (IF edge THEN "found" ELSE IF SomeLegStopped THEN "stopped" ELSE "none")
        /\ pc' = (IF why' # "none" THEN "judge"
                  ELSE IF Expect[file].cap = NoCap THEN "runs" ELSE "floor")
    BY <1>2 DEF Scan
  <2>2. /\ obs'.edge = edge /\ obs'.npkc = obs.npkc /\ obs'.rows = obs.rows
        /\ obs'.leg = obs.leg /\ obs'.runs = obs.runs /\ obs'.wrong = obs.wrong
    BY <1>2 DEF Scan, IInv, TypeInv, TypeOK, BuildTypeOK, ProgramObservation
  <2>3. Misdirected \/ TwoLegs
    BY <1>0, <2>1 DEF BuiltShape
  <2>4. (Misdirected => Misdirected') /\ (TwoLegs => TwoLegs')
    BY <2>1, <2>2 DEF Misdirected, TwoLegs, LegShown
  <2>5. NotRun' /\ obs'.npkc = npkc_exit'
    BY <1>0, <2>1, <2>2 DEF NotRun
  <2>6. FloorFirst'
    BY <2>5 DEF FloorFirst, NotRun
  <2>7. CASE why' # "none"
    <3>1. SomeLegStopped' <=> SomeLegStopped
      BY <2>1 DEF SomeLegStopped
    <3>2. Waiting(Expect[file])'
      BY <2>1, <2>2, <2>3, <2>4, <2>7, <3>1 DEF Waiting
    <3>3. QED BY <2>1, <2>5, <2>6, <2>7, <3>2 DEF ProgramInv, ProgramOwed, StaleProgram
  <2>8. CASE why' = "none"
    <3>1. ~edge /\ ~SomeLegStopped
      BY <2>1, <2>8
    <3>2. TwoLegs
      BY <2>3, <3>1, LegFacts DEF Misdirected, SomeLegStopped, LegNames
    <3>3. \A l \in LegNames : legs[l] = Linked /\ obs.leg[l] = "linked"
      BY <3>1, <3>2, LegFacts DEF TwoLegs, LegShown, SomeLegStopped
    <3>4. BothLinked'
      BY <2>1, <2>2, <3>1, <3>2, <3>3 DEF BothLinked, TwoLegs
    <3>5. CASE pc' = "floor"
      BY <2>1, <2>5, <2>6, <2>8, <3>1, <3>4, <3>5 DEF ProgramInv, ProgramOwed, StaleProgram
    <3>6. CASE pc' = "runs"
      <4>1. Expect[file].cap = NoCap /\ Expect[file].stress \in Nat \ {0}
        BY <1>0, <2>1, <2>8, <3>6, ExpectType
      <4>2. FloorPassed(Expect[file])' /\ RunsKept(Expect[file])'
        BY <2>1, <2>5, <4>1 DEF FloorPassed, RunsKept, NotRun, NoRuns, AllExpected
      <4>3. \A l \in LegNames : obs'.runs[l] = 0
        BY <2>5 DEF NotRun
      <4>4. QED
        BY <2>1, <2>5, <2>6, <2>8, <3>1, <3>4, <3>6, <4>1, <4>2, <4>3
        DEF ProgramInv, ProgramOwed, StaleProgram, LegNames
    <3>7. QED BY <2>1, <2>8, <3>5, <3>6
  <2>9. QED BY <2>7, <2>8
<1>3. QED BY <1>1, <1>2

\* The unit runs only under a floor that exited 0 under its cap.
LEMMA FloorInv ==
  ASSUME IInv, NEW x \in RunExits, FloorOk(x)
  PROVE  ProgramInv' /\ ProgramOwed' /\ StaleProgram' /\ FloorFirst'
<1>0. /\ pc = "floor" /\ BothLinked /\ NotRun /\ why = "none" /\ ~found /\ obs.npkc = npkc_exit
      /\ file \in Files /\ Expect[file].cap # NoCap
  BY DEF FloorOk, IInv, TypeInv, Located, ProgramInv
<1>1. /\ UNCHANGED <<npkc_exit, legs, obs, exits, file, found>>
      /\ IF floor_under'[Expect[file].cap] = 0 THEN pc' = "runs" /\ why' = why
         ELSE pc' = "judge" /\ why' = "floor"
  BY DEF FloorOk, FloorFine, buildVars
<1>2. /\ Expect[file].stress \in Nat \ {0}
  BY <1>0, ExpectType
<1>3. NotRun' /\ BothLinked' /\ \A l \in LegNames : obs'.runs[l] = 0
  BY <1>0, <1>1 DEF NotRun, BothLinked
<1>4. FloorFirst'
  BY <1>3 DEF FloorFirst
<1>5. CASE floor_under'[Expect[file].cap] = 0
  <2>1. FloorPassed(Expect[file])' /\ RunsKept(Expect[file])'
    BY <1>3, <1>1, <1>5 DEF FloorPassed, RunsKept, NotRun, NoRuns, AllExpected
  <2>2. QED
    BY <1>0, <1>1, <1>2, <1>3, <1>4, <1>5, <2>1
    DEF ProgramInv, ProgramOwed, StaleProgram, LegNames
<1>6. CASE floor_under'[Expect[file].cap] # 0
  <2>1. Waiting(Expect[file])'
    BY <1>0, <1>1, <1>3, <1>6 DEF Waiting, FloorPassed
  <2>2. QED BY <1>0, <1>1, <1>3, <1>4, <1>6, <2>1 DEF ProgramInv, ProgramOwed, StaleProgram
<1>7. QED BY <1>5, <1>6

\* The runs are counted, and a wrong exit of any of them is remembered.
LEMMA RunInv ==
  ASSUME IInv, NEW x \in RunExits, Run(x)
  PROVE  ProgramInv' /\ ProgramOwed' /\ StaleProgram' /\ FloorFirst'
<1> DEFINE e == Expect[file]
           l == IF Len(exits["-O0"]) < e.stress THEN "-O0" ELSE "-O2"
<1>0. /\ pc = "runs" /\ BothLinked /\ why = "none" /\ ~found /\ obs.npkc = npkc_exit
      /\ FloorPassed(e) /\ RunsKept(e) /\ file \in Files
      /\ obs.runs["-O0"] <= e.stress /\ obs.runs["-O2"] < e.stress
      /\ obs.runs["-O0"] < e.stress => obs.runs["-O2"] = 0
  BY DEF Run, IInv, TypeInv, Located, ProgramInv
<1>1. /\ UNCHANGED <<npkc_exit, legs, file, found, why, floor_under>>
      /\ exits' = [exits EXCEPT ![l] = Append(@, x)]
      /\ pc' = (IF l = "-O2" /\ Len(exits[l]) + 1 = e.stress THEN "judge" ELSE "runs")
      /\ obs' = [obs EXCEPT !.runs[l] = @ + 1, !.wrong = @ \/ x # e.exit]
  BY DEF Run
<1>2. /\ e.stress \in Nat \ {0} /\ l \in LegNames
      /\ obs \in ProgramObservation /\ exits \in [LegNames -> Seq(RunExits)]
  BY <1>0, ExpectType DEF LegNames, IInv, TypeInv, TypeOK, BuildTypeOK
<1>3. \A m \in LegNames : obs.runs[m] \in Nat /\ Len(exits[m]) = obs.runs[m]
  BY <1>0, <1>2 DEF ProgramObservation, RunsKept
<1>4. l = (IF obs.runs["-O0"] < e.stress THEN "-O0" ELSE "-O2")
  BY <1>3 DEF LegNames
<1> HIDE DEF e, l
<1>5. /\ obs'.npkc = obs.npkc /\ obs'.rows = obs.rows /\ obs'.edge = obs.edge
      /\ obs'.leg = obs.leg
      /\ \A m \in LegNames : obs'.runs[m] = (IF m = l THEN obs.runs[m] + 1 ELSE obs.runs[m])
      /\ obs'.wrong <=> obs.wrong \/ x # e.exit
  BY <1>1, <1>2 DEF ProgramObservation
<1>6. /\ \A m \in LegNames : exits'[m] = (IF m = l THEN Append(exits[m], x) ELSE exits[m])
  BY <1>1, <1>2
<1>7. BothLinked' /\ FloorPassed(e)'
  BY <1>0, <1>1, <1>5 DEF BothLinked, FloorPassed, e
<1>8. e' = e
  BY <1>1 DEF e
<1>9. RunsKept(e)'
  <2>1. \A m \in LegNames : exits[m] \in Seq(RunExits)
    BY <1>2
  <2>2. \A m \in LegNames : Len(exits'[m]) = obs'.runs[m]
    <3>1. Len(Append(exits[l], x)) = Len(exits[l]) + 1
      BY <1>2, <2>1
    <3>2. QED BY <1>3, <1>5, <1>6, <3>1
  <2>3. AllExpected(e)' <=> AllExpected(e) /\ x = e.exit
    <3>1. ASSUME NEW m \in LegNames, m # l
          PROVE  exits'[m] = exits[m]
      BY <1>6, <3>1
    <3>2. exits'[l] = Append(exits[l], x) /\ exits[l] \in Seq(RunExits)
      BY <1>2, <1>6
    <3>3. (\A k \in DOMAIN exits'[l] : exits'[l][k] = e.exit)
            <=> (\A k \in DOMAIN exits[l] : exits[l][k] = e.exit) /\ x = e.exit
      BY <3>2
    <3>4. QED BY <1>2, <1>8, <3>1, <3>3 DEF AllExpected
  <2>4. QED BY <1>0, <1>5, <1>8, <2>2, <2>3 DEF RunsKept
<1>10. pc' = "runs" \/ (pc' = "judge" /\ l = "-O2" /\ obs.runs[l] + 1 = e.stress)
  BY <1>1, <1>2, <1>3
<1>11. FloorFirst'
  BY <1>0, <1>1, <1>7 DEF FloorFirst, FloorPassed, e
<1>12. CASE pc' = "runs"
  <2>1. /\ obs'.runs["-O0"] <= e.stress /\ obs'.runs["-O2"] < e.stress
        /\ obs'.runs["-O0"] < e.stress => obs'.runs["-O2"] = 0
    <3>1. l = "-O2" => obs.runs["-O2"] + 1 # e.stress
      BY <1>1, <1>2, <1>3, <1>12
    <3>2. QED BY <1>0, <1>2, <1>3, <1>4, <1>5, <3>1 DEF LegNames
  <2>2. QED
    BY <1>0, <1>1, <1>5, <1>7, <1>8, <1>9, <1>11, <1>12, <2>1
    DEF ProgramInv, ProgramOwed, StaleProgram, e
<1>13. CASE pc' = "judge" /\ l = "-O2" /\ obs.runs[l] + 1 = e.stress
  <2>1. \A m \in LegNames : obs'.runs[m] = e.stress
    BY <1>0, <1>2, <1>3, <1>4, <1>5, <1>13 DEF LegNames
  <2>2. Waiting(e)'
    BY <1>0, <1>1, <1>7, <1>8, <1>9, <2>1 DEF Waiting
  <2>3. QED
    BY <1>0, <1>1, <1>5, <1>8, <1>11, <1>13, <2>2 DEF ProgramInv, ProgramOwed, StaleProgram, e
<1>14. QED BY <1>10, <1>12, <1>13

\* No observation both meets an expectation and is excused.
LEMMA ExcusedNotMet ==
  ASSUME NEW e, e.pending \in Marker \cup {NoMarker}, ProgramExcused(e, obs), NEW floor
  PROVE  ~ProgramMet(e, obs, floor)
<1>1. e.pending.argument \in Symbols
  BY DEF ProgramExcused, Marker, NoMarker
<1>2. obs.leg["-O0"] = e.pending.argument
  BY DEF ProgramExcused, LegNames
<1>3. QED BY <1>1, <1>2, ConstantsAssumption DEF ProgramMet, LegNames

\* The verdict on a unit that was built is the one it is owed.
LEMMA JudgeInv ==
  ASSUME IInv, Judge \/ JudgeUnlisted \/ JudgePending
  PROVE  ProgramInv' /\ ProgramOwed' /\ StaleProgram' /\ FloorFirst'
<1> DEFINE e == Expect[file]
<1>0. /\ pc = "judge" /\ Waiting(e) /\ obs.npkc = npkc_exit
      /\ why # "none" => NotRun
      /\ t \in DOMAIN Tests /\ Tests[t].stage = "program" /\ file \in Files
      /\ e.readable /\ e.errors = {} /\ e.pending \in Marker \cup {NoMarker}
  <2>1. pc = "judge" /\ file \in Files
    BY DEF Judge, JudgeUnlisted, JudgePending, IInv, TypeInv, Located
  <2>2. e \in Expectation
    BY <2>1, ExpectType
  <2>3. QED BY <2>1, <2>2 DEF Expectation, IInv, TypeInv, Located, ProgramInv
<1>1. UNCHANGED <<buildVars, t, file, exits, floor_under, found, why>> /\ pc' = "said"
  BY DEF Judge, JudgeUnlisted, JudgePending, Say
<1>2. ProgramInv'
  BY <1>0, <1>1 DEF ProgramInv, buildVars
<1>3. FloorFirst'
  <2>1. FloorPassed(e) \/ \A l \in LegNames : obs.runs[l] = 0
    BY <1>0 DEF Waiting, NotRun
  <2>2. QED BY <1>1, <2>1 DEF FloorFirst, FloorPassed, buildVars
<1>4. (why = "none" /\ AllExpected(e)) <=> ProgramMet(e, obs, FloorUnder(e))
  BY <1>0, MetAgrees DEF IInv
<1>5. ProgramExcused(e, obs) <=>
        /\ ~found /\ e.pending.observation = "undefined-value" /\ npkc_exit = 0
        /\ EveryLegNames(e.pending.argument)
  BY <1>0, ExcusedAgrees DEF IInv
<1>6. /\ e' = e /\ obs' = obs /\ FloorUnder(e)' = FloorUnder(e) /\ Listed(file)' = Listed(file)
  BY <1>1 DEF buildVars, FloorUnder, Listed, Key
<1>7. /\ Said'.verdict = ProgramVerdict(e, obs, FloorUnder(e), Listed(file))
      /\ e.pending # NoMarker =>
           (Said'.detail = "stale" <=> Listed(file) /\ ProgramMet(e, obs, FloorUnder(e)))
  <2>0. verdicts \in Seq(Verdict)
    BY DEF IInv, TypeInv, TypeOK
  <2>1. CASE Judge
    <3>1. Said'.verdict = IF why = "none" /\ AllExpected(e) THEN "PASS" ELSE "FAIL"
      BY <2>0, <2>1, SaidIs DEF Judge
    <3>2. e.pending = NoMarker
      BY <2>1 DEF Judge
    <3>3. QED BY <1>0, <1>4, <3>1, <3>2 DEF ProgramVerdict
  <2>2. CASE JudgeUnlisted
    <3>1. Said'.verdict = "FAIL" /\ Said'.detail = "unlisted"
      BY <2>0, <2>2, SaidIs DEF JudgeUnlisted
    <3>2. e.pending # NoMarker /\ ~Listed(file)
      BY <2>2 DEF JudgeUnlisted, Listed
    <3>3. QED BY <3>1, <3>2 DEF ProgramVerdict
  <2>3. CASE JudgePending
    <3>0. e.pending # NoMarker /\ Listed(file)
      BY <2>3 DEF JudgePending, Listed
    <3>1. CASE ProgramExcused(e, obs)
      <4>1. Said'.verdict = "PEND" /\ Said'.detail = ""
        BY <1>5, <2>0, <2>3, <3>1, SaidIs DEF JudgePending
      <4>2. ~ProgramMet(e, obs, FloorUnder(e))
        BY <1>0, <3>1, ExcusedNotMet
      <4>3. QED BY <1>0, <3>0, <3>1, <4>1, <4>2 DEF ProgramVerdict
    <3>2. CASE ~ProgramExcused(e, obs)
      <4>1. Said'.verdict = "FAIL"
        BY <1>5, <2>0, <2>3, <3>2, SaidIs DEF JudgePending
      <4>2. found => why # "none"
        BY <1>0 DEF Waiting
      <4>3. Said'.detail = "stale" <=> why = "none" /\ AllExpected(e)
        <5>1. \/ found /\ Say("FAIL", file, "found")
              \/ ~found /\ why = "none" /\ AllExpected(e) /\ Say("FAIL", file, "stale")
              \/ ~(why = "none" /\ AllExpected(e)) /\ Say("FAIL", file, "different")
          BY <1>5, <2>3, <3>2 DEF JudgePending
        <5>2. \A d : Say("FAIL", file, d) => Said'.detail = d
          BY <2>0, SaidIs
        <5>3. QED BY <4>2, <5>1, <5>2
      <4>4. QED BY <1>4, <3>0, <3>2, <4>1, <4>3 DEF ProgramVerdict
    <3>3. QED BY <3>1, <3>2
  <2>4. QED BY <2>1, <2>2, <2>3
<1>8. QED BY <1>0, <1>1, <1>2, <1>3, <1>6, <1>7 DEF ProgramOwed, StaleProgram, buildVars

\* Every step keeps the inductive invariant.
LEMMA IInvStep == IInv /\ [StagesNext]_vars => IInv'
<1> SUFFICES ASSUME IInv, [StagesNext]_vars PROVE IInv'
  OBVIOUS
<1>1. TypeInv'
  BY TypeStep DEF IInv
<1>2. CASE StagesNext
  BY <1>1, <1>2, EntryInv, UnbuiltInv, BuildingInv, ScanInv, FloorInv, RunInv, JudgeInv
  DEF StagesNext, IInv
<1>3. CASE UNCHANGED vars
  <2>1. ProgramInv'
    BY <1>3, ZenonT(60)
    DEF vars, buildVars, stageVars, IInv, ProgramInv, NotRun, BuildInv, Unlegged, Built, BuiltShape,
        Misdirected, TwoLegs, LegShown, BothLinked, FloorPassed, RunsKept, AllExpected, Waiting, SomeLegStopped
  <2>2. ProgramOwed' /\ StaleProgram' /\ FloorFirst'
    BY <1>3 DEF vars, buildVars, stageVars, IInv, ProgramOwed, StaleProgram, FloorFirst, Said,
                FloorUnder, Listed, Key
  <2>3. QED BY <1>1, <2>1, <2>2 DEF IInv
<1>4. QED BY <1>2, <1>3

\* The inductive invariant holds in every run.
LEMMA IInvariant == StagesSpec => []IInv
<1>1. StagesInit => IInv
  <2> SUFFICES ASSUME StagesInit PROVE IInv
    OBVIOUS
  <2>2. TypeInv
    BY InitType DEF TypeInv, Located, StagesInit
  <2>3. pc = "entry" /\ NotRun /\ obs.npkc = npkc_exit
    BY DEF StagesInit, BuildInit, NotRun, Unobserved
  <2>4. QED BY <2>2, <2>3 DEF IInv, ProgramInv, ProgramOwed, StaleProgram, FloorFirst
<1>2. QED BY <1>1, IInvStep, PTL DEF StagesSpec

-----------------------------------------------------------------------------
(* The theorems. *)

\* Every verdict _unit and _pending give is the one ProgramVerdict says the unit is owed for what
\* its subprocesses showed: no early return, order of questions or retained Build object makes a
\* program pass, fail or be excused otherwise.
THEOREM ProgramsAreOwed == StagesSpec => []ProgramOwed
BY IInvariant, PTL DEF IInv

\* _pending tells its reader to remove a program's marker exactly when the unit is listed and
\* meets its whole expectation.
THEOREM StaleProgramIsMet == StagesSpec => []StaleProgram
BY IInvariant, PTL DEF IInv

\* No unit runs under a memory cap that the floor program did not exit 0 under.
THEOREM FloorComesFirst == StagesSpec => []FloorFirst
BY IInvariant, PTL DEF IInv

\* The floor program's answer under a cap never changes: _floor_ok asks for it once.
THEOREM FloorIsAskedOnce == StagesSpec => FloorAskedOnce
<1> DEFINE Kept == \A m \in Caps : floor_under[m] # NotSeen => floor_under'[m] = floor_under[m]
<1>1. TypeInv /\ [StagesNext]_vars => [Kept]_vars
  <2> SUFFICES ASSUME TypeInv, StagesNext PROVE Kept
    BY DEF vars, stageVars
  <2>1. ASSUME NEW x \in RunExits, FloorOk(x)
        PROVE  Kept
    BY <2>1 DEF FloorOk, FloorAsked, TypeInv, TypeOK
  <2>2. CASE UNCHANGED floor_under
    BY <2>2
  <2>3. QED
    BY <2>1, <2>2
    DEF StagesNext, OpenSuite, MissingDirectory, OpenSweep, NextUnit, LeaveOut, EndSuite,
        EndStages, RefuseProgram, BuildProgram, BuildOn, NotBuilt, Scan, Run, Judge,
        JudgeUnlisted, JudgePending, RefuseCheck, JudgeCheck, JudgeCheckPending, SweepFile,
        JudgeSweep, stageVars
<1>2. QED BY <1>1, TypeInvariant, PTL DEF StagesSpec, FloorAskedOnce

-----------------------------------------------------------------------------
(* What is matched in the reviewed list. *)

\* A verdict said, with the unit's line matched or nothing matched.
LEMMA SaidSeen ==
  ASSUME TypeInv, SeenIsJudged, NEW v, NEW f, NEW d, Say(v, f, d),
         \/ pending_seen' = pending_seen /\ v # "PEND"
         \/ See(f) /\ v \in {"PEND", "FAIL"} /\ d # "unlisted"
  PROVE  SeenIsJudged'
<1>1. verdicts \in Seq(Verdict)
  BY DEF TypeInv, TypeOK
<1>2. /\ DOMAIN verdicts = 1..Len(verdicts) /\ Len(verdicts) \in Nat
      /\ DOMAIN verdicts' = 1..(Len(verdicts) + 1)
      /\ \A i \in DOMAIN verdicts : verdicts'[i] = verdicts[i]
      /\ verdicts'[Len(verdicts) + 1].verdict = v /\ verdicts'[Len(verdicts) + 1].unit = f
      /\ verdicts'[Len(verdicts) + 1].detail = d
  BY <1>1 DEF Say
<1>3. ASSUME NEW key \in pending_seen'
      PROVE  \E i \in DOMAIN verdicts' :
               /\ verdicts'[i].unit = key[1] /\ Expect[key[1]].pending = key[2]
               /\ verdicts'[i].verdict \in {"PEND", "FAIL"} /\ verdicts'[i].detail # "unlisted"
  <2>1. CASE key \in pending_seen
    <3>1. PICK i \in DOMAIN verdicts :
             /\ verdicts[i].unit = key[1] /\ Expect[key[1]].pending = key[2]
             /\ verdicts[i].verdict \in {"PEND", "FAIL"} /\ verdicts[i].detail # "unlisted"
      BY <2>1 DEF SeenIsJudged
    <3>2. i \in DOMAIN verdicts' /\ verdicts'[i] = verdicts[i]
      BY <1>2
    <3>3. QED BY <3>1, <3>2
  <2>2. CASE key \notin pending_seen
    <3>1. key = <<f, Expect[f].pending>> /\ v \in {"PEND", "FAIL"} /\ d # "unlisted"
      BY <1>3, <2>2 DEF See, Key
    <3>2. Len(verdicts) + 1 \in DOMAIN verdicts'
      BY <1>2
    <3>3. QED BY <1>2, <3>1, <3>2
  <2>3. QED BY <2>1, <2>2
<1>4. ASSUME NEW i \in DOMAIN verdicts', verdicts'[i].verdict = "PEND"
      PROVE  Key(verdicts'[i].unit) \in pending_seen'
  <2>1. CASE i \in DOMAIN verdicts
    BY <1>2, <1>4, <2>1 DEF SeenIsJudged, See
  <2>2. CASE i \notin DOMAIN verdicts
    <3>1. i = Len(verdicts) + 1
      BY <1>2, <2>2
    <3>2. QED BY <1>2, <1>4, <3>1 DEF See
  <2>3. QED BY <2>1, <2>2
<1>5. \A u : Key(u)' = Key(u)
  BY DEF Key
<1>6. QED BY <1>3, <1>4, <1>5 DEF SeenIsJudged

\* Every step keeps what the list's lines are matched for.
LEMMA SeenStep == TypeInv /\ SeenIsJudged /\ [StagesNext]_vars => SeenIsJudged'
<1> SUFFICES ASSUME TypeInv, SeenIsJudged, [StagesNext]_vars PROVE SeenIsJudged'
  OBVIOUS
<1>1. CASE UNCHANGED <<verdicts, pending_seen>>
  BY <1>1 DEF SeenIsJudged, Key
<1>2. CASE RefuseProgram \/ RefuseCheck
  BY <1>2, SaidSeen DEF RefuseProgram, RefuseCheck
<1>3. CASE Judge \/ JudgeUnlisted
  BY <1>3, SaidSeen DEF Judge, JudgeUnlisted
<1>4. CASE JudgePending
  BY <1>4, SaidSeen DEF JudgePending
<1>5. CASE JudgeSweep
  BY <1>5, SaidSeen DEF JudgeSweep
<1>6. ASSUME NEW c \in Outputs, JudgeCheck(c) PROVE SeenIsJudged'
  BY <1>6, SaidSeen DEF JudgeCheck
<1>7. ASSUME NEW c \in Outputs, JudgeCheckPending(c) PROVE SeenIsJudged'
  <2> DEFINE f == Head(todo)
             admitted == Expect[f].pending.observation = "accepted" /\ Key(f) \in PendingList
  <2>1. CASE admitted
    <3>1. See(f)
      BY <1>7, <2>1 DEF JudgeCheckPending
    <3>2. Say("PEND", f, "") \/ Say("FAIL", f, "stale") \/ Say("FAIL", f, "different")
      BY <1>7, <2>1 DEF JudgeCheckPending
    <3>3. QED BY <3>1, <3>2, SaidSeen
  <2>2. CASE ~admitted
    <3>1. pending_seen' = pending_seen /\ Say("FAIL", f, "unlisted")
      BY <1>7, <2>2 DEF JudgeCheckPending
    <3>2. QED BY <3>1, SaidSeen
  <2>3. QED BY <2>1, <2>2
<1>8. QED
  BY <1>1, <1>2, <1>3, <1>4, <1>5, <1>6, <1>7
  DEF StagesNext, OpenSuite, MissingDirectory, OpenSweep, NextUnit, LeaveOut, EndSuite, EndStages,
      BuildProgram, BuildOn, NotBuilt, Scan, FloorOk, Run, SweepFile, vars, stageVars

\* orphans() reads pending_seen at the end of a run: each line in it has a unit's verdict, and each
\* excused unit has its line in it.
THEOREM SeenLinesAreJudged == StagesSpec => []SeenIsJudged
<1>1. StagesInit => SeenIsJudged
  BY DEF StagesInit, SeenIsJudged
<1>2. QED BY <1>1, SeenStep, TypeInvariant, PTL DEF StagesSpec

-----------------------------------------------------------------------------
(* The suites implement Judgement: first, where the units not reached      *)
(* stand in their entry.                                                   *)

\* s is the end of u.
EndOf(s, u) == Len(s) <= Len(u) /\ \A j \in 1..Len(s) : s[j] = u[Len(u) - Len(s) + j]

Units == Tests[t].units

\* The files not reached are the last of the entry's, and the unit at hand is the one before them.
Placed ==
  /\ pc \in {"unit", "build", "floor", "runs", "judge", "said"} /\ Tests[t].stage # "parse" =>
       EndOf(todo, Units)
  /\ pc \in {"build", "floor", "runs", "judge"} =>
       Len(todo) < Len(Units) /\ file = Units[Len(Units) - Len(todo)] /\ Selected(file)
  /\ pc \in {"sweep", "said"} /\ Tests[t].stage = "parse" => only = NoFilter

\* The end of a list's tail.
LEMMA EndTail ==
  ASSUME NEW s \in Seq(Files), NEW u \in Seq(Files), EndOf(s, u), s # <<>>
  PROVE  /\ EndOf(Tail(s), u) /\ Len(Tail(s)) = Len(s) - 1
         /\ Len(s) \in 1..Len(u) /\ Len(u) \in Nat
         /\ Head(s) = u[Len(u) - Len(s) + 1]
<1>1. /\ Len(s) \in Nat \ {0} /\ Len(u) \in Nat /\ Len(Tail(s)) = Len(s) - 1
      /\ \A j \in 1..(Len(s) - 1) : Tail(s)[j] = s[j + 1]
      /\ Head(s) = s[1]
  OBVIOUS
<1>2. Len(s) <= Len(u) /\ \A j \in 1..Len(s) : s[j] = u[Len(u) - Len(s) + j]
  BY DEF EndOf
<1>3. Head(s) = u[Len(u) - Len(s) + 1]
  BY <1>1, <1>2
<1>4. \A j \in 1..(Len(s) - 1) : Tail(s)[j] = u[Len(u) - (Len(s) - 1) + j]
  <2> TAKE j \in 1..(Len(s) - 1)
  <2>1. j + 1 \in 1..Len(s)
    BY <1>1
  <2>2. s[j + 1] = u[Len(u) - Len(s) + (j + 1)]
    BY <1>2, <2>1
  <2>3. Len(u) - Len(s) + (j + 1) = Len(u) - (Len(s) - 1) + j
    BY <1>1
  <2>4. QED BY <1>1, <2>2, <2>3
<1>5. EndOf(Tail(s), u)
  BY <1>1, <1>2, <1>4 DEF EndOf
<1>6. QED BY <1>1, <1>2, <1>3, <1>5

\* The end of the whole list.
LEMMA EndWhole ==
  ASSUME NEW u \in Seq(Files)
  PROVE  EndOf(u, u) /\ Len(u) \in Nat
<1>1. Len(u) \in Nat
  OBVIOUS
<1>2. \A j \in 1..Len(u) : Len(u) - Len(u) + j = j
  BY <1>1
<1>3. QED BY <1>1, <1>2 DEF EndOf

\* A unit taken is the entry's next.
LEMMA TakenPlaced ==
  ASSUME TypeInv, Placed, NEW stage \in {"program", "check"}, Taken(stage)
  PROVE  /\ t \in DOMAIN Tests /\ Tests[t].stage = stage /\ pc = "unit"
         /\ todo \in Seq(Files) /\ Units \in Seq(Files) /\ Head(todo) \in Files
         /\ file' = Head(todo) /\ todo' = Tail(todo) /\ Selected(Head(todo))
         /\ EndOf(todo', Units) /\ Len(todo') = Len(todo) - 1
         /\ Len(todo) \in 1..Len(Units) /\ Len(Units) \in Nat
         /\ Head(todo) = Units[Len(Units) - Len(todo) + 1]
<1>1. /\ t \in DOMAIN Tests /\ Tests[t].stage = stage /\ pc = "unit" /\ todo # <<>>
      /\ file' = Head(todo) /\ todo' = Tail(todo) /\ Selected(Head(todo)) /\ Head(todo) \in Files
  BY TakenType DEF Taken
<1>2. todo \in Seq(Files) /\ Units \in Seq(Files)
  BY <1>1, TestsType DEF TypeInv, TypeOK, Units
<1>3. EndOf(todo, Units)
  BY <1>1 DEF Placed
<1>4. QED BY <1>1, <1>2, <1>3, EndTail

\* Every step keeps the place.
LEMMA PlacedStep == TypeInv /\ Placed /\ [StagesNext]_vars => Placed'
<1> SUFFICES ASSUME TypeInv, Placed, [StagesNext]_vars PROVE Placed'
  OBVIOUS
<1>0. Tests[t].units \in Seq(Files) \/ t \notin DOMAIN Tests
  BY TestsType
<1>1. CASE OpenSuite
  <2>1. pc' = "unit" /\ t' = t /\ todo' = Units /\ Units \in Seq(Files) /\ Tests[t].stage # "parse"
    BY <1>1, TestsType DEF OpenSuite, Units
  <2>2. QED BY <2>1, EndWhole DEF Placed, Units
<1>2. CASE MissingDirectory \/ EndSuite \/ EndStages
  BY <1>2 DEF MissingDirectory, EndSuite, EndStages, Placed
<1>3. CASE OpenSweep
  BY <1>3 DEF OpenSweep, Placed
<1>4. CASE NextUnit
  BY <1>4 DEF NextUnit, Placed, Units
<1>5. CASE LeaveOut
  <2>1. /\ pc = "unit" /\ pc' = "unit" /\ t' = t /\ todo # <<>> /\ todo' = Tail(todo)
        /\ t \in DOMAIN Tests /\ Tests[t].stage # "parse"
    BY <1>5 DEF LeaveOut, TypeInv, Located
  <2>2. todo \in Seq(Files) /\ Units \in Seq(Files) /\ EndOf(todo, Units)
    BY <2>1, TestsType DEF TypeInv, TypeOK, Placed, Units
  <2>3. EndOf(todo', Units)
    BY <2>1, <2>2, EndTail
  <2>4. QED BY <2>1, <2>3 DEF Placed, Units
<1>6. CASE BuildProgram
  <2>1. pc' = "build" /\ t' = t /\ UNCHANGED only /\ Taken("program")
    BY <1>6 DEF BuildProgram
  <2>2. /\ EndOf(todo', Units) /\ Len(todo') = Len(todo) - 1 /\ Len(todo) \in 1..Len(Units)
        /\ Len(Units) \in Nat /\ file' = Units[Len(Units) - Len(todo) + 1] /\ Selected(file')
        /\ Tests[t].stage = "program"
    BY <2>1, TakenPlaced
  <2>3. /\ Len(todo') < Len(Units)
        /\ Len(Units) - Len(todo) + 1 = Len(Units) - Len(todo')
    BY <2>2
  <2>4. Selected(file)'
    BY <2>1, <2>2 DEF Selected
  <2>5. QED BY <2>1, <2>2, <2>3, <2>4 DEF Placed, Units
<1>7. CASE BuildOn \/ NotBuilt \/ (\E edge \in BOOLEAN : Scan(edge))
           \/ (\E x \in RunExits : FloorOk(x) \/ Run(x))
  <2>1. /\ UNCHANGED <<todo, t, file, only>> /\ pc \in {"build", "floor", "runs"}
        /\ pc' \in {"build", "floor", "runs", "judge"} /\ Tests[t].stage = "program"
    BY <1>7 DEF BuildOn, NotBuilt, Scan, FloorOk, Run, stageVars, TypeInv, Located
  <2>2. QED BY <2>1 DEF Placed, Units, Selected
<1>8. CASE Judge \/ JudgeUnlisted \/ JudgePending
  <2>1. /\ UNCHANGED <<todo, t, file, only>> /\ pc = "judge" /\ pc' = "said"
        /\ Tests[t].stage = "program"
    BY <1>8 DEF Judge, JudgeUnlisted, JudgePending, Say, TypeInv, Located
  <2>2. QED BY <2>1 DEF Placed, Units
<1>9. CASE RefuseProgram \/ RefuseCheck \/ (\E c \in Outputs : JudgeCheck(c) \/ JudgeCheckPending(c))
  <2>1. PICK stage \in {"program", "check"} : Taken(stage)
    BY <1>9 DEF RefuseProgram, RefuseCheck, JudgeCheck, JudgeCheckPending
  <2>2. pc' = "said" /\ t' = t
    BY <1>9 DEF RefuseProgram, RefuseCheck, JudgeCheck, JudgeCheckPending, Say
  <2>3. EndOf(todo', Units) /\ Tests[t].stage = stage
    BY <2>1, TakenPlaced
  <2>4. QED BY <2>2, <2>3 DEF Placed, Units
<1>10. CASE JudgeSweep \/ \E c \in Outputs : SweepFile(c)
  <2>1. /\ UNCHANGED <<t, only>> /\ pc = "sweep" /\ pc' \in {"sweep", "said"}
        /\ Tests[t].stage = "parse"
    BY <1>10 DEF JudgeSweep, SweepFile, Say, TypeInv, Located
  <2>2. QED BY <2>1 DEF Placed
<1>11. CASE UNCHANGED vars
  BY <1>11 DEF vars, stageVars, Placed, Units, Selected
<1>12. QED
  BY <1>1, <1>2, <1>3, <1>4, <1>5, <1>6, <1>7, <1>8, <1>9, <1>10, <1>11 DEF StagesNext

-----------------------------------------------------------------------------
(* What npkc showed of check units and of the sweep. *)

\* The sweep has been over the files before the rest: each was shown, no other was, and `bad` is
\* empty exactly while all of them parse.
Swept ==
  /\ EndOf(todo, Units)
  /\ \A k \in 1..(Len(Units) - Len(todo)) : \E x \in shown : x[1] = Units[k]
  /\ \A x \in shown : \E k \in 1..(Len(Units) - Len(todo)) : x[1] = Units[k]
  /\ bad = {} <=> \A x \in shown : Parses(x[2])

\* What the check half of StaleIsMet says.
StaleCheck ==
  pc = "said" /\ file # NotSeen /\ Expect[file].pending # NoMarker /\ Tests[t].stage = "check" =>
    (Said.detail = "stale" <=>
       /\ Listed(file) /\ Expect[file].readable /\ Expect[file].errors # {}
       /\ Expect[file].pending.observation = "accepted"
       /\ \E x \in shown : x[2].npkc = 1 /\ CodesMet(Expect[file], x[2].diagnostics))

\* Nothing is shown before a unit is taken, and a unit is at hand only once it is.
ShownInv ==
  /\ pc \in {"entry", "unit", "build", "floor", "runs", "judge"} => shown = {}
  /\ pc \in {"entry", "unit", "sweep"} => file = NotSeen
  /\ pc = "said" /\ Tests[t].stage = "parse" => file = NotSeen
  /\ pc = "sweep" => Swept
  /\ DiagnosticsOwed /\ StaleCheck

\* _codes_judged finds nothing to say exactly when the codes are those expected.
LEMMA CodesAgree == ASSUME NEW c, NEW e PROVE CodesJudged(c, e) <=> CodesMet(e, c.diagnostics)
<1> DEFINE got == {d[1] : d \in c.diagnostics}
           want == {x.code : x \in e.errors}
<1>1. (want \ got = {} /\ got \ want = {}) <=> got = want
  OBVIOUS
<1>2. CodesOf(c.diagnostics) = got
  BY DEF CodesOf
<1>3. QED BY <1>1, <1>2 DEF CodesJudged, CodesMet

\* A file is bad exactly when it does not parse.
LEMMA BadIsUnparsed ==
  ASSUME NEW c
  PROVE  (c.npkc \notin {0, 1} \/ {d[1] : d \in c.diagnostics} \cap FamilyCodes # {}) <=> ~Parses(c)
BY DEF Parses, CodesOf

\* A check unit refused is owed its FAIL, and is no stale marker.
LEMMA RefusedShown ==
  ASSUME TypeInv, ShownInv, RefuseProgram \/ RefuseCheck
  PROVE  ShownInv'
<1>1. PICK stage \in {"program", "check"} : Taken(stage) /\ (stage = "check" => RefuseCheck)
  BY DEF RefuseProgram, RefuseCheck
<1>2. /\ t \in DOMAIN Tests /\ Tests[t].stage = stage /\ pc = "unit" /\ file' = Head(todo)
  BY <1>1, TakenType DEF Taken
<1>3. pc' = "said" /\ Said'.verdict = "FAIL" /\ Said'.detail = ""
  BY SaidIs DEF RefuseProgram, RefuseCheck, TypeInv, TypeOK
<1>4. t' = t
  BY DEF RefuseProgram, RefuseCheck
<1>5. CASE stage = "check"
  <2>1. ~Expect[file'].readable \/ Expect[file'].errors = {}
    BY <1>1, <1>2, <1>5 DEF RefuseCheck
  <2>2. DiagnosticsOwed'
    BY <1>2, <1>3, <1>4, <1>5, <2>1 DEF DiagnosticsOwed, CheckVerdict
  <2>3. StaleCheck'
    BY <1>2, <1>3, <1>4, <1>5, <2>1 DEF StaleCheck
  <2>4. QED BY <1>2, <1>3, <1>4, <1>5, <2>2, <2>3 DEF ShownInv
<1>6. CASE stage = "program"
  <2>1. DiagnosticsOwed' /\ StaleCheck'
    BY <1>2, <1>4, <1>6 DEF DiagnosticsOwed, StaleCheck
  <2>2. QED BY <1>2, <1>3, <1>4, <1>6, <2>1 DEF ShownInv
<1>7. QED BY <1>5, <1>6

\* A check unit with no marker has the verdict the table gives for what npkc showed.
LEMMA CheckShown ==
  ASSUME TypeInv, ShownInv, NEW c \in Outputs, JudgeCheck(c)
  PROVE  ShownInv'
<1> DEFINE e == Expect[Head(todo)]
<1>1. /\ t \in DOMAIN Tests /\ Tests[t].stage = "check" /\ file' = Head(todo) /\ t' = t
  BY TakenType DEF JudgeCheck
<1>2. /\ e.readable /\ e.errors # {} /\ e.pending = NoMarker /\ shown' = {<<Head(todo), c>>}
      /\ Say(IF c.npkc = 1 /\ CodesJudged(c, e) THEN "PASS" ELSE "FAIL", Head(todo), "")
  BY DEF JudgeCheck
<1>3. /\ pc' = "said"
      /\ Said'.verdict = IF c.npkc = 1 /\ CodesJudged(c, e) THEN "PASS" ELSE "FAIL"
  BY <1>2, SaidIs DEF TypeInv, TypeOK
<1>4. Said'.verdict = CheckVerdict(e, c, Listed(Head(todo)))
  BY <1>2, <1>3, CodesAgree DEF CheckVerdict
<1>5. \A d \in Outputs : shown' = {} \/ <<file', d>> \in shown' => d = c
  BY <1>1, <1>2
<1>6. Listed(file)' = Listed(Head(todo))
  BY <1>1 DEF Listed, Key
<1>7. DiagnosticsOwed'
  BY <1>1, <1>4, <1>5, <1>6 DEF DiagnosticsOwed
<1>8. StaleCheck'
  BY <1>1, <1>2 DEF StaleCheck
<1>9. QED BY <1>1, <1>3, <1>7, <1>8 DEF ShownInv

\* A marked check unit too; its marker is stale only when npkc now says what is expected.
LEMMA CheckPendingShown ==
  ASSUME TypeInv, ShownInv, NEW c \in Outputs, JudgeCheckPending(c)
  PROVE  ShownInv'
<1> DEFINE f == Head(todo)
           e == Expect[f]
           admitted == e.pending.observation = "accepted" /\ Listed(f)
           met == c.npkc = 1 /\ CodesMet(e, c.diagnostics)
           silent == c.npkc = 0 /\ ~c.text
<1>1. /\ t \in DOMAIN Tests /\ Tests[t].stage = "check" /\ file' = f /\ t' = t
  BY TakenType DEF JudgeCheckPending
<1>2. e.readable /\ e.errors # {} /\ e.pending # NoMarker /\ shown' = {<<f, c>>}
  BY DEF JudgeCheckPending
<1>3. CodesJudged(c, e) <=> CodesMet(e, c.diagnostics)
  BY CodesAgree
<1>4. \/ ~admitted /\ Say("FAIL", f, "unlisted")
      \/ admitted /\ silent /\ Say("PEND", f, "")
      \/ admitted /\ met /\ Say("FAIL", f, "stale")
      \/ admitted /\ ~silent /\ ~met /\ Say("FAIL", f, "different")
  BY <1>3 DEF JudgeCheckPending, Listed
<1>5. verdicts \in Seq(Verdict)
  BY DEF TypeInv, TypeOK
<1>6. /\ pc' = "said"
      /\ \/ ~admitted /\ Said'.verdict = "FAIL" /\ Said'.detail = "unlisted"
         \/ admitted /\ silent /\ Said'.verdict = "PEND" /\ Said'.detail = ""
         \/ admitted /\ met /\ Said'.verdict = "FAIL" /\ Said'.detail = "stale"
         \/ admitted /\ ~silent /\ ~met /\ Said'.verdict = "FAIL" /\ Said'.detail = "different"
  <2> HIDE DEF admitted, met, silent, f
  <2>1. QED BY <1>4, <1>5, SaidIs
<1>7. ~(silent /\ met)
  OBVIOUS
<1>8. Said'.detail = "stale" <=> admitted /\ met
  <2> HIDE DEF admitted, met, silent
  <2>1. QED BY <1>6, <1>7
<1>9. Said'.verdict = CheckVerdict(e, c, Listed(f))
  <2>1. CheckVerdict(e, c, Listed(f)) = IF admitted /\ silent THEN "PEND" ELSE "FAIL"
    BY <1>2 DEF CheckVerdict
  <2> HIDE DEF admitted, met, silent, e, f
  <2>2. QED BY <1>6, <1>7, <2>1
<1>10. Listed(file)' = Listed(f)
  BY <1>1 DEF Listed, Key
<1>11. DiagnosticsOwed'
  <2>1. \A d \in Outputs : shown' = {} \/ <<file', d>> \in shown' => d = c
    BY <1>1, <1>2
  <2>2. QED BY <1>1, <1>9, <1>10, <2>1 DEF DiagnosticsOwed
<1>12. StaleCheck'
  <2>1. (\E x \in shown' : x[2].npkc = 1 /\ CodesMet(e, x[2].diagnostics)) <=> met
    BY <1>2
  <2>2. QED BY <1>1, <1>2, <1>8, <1>10, <2>1 DEF StaleCheck
<1>13. QED BY <1>1, <1>6, <1>11, <1>12 DEF ShownInv

\* One file more of the sweep.
LEMMA SweptOn ==
  ASSUME TypeInv, ShownInv, NEW c \in Outputs, SweepFile(c)
  PROVE  ShownInv'
<1>1. /\ pc = "sweep" /\ todo # <<>> /\ pc' = "sweep" /\ t' = t /\ file' = file
      /\ todo' = Tail(todo) /\ shown' = shown \cup {<<Head(todo), c>>} /\ t \in DOMAIN Tests
  BY DEF SweepFile, TypeInv, Located
<1>2. todo \in Seq(Files) /\ Units \in Seq(Files) /\ Units' = Units
  BY <1>1, TestsType DEF TypeInv, TypeOK, Units
<1>3. Swept
  BY <1>1 DEF ShownInv
<1>4. /\ EndOf(todo', Units) /\ Len(todo') = Len(todo) - 1 /\ Len(todo) \in 1..Len(Units)
      /\ Len(Units) \in Nat /\ Head(todo) = Units[Len(Units) - Len(todo) + 1]
  BY <1>1, <1>2, <1>3, EndTail DEF Swept
<1> DEFINE n == Len(Units) - Len(todo)
<1>5. n \in Nat /\ Len(Units) - Len(todo') = n + 1 /\ Head(todo) = Units[n + 1]
  BY <1>4
<1> HIDE DEF n
<1>6. \A k \in 1..(n + 1) : \E x \in shown' : x[1] = Units[k]
  <2> TAKE k \in 1..(n + 1)
  <2>1. CASE k = n + 1
    <3>1. <<Head(todo), c>> \in shown' /\ <<Head(todo), c>>[1] = Units[k]
      BY <1>1, <1>5, <2>1
    <3>2. QED BY <3>1
  <2>2. CASE k \in 1..n
    BY <1>1, <1>3, <2>2 DEF Swept, n
  <2>3. QED BY <1>5, <2>1, <2>2
<1>7. \A x \in shown' : \E k \in 1..(n + 1) : x[1] = Units[k]
  <2> TAKE x \in shown'
  <2>1. CASE x \in shown
    <3>1. PICK k \in 1..n : x[1] = Units[k]
      BY <1>3, <2>1 DEF Swept, n
    <3>2. k \in 1..(n + 1)
      BY <1>5
    <3>3. QED BY <3>1, <3>2
  <2>2. CASE x = <<Head(todo), c>>
    <3>1. x[1] = Units[n + 1] /\ n + 1 \in 1..(n + 1)
      BY <1>5, <2>2
    <3>2. QED BY <3>1
  <2>3. QED BY <1>1, <2>1, <2>2
<1>8. bad' = {} <=> \A x \in shown' : Parses(x[2])
  <2>1. bad' = IF Parses(c) THEN bad ELSE bad \cup {Head(todo)}
    BY BadIsUnparsed DEF SweepFile
  <2>2. bad = {} <=> \A x \in shown : Parses(x[2])
    BY <1>3 DEF Swept
  <2>3. (\A x \in shown' : Parses(x[2])) <=> (\A x \in shown : Parses(x[2])) /\ Parses(c)
    <3>1. <<Head(todo), c>> \in shown' /\ <<Head(todo), c>>[2] = c /\ shown \subseteq shown'
      BY <1>1
    <3>2. \A x \in shown' : x \in shown \/ x[2] = c
      BY <1>1
    <3>3. QED BY <3>1, <3>2
  <2>4. bad' = {} <=> bad = {} /\ Parses(c)
    BY <2>1
  <2>5. QED BY <2>2, <2>3, <2>4
<1>9. Swept'
  BY <1>1, <1>2, <1>4, <1>5, <1>6, <1>7, <1>8 DEF Swept
<1>10. QED BY <1>1, <1>9 DEF ShownInv, DiagnosticsOwed, StaleCheck

\* The sweep's verdict is that every file of its entry was shown to parse.
LEMMA SweepShown ==
  ASSUME TypeInv, ShownInv, JudgeSweep
  PROVE  ShownInv'
<1>1. /\ pc = "sweep" /\ todo = <<>> /\ t \in DOMAIN Tests /\ Tests[t].stage = "parse"
      /\ UNCHANGED <<t, file, shown, bad>> /\ file = NotSeen
  BY DEF JudgeSweep, TypeInv, Located, ShownInv
<1>2. pc' = "said" /\ Said'.verdict = IF bad = {} THEN "PASS" ELSE "FAIL"
  BY SaidIs DEF JudgeSweep, TypeInv, TypeOK
<1>3. Units \in Seq(Files) /\ DOMAIN Units = 1..Len(Units) /\ Len(Units) \in Nat
  BY <1>1, TestsType DEF Units
<1>4. Len(Units) - Len(todo) = Len(Units)
  BY <1>1, <1>3
<1>5. /\ \A k \in DOMAIN Units : \E x \in shown : x[1] = Units[k]
      /\ \A x \in shown : \E k \in DOMAIN Units : x[1] = Units[k]
      /\ bad = {} <=> \A x \in shown : Parses(x[2])
  BY <1>1, <1>3, <1>4 DEF ShownInv, Swept
<1>6. bad = {} <=> \A k \in DOMAIN Units :
                     /\ \E x \in shown : x[1] = Units[k]
                     /\ \A x \in shown : x[1] = Units[k] => Parses(x[2])
  BY <1>5
<1>7. DiagnosticsOwed'
  BY <1>1, <1>2, <1>6 DEF DiagnosticsOwed, Units
<1>8. QED BY <1>1, <1>2, <1>7 DEF ShownInv, StaleCheck

\* Every step keeps it.
LEMMA ShownStep == TypeInv /\ ShownInv /\ [StagesNext]_vars => ShownInv'
<1> SUFFICES ASSUME TypeInv, ShownInv, [StagesNext]_vars PROVE ShownInv'
  OBVIOUS
<1>1. CASE OpenSweep
  <2>1. CASE only = NoFilter
    <3>1. /\ pc' = "sweep" /\ t' = t /\ todo' = Units /\ bad' = {} /\ shown' = {} /\ file' = NotSeen
          /\ t \in DOMAIN Tests
      BY <1>1, <2>1 DEF OpenSweep, ShownInv, Units
    <3>2. Units \in Seq(Files) /\ Units' = Units
      BY <3>1, TestsType DEF Units
    <3>3. EndOf(Units, Units) /\ Len(Units) - Len(Units) = 0 /\ 1..0 = {}
      BY <3>2, EndWhole
    <3>4. Swept'
      BY <3>1, <3>2, <3>3 DEF Swept
    <3>5. QED BY <3>1, <3>4 DEF ShownInv, DiagnosticsOwed, StaleCheck
  <2>2. CASE only # NoFilter
    BY <1>1, <2>2 DEF OpenSweep, ShownInv, DiagnosticsOwed, StaleCheck
  <2>3. QED BY <2>1, <2>2
<1>2. CASE OpenSuite \/ MissingDirectory \/ NextUnit \/ LeaveOut \/ EndSuite \/ EndStages
  <2>1. /\ pc' \in {"unit", "crashed", "entry", "done"}
        /\ pc' \in {"unit", "entry"} => shown' = {} /\ file' = NotSeen
    BY <1>2 DEF OpenSuite, MissingDirectory, NextUnit, LeaveOut, EndSuite, EndStages, ShownInv
  <2>2. QED BY <2>1 DEF ShownInv, DiagnosticsOwed, StaleCheck
<1>3. CASE BuildProgram \/ BuildOn \/ NotBuilt \/ (\E edge \in BOOLEAN : Scan(edge))
           \/ (\E x \in RunExits : FloorOk(x) \/ Run(x))
  <2>1. pc' \in {"build", "floor", "runs", "judge"} /\ shown' = {}
    BY <1>3 DEF BuildProgram, Taken, BuildOn, NotBuilt, Scan, FloorOk, Run, stageVars, ShownInv
  <2>2. QED BY <2>1 DEF ShownInv, DiagnosticsOwed, StaleCheck
<1>4. CASE Judge \/ JudgeUnlisted \/ JudgePending
  <2>1. pc' = "said" /\ t' = t /\ Tests[t].stage = "program"
    BY <1>4 DEF Judge, JudgeUnlisted, JudgePending, Say, TypeInv, Located
  <2>2. QED BY <2>1 DEF ShownInv, DiagnosticsOwed, StaleCheck
<1>5. CASE UNCHANGED vars
  <2>1. UNCHANGED <<pc, t, todo, file, bad, shown, verdicts>>
    BY <1>5 DEF vars, stageVars
  <2>2. QED
    BY <2>1 DEF ShownInv, Swept, DiagnosticsOwed, StaleCheck, Said, Listed, Key, EndOf, Units
<1>6. QED
  BY <1>1, <1>2, <1>3, <1>4, <1>5, RefusedShown, CheckShown, CheckPendingShown, SweptOn, SweepShown
  DEF StagesNext

LEMMA ShownInvariant == StagesSpec => []ShownInv
<1>1. StagesInit => ShownInv
  BY DEF StagesInit, ShownInv, DiagnosticsOwed, StaleCheck
<1>2. QED BY <1>1, ShownStep, TypeInvariant, PTL DEF StagesSpec

\* The verdict on a check unit is the one its expectation is owed for what npkc printed, and the
\* sweep passes exactly when every file of its entry was shown to parse.
THEOREM DiagnosticsAreOwed == StagesSpec => []DiagnosticsOwed
BY ShownInvariant, PTL DEF ShownInv

\* A marker is called stale exactly when its unit, a program or a check, meets all it expects.
THEOREM StaleMarkersAreMet == StagesSpec => []StaleIsMet
<1>1. TypeInv /\ ShownInv /\ StaleProgram => StaleIsMet
  <2> SUFFICES ASSUME TypeInv, ShownInv, StaleProgram, pc = "said", file # NotSeen,
                      Expect[file].pending # NoMarker
               PROVE  Said.detail = "stale" <=>
                        /\ Listed(file) /\ Expect[file].readable
                        /\ \/ /\ Tests[t].stage = "program" /\ Expect[file].errors = {}
                              /\ ProgramMet(Expect[file], obs, FloorUnder(Expect[file]))
                           \/ /\ Tests[t].stage = "check" /\ Expect[file].errors # {}
                              /\ Expect[file].pending.observation = "accepted"
                              /\ \E x \in shown : x[2].npkc = 1 /\ CodesMet(Expect[file], x[2].diagnostics)
    BY DEF StaleIsMet
  <2>1. Tests[t].stage \in {"program", "check"}
    BY TestsType DEF TypeInv, Located, ShownInv
  <2>2. CASE Tests[t].stage = "program"
    BY <2>2 DEF StaleProgram
  <2>3. CASE Tests[t].stage = "check"
    BY <2>3 DEF ShownInv, StaleCheck
  <2>4. QED BY <2>1, <2>2, <2>3
<1>2. IInv => StaleProgram
  BY DEF IInv
<1>3. QED BY <1>1, <1>2, TypeInvariant, IInvariant, ShownInvariant, PTL

-----------------------------------------------------------------------------
(* Each step is one of Judgement's. *)

LEMMA MarkedIs ==
  ASSUME NEW f \in Files
  PROVE  /\ J!Marked(f) <=> Expect[f].pending # NoMarker
         /\ Expect[f].pending # NoMarker => KeyOf[f] = Key(f)
         /\ J!Reviewed(f) <=> Expect[f].pending # NoMarker /\ Key(f) \in PendingList
<1>1. Expect[f].pending \in Marker \cup {NoMarker}
  BY ExpectType DEF Expectation
<1>2. f # NotSeen
  BY StagesAssumption
<1>3. CASE Expect[f].pending = NoMarker
  BY <1>3 DEF J!Marked, J!Reviewed, KeyOf
<1>4. CASE Expect[f].pending # NoMarker
  <2>1. Key(f) \in Keys
    BY <1>1, <1>4 DEF Key, Keys
  <2>2. KeyOf[f] = Key(f) /\ KeyOf[f] # NotSeen
    BY <1>4, <2>1, StagesAssumption DEF KeyOf
  <2>3. QED BY <1>2, <1>4, <2>2 DEF J!Marked, J!Reviewed
<1>5. QED BY <1>3, <1>4

\* The verdicts with one more, read from the history.
LEMMA AppendIs ==
  ASSUME NEW S, NEW s \in Seq(S), NEW y \in S
  PROVE  Append(s, y) = [i \in 1..(Len(s) + 1) |-> IF i = Len(s) + 1 THEN y ELSE s[i]]
<1> DEFINE n == Len(s)
           f == [i \in 1..(n + 1) |-> IF i = n + 1 THEN y ELSE s[i]]
           a == Append(s, y)
<1>1. n \in Nat /\ \A i \in 1..n : s[i] \in S
  OBVIOUS
<1>2. a \in Seq(S) /\ Len(a) = n + 1 /\ a[n + 1] = y /\ \A i \in 1..n : a[i] = s[i]
  OBVIOUS
<1> HIDE DEF a, n
<1>3. f \in Seq(S) /\ Len(f) = n + 1
  BY <1>1
<1>4. \A i \in 1..(n + 1) : a[i] = f[i]
  BY <1>1, <1>2
<1> HIDE DEF f
<1>5. a = f
  BY <1>1, <1>2, <1>3, <1>4, SeqEqual
<1>6. QED BY <1>5 DEF a, f, n

\* A verdict that keeps the rules of the list is one Judgement gives.
LEMMA SayGives ==
  ASSUME TypeInv, NEW f \in Files \cup {NotSeen}, NEW v \in {"PASS", "FAIL", "PEND"}, NEW d, Say(v, f, d),
         \/ pending_seen' = pending_seen /\ (v = "FAIL" \/ (v = "PASS" /\ ~J!Marked(f)))
         \/ /\ f \in Files /\ Expect[f].pending # NoMarker /\ Key(f) \in PendingList
            /\ See(f) /\ v \in {"FAIL", "PEND"}
  PROVE  J!Give(f, v)
<1>1. Judged' = Append(Judged, [verdict |-> v, test |-> t, unit |-> f])
  <2> DEFINE x == [verdict |-> v, test |-> t, unit |-> f, detail |-> d]
             y == [verdict |-> v, test |-> t, unit |-> f]
             n == Len(verdicts)
             Of(z) == [verdict |-> z.verdict, test |-> z.test, unit |-> z.unit]
  <2>1. verdicts' = Append(verdicts, x) /\ verdicts \in Seq(Verdict)
    BY DEF Say, TypeInv, TypeOK
  <2>2. Of(x) = y
    OBVIOUS
  <2> HIDE DEF x, y
  <2>3. /\ n \in Nat /\ DOMAIN verdicts = 1..n /\ DOMAIN verdicts' = 1..(n + 1)
        /\ \A i \in 1..n : verdicts'[i] = verdicts[i]
        /\ verdicts'[n + 1] = x
    BY <2>1
  <2>4. /\ Judged = [i \in 1..n |-> Of(verdicts[i])]
        /\ Judged' = [i \in 1..(n + 1) |-> Of(verdicts'[i])]
    BY <2>3 DEF Judged
  <2> HIDE DEF Of, n
  <2>5. Judged' = [i \in 1..(n + 1) |-> IF i = n + 1 THEN y ELSE Judged[i]]
    BY <2>2, <2>3, <2>4
  <2>6. Append(Judged, y) = [i \in 1..(n + 1) |-> IF i = n + 1 THEN y ELSE Judged[i]]
    <3>1. Judged \in Seq({Of(verdicts[i]) : i \in 1..n} \cup {y}) /\ Len(Judged) = n
          /\ y \in {Of(verdicts[i]) : i \in 1..n} \cup {y}
      BY <2>3, <2>4
    <3>2. QED BY <3>1, AppendIs
  <2>7. QED BY <2>5, <2>6 DEF y
<1>2. \/ v = "FAIL" /\ pending_seen' = pending_seen
      \/ v = "FAIL" /\ J!Reviewed(f) /\ pending_seen' = pending_seen \cup {KeyOf[f]}
      \/ v = "PASS" /\ ~J!Marked(f) /\ pending_seen' = pending_seen
      \/ v = "PEND" /\ J!Reviewed(f) /\ pending_seen' = pending_seen \cup {KeyOf[f]}
  BY MarkedIs DEF See
<1>3. QED BY <1>1, <1>2 DEF J!Give

\* A step that judges nothing and stays at its unit is a stutter.
LEMMA StillIs ==
  ASSUME UNCHANGED <<only, t, pending_seen, verdicts>>, Position' = Position
  PROVE  UNCHANGED J!judgementVars
BY DEF J!judgementVars, Judged

\* A step that leaves an entry.
LEMMA NextEntryIs ==
  ASSUME t \in DOMAIN Tests, Position = Len(J!Subjects(Tests[t])), t' = t + 1, Position' = 0,
         UNCHANGED <<only, pending_seen, verdicts>>
  PROVE  J!NextEntry
BY DEF J!NextEntry, Judged

\* A verdict on the entry's next subject.
LEMMA JudgeNextIs ==
  ASSUME t \in DOMAIN Tests, NEW f, NEW v \in {"PASS", "FAIL", "PEND"}, J!Give(f, v),
         Position < Len(J!Subjects(Tests[t])), J!Subjects(Tests[t])[Position + 1] = f,
         J!Selected(f), Position' = Position + 1, UNCHANGED <<only, t>>
  PROVE  J!JudgeNext
<1>1. J!Subject = f
  BY DEF J!Subject
<1>2. QED BY <1>1 DEF J!JudgeNext, J!Reached

\* What a suite judges is its units.
LEMMA SuiteSubjects == t \in DOMAIN Tests /\ Tests[t].stage # "parse" => J!Subjects(Tests[t]) = Units
BY DEF J!Subjects, Units

\* The steps that open, pass over and leave.
LEMMA EntrySimulated ==
  ASSUME TypeInv, Placed, OpenSuite \/ MissingDirectory \/ OpenSweep \/ LeaveOut \/ EndSuite \/ EndStages
  PROVE  [J!JudgementNext]_(J!judgementVars)
<1>1. CASE OpenSuite
  <2>1. /\ pc = "entry" /\ pc' = "unit" /\ t' = t /\ todo' = Units
        /\ UNCHANGED <<only, t, pending_seen, verdicts>> /\ Len(Units) \in Nat
    BY <1>1, TestsType DEF OpenSuite, Units
  <2>2. Position = 0 /\ Position' = Len(Units) - Len(Units)
    BY <2>1 DEF Position, Units
  <2>3. QED BY <2>1, <2>2, StillIs
<1>2. CASE MissingDirectory \/ EndStages
  <2>1. pc = "entry" /\ pc' \in {"crashed", "done"} /\ UNCHANGED <<only, t, pending_seen, verdicts>>
    BY <1>2 DEF MissingDirectory, EndStages
  <2>2. Position = 0 /\ Position' = 0
    BY <2>1 DEF Position
  <2>3. QED BY <2>1, <2>2, StillIs
<1>3. CASE OpenSweep
  <2>1. /\ pc = "entry" /\ t \in DOMAIN Tests /\ Tests[t].stage = "parse"
        /\ UNCHANGED <<only, pending_seen, verdicts>>
        /\ \/ only = NoFilter /\ pc' = "sweep" /\ t' = t
           \/ only # NoFilter /\ pc' = pc /\ t' = t + 1
    BY <1>3 DEF OpenSweep
  <2>2. Position = 0 /\ Position' = 0
    BY <2>1 DEF Position
  <2>3. only # NoFilter => Len(J!Subjects(Tests[t])) = 0
    BY <2>1 DEF J!Subjects
  <2>4. QED BY <2>1, <2>2, <2>3, StillIs, NextEntryIs DEF J!JudgementNext
<1>4. CASE LeaveOut
  <2>1. /\ pc = "unit" /\ pc' = "unit" /\ t' = t /\ todo # <<>> /\ todo' = Tail(todo)
        /\ t \in DOMAIN Tests /\ Tests[t].stage # "parse" /\ ~Selected(Head(todo))
        /\ UNCHANGED <<only, pending_seen, verdicts>>
    BY <1>4 DEF LeaveOut, TypeInv, Located
  <2>2. todo \in Seq(Files) /\ Units \in Seq(Files) /\ EndOf(todo, Units)
    BY <2>1, TestsType DEF TypeInv, TypeOK, Placed, Units
  <2>3. /\ Len(todo') = Len(todo) - 1 /\ Len(todo) \in 1..Len(Units) /\ Len(Units) \in Nat
        /\ Head(todo) = Units[Len(Units) - Len(todo) + 1] /\ Head(todo) \in Files
    BY <2>1, <2>2, EndTail, SeqStays
  <2>4. Position = Len(Units) - Len(todo) /\ Position' = Len(Units) - Len(todo')
    BY <2>1 DEF Position, Units
  <2>5. J!Subject = Head(todo)
    BY <2>1, <2>3, <2>4, SuiteSubjects DEF J!Subject
  <2>6. ~J!Selected(Head(todo))
    BY <2>1, <2>3, StagesAssumption DEF J!Selected, Selected
  <2>7. J!Reached
    BY <2>1, <2>3, <2>4, SuiteSubjects DEF J!Reached
  <2>8. Position' = Position + 1
    BY <2>3, <2>4
  <2>9. J!PassOver
    BY <2>1, <2>5, <2>6, <2>7, <2>8 DEF J!PassOver, Judged
  <2>10. QED BY <2>9 DEF J!JudgementNext
<1>5. CASE EndSuite
  <2>1. /\ pc = "unit" /\ pc' = "entry" /\ t' = t + 1 /\ todo = <<>>
        /\ t \in DOMAIN Tests /\ Tests[t].stage # "parse" /\ Len(Units) \in Nat
        /\ UNCHANGED <<only, pending_seen, verdicts>>
    BY <1>5, TestsType DEF EndSuite, TypeInv, Located, Units
  <2>2. Position = Len(Units) /\ Position' = 0
    BY <2>1 DEF Position, Units
  <2>3. J!NextEntry
    BY <2>1, <2>2, SuiteSubjects, NextEntryIs
  <2>4. QED BY <2>3 DEF J!JudgementNext
<1>6. QED BY <1>1, <1>2, <1>3, <1>4, <1>5

\* The steps that go to the next unit, build, scan and run.
LEMMA BuildSimulated ==
  ASSUME TypeInv, Placed,
         \/ NextUnit \/ BuildProgram \/ BuildOn \/ NotBuilt \/ (\E edge \in BOOLEAN : Scan(edge))
         \/ \E x \in RunExits : FloorOk(x) \/ Run(x)
  PROVE  [J!JudgementNext]_(J!judgementVars)
<1>1. CASE NextUnit
  <2>1. /\ pc = "said" /\ t \in DOMAIN Tests /\ UNCHANGED <<only, todo, pending_seen, verdicts>>
        /\ \/ Tests[t].stage = "parse" /\ pc' = "entry" /\ t' = t + 1
           \/ Tests[t].stage # "parse" /\ pc' = "unit" /\ t' = t
    BY <1>1 DEF NextUnit, TypeInv, Located
  <2>2. CASE Tests[t].stage = "parse"
    <3>1. only = NoFilter
      BY <2>1, <2>2 DEF Placed
    <3>2. Position = 1 /\ Position' = 0 /\ Len(J!Subjects(Tests[t])) = 1
      BY <2>1, <2>2, <3>1 DEF Position, J!Subjects
    <3>3. QED BY <2>1, <2>2, <3>2, NextEntryIs DEF J!JudgementNext
  <2>3. CASE Tests[t].stage # "parse"
    <3>1. Position' = Position
      BY <2>1, <2>3 DEF Position
    <3>2. QED BY <2>1, <2>3, <3>1, StillIs
  <2>4. QED BY <2>2, <2>3
<1>2. CASE BuildProgram
  <2>1. /\ pc' = "build" /\ UNCHANGED <<only, t, pending_seen, verdicts>> /\ Taken("program")
    BY <1>2 DEF BuildProgram
  <2>2. /\ pc = "unit" /\ Len(todo') = Len(todo) - 1 /\ Len(todo) \in 1..Len(Units)
        /\ Len(Units) \in Nat
    BY <2>1, TakenPlaced
  <2>3. Position = Len(Units) - Len(todo) /\ Position' = Len(Units) - Len(todo') - 1
    BY <2>1, <2>2 DEF Position, Units
  <2>4. Position' = Position
    BY <2>2, <2>3
  <2>5. QED BY <2>1, <2>4, StillIs
<1>3. CASE BuildOn \/ NotBuilt \/ (\E edge \in BOOLEAN : Scan(edge))
           \/ (\E x \in RunExits : FloorOk(x) \/ Run(x))
  <2>1. /\ UNCHANGED <<todo, only, t, pending_seen, verdicts>> /\ pc \in {"build", "floor", "runs"}
        /\ pc' \in {"build", "floor", "runs", "judge"}
    BY <1>3 DEF BuildOn, NotBuilt, Scan, FloorOk, Run, stageVars
  <2>2. Position' = Position
    BY <2>1 DEF Position
  <2>3. QED BY <2>1, <2>2, StillIs
<1>4. QED BY <1>1, <1>2, <1>3

\* The verdicts on a program that was built, or was not.
LEMMA JudgeSimulated ==
  ASSUME TypeInv, Placed, Judge \/ JudgeUnlisted \/ JudgePending
  PROVE  [J!JudgementNext]_(J!judgementVars)
<1>1. /\ UNCHANGED <<todo, only, t>> /\ pc = "judge" /\ pc' = "said"
      /\ t \in DOMAIN Tests /\ Tests[t].stage # "parse" /\ file \in Files
  BY DEF Judge, JudgeUnlisted, JudgePending, Say, TypeInv, Located
<1>2. /\ Len(todo) \in Nat /\ Len(Units) \in Nat /\ Len(todo) < Len(Units)
      /\ file = Units[Len(Units) - Len(todo)] /\ Selected(file)
  BY <1>1, TestsType DEF TypeInv, TypeOK, Placed, Units
<1>3. PICK v \in {"PASS", "FAIL", "PEND"} : J!Give(file, v)
  <2>1. CASE Judge
    <3>1. /\ Expect[file].pending = NoMarker /\ UNCHANGED pending_seen
          /\ \E v \in {"PASS", "FAIL"} : Say(v, file, "")
      BY <2>1 DEF Judge
    <3>2. ~J!Marked(file)
      BY <1>1, <3>1, MarkedIs
    <3>3. QED BY <1>1, <3>1, <3>2, SayGives
  <2>2. CASE JudgeUnlisted
    BY <1>1, <2>2, SayGives DEF JudgeUnlisted
  <2>3. CASE JudgePending
    <3>1. /\ Expect[file].pending # NoMarker /\ Key(file) \in PendingList /\ See(file)
          /\ \E v \in {"FAIL", "PEND"}, d \in {"", "found", "stale", "different"} : Say(v, file, d)
      BY <2>3 DEF JudgePending
    <3>2. QED BY <1>1, <3>1, SayGives
  <2>4. QED BY <2>1, <2>2, <2>3
<1>4. Position = Len(Units) - Len(todo) - 1 /\ Position' = Len(Units) - Len(todo)
  BY <1>1 DEF Position, Units
<1>5. J!Selected(file)
  BY <1>2 DEF J!Selected, Selected
<1>6. /\ Position < Len(Units) /\ Position' = Position + 1 /\ Units[Position + 1] = file
  BY <1>2, <1>4
<1>7. J!JudgeNext
  BY <1>1, <1>3, <1>5, <1>6, SuiteSubjects, JudgeNextIs
<1>8. QED BY <1>7 DEF J!JudgementNext

\* The verdicts given without a build: a unit refused, and a check unit.
LEMMA CheckSimulated ==
  ASSUME TypeInv, Placed,
         \/ RefuseProgram \/ RefuseCheck
         \/ \E c \in Outputs : JudgeCheck(c) \/ JudgeCheckPending(c)
  PROVE  [J!JudgementNext]_(J!judgementVars)
<1> DEFINE f == Head(todo)
<1>1. PICK stage \in {"program", "check"} : Taken(stage)
  BY DEF RefuseProgram, RefuseCheck, JudgeCheck, JudgeCheckPending
<1>2. UNCHANGED <<only, t>> /\ pc' = "said"
  BY DEF RefuseProgram, RefuseCheck, JudgeCheck, JudgeCheckPending, Say
<1>3. /\ t \in DOMAIN Tests /\ Tests[t].stage # "parse" /\ pc = "unit"
      /\ f \in Files /\ Selected(f) /\ Len(todo') = Len(todo) - 1
      /\ Len(todo) \in 1..Len(Units) /\ Len(Units) \in Nat
      /\ f = Units[Len(Units) - Len(todo) + 1]
  BY <1>1, TakenPlaced
<1>4. PICK v \in {"PASS", "FAIL", "PEND"} : J!Give(f, v)
  <2>1. CASE RefuseProgram \/ RefuseCheck
    <3>1. Say("FAIL", f, "") /\ UNCHANGED pending_seen
      BY <2>1 DEF RefuseProgram, RefuseCheck
    <3>2. QED BY <1>3, <3>1, SayGives
  <2>2. ASSUME NEW c \in Outputs, JudgeCheck(c) PROVE \E v \in {"PASS", "FAIL", "PEND"} : J!Give(f, v)
    <3>1. /\ Expect[f].pending = NoMarker /\ UNCHANGED pending_seen
          /\ \E v \in {"PASS", "FAIL"} : Say(v, f, "")
      BY <2>2 DEF JudgeCheck
    <3>2. ~J!Marked(f)
      BY <1>3, <3>1, MarkedIs
    <3> HIDE DEF f
    <3>3. QED BY <1>3, <3>1, <3>2, SayGives
  <2>3. ASSUME NEW c \in Outputs, JudgeCheckPending(c)
        PROVE  \E v \in {"PASS", "FAIL", "PEND"} : J!Give(f, v)
    <3>1. \/ UNCHANGED pending_seen /\ Say("FAIL", f, "unlisted")
          \/ /\ Expect[f].pending # NoMarker /\ Key(f) \in PendingList /\ See(f)
             /\ \E v \in {"FAIL", "PEND"}, d \in {"", "stale", "different"} : Say(v, f, d)
      BY <2>3 DEF JudgeCheckPending
    <3> HIDE DEF f
    <3>2. QED BY <1>3, <3>1, SayGives
  <2>4. QED BY <2>1, <2>2, <2>3
<1>5. Position = Len(Units) - Len(todo) /\ Position' = Len(Units) - Len(todo')
  BY <1>2, <1>3 DEF Position, Units
<1>6. J!Selected(f)
  BY <1>3 DEF J!Selected, Selected
<1> HIDE DEF f
<1>7. /\ Position < Len(Units) /\ Position' = Position + 1 /\ Units[Position + 1] = f
  BY <1>3, <1>5
<1>8. J!JudgeNext
  BY <1>2, <1>3, <1>4, <1>6, <1>7, SuiteSubjects, JudgeNextIs
<1>9. QED BY <1>8 DEF J!JudgementNext

\* The sweep.
LEMMA SweepSimulated ==
  ASSUME TypeInv, Placed, JudgeSweep \/ \E c \in Outputs : SweepFile(c)
  PROVE  [J!JudgementNext]_(J!judgementVars)
<1>1. /\ UNCHANGED <<t, only, pending_seen>> /\ pc = "sweep" /\ only = NoFilter
      /\ t \in DOMAIN Tests /\ Tests[t].stage = "parse"
  BY DEF JudgeSweep, SweepFile, TypeInv, Located, Placed
<1>2. CASE \E c \in Outputs : SweepFile(c)
  <2>1. pc' = "sweep" /\ UNCHANGED verdicts
    BY <1>2 DEF SweepFile
  <2>2. Position = 0 /\ Position' = 0
    BY <1>1, <2>1 DEF Position
  <2>3. QED BY <1>1, <2>1, <2>2, StillIs
<1>3. CASE JudgeSweep
  <2>1. PICK v \in {"PASS", "FAIL"} : Say(v, NotSeen, "")
    BY <1>3 DEF JudgeSweep
  <2>2. J!Give(NotSeen, v)
    BY <1>1, <2>1, SayGives DEF J!Marked
  <2>3. pc' = "said"
    BY <2>1 DEF Say
  <2>4. Position = 0 /\ Position' = 1 /\ J!Subjects(Tests[t]) = <<NotSeen>>
    BY <1>1, <2>3 DEF Position, J!Subjects
  <2>5. J!JudgeNext
    BY <1>1, <2>2, <2>4, JudgeNextIs DEF J!Selected
  <2>6. QED BY <2>5 DEF J!JudgementNext
<1>4. QED BY <1>2, <1>3

\* Every step is one of Judgement's, or a stutter.
LEMMA Simulated == TypeInv /\ Placed /\ [StagesNext]_vars => [J!JudgementNext]_(J!judgementVars)
<1> SUFFICES ASSUME TypeInv, Placed, [StagesNext]_vars PROVE [J!JudgementNext]_(J!judgementVars)
  OBVIOUS
<1>1. CASE UNCHANGED vars
  <2>1. UNCHANGED <<pc, todo, only, t, pending_seen, verdicts>>
    BY <1>1 DEF vars, stageVars
  <2>2. Position' = Position
    BY <2>1 DEF Position
  <2>3. QED BY <2>1, <2>2, StillIs
<1>2. CASE StagesNext
  BY <1>2, EntrySimulated, BuildSimulated, JudgeSimulated, CheckSimulated, SweepSimulated
  DEF StagesNext
<1>3. QED BY <1>1, <1>2

\* stages.py keeps Judgement's promise, for every manifest and whatever the toolchain does: each unit
\* that --only selects has one verdict, in the manifest's order, a marked unit never passes, and none
\* is excused that the reviewed list does not have.
THEOREM SuitesImplementJudgement == StagesSpec => JudgesInOrder
<1>1. StagesInit => Placed /\ J!JudgementInit
  <2> SUFFICES ASSUME StagesInit PROVE Placed /\ J!JudgementInit
    OBVIOUS
  <2>1. pc = "entry" /\ verdicts = <<>> /\ t = 1 /\ pending_seen = {}
    BY DEF StagesInit
  <2>2. Position = 0 /\ Judged = <<>>
    BY <2>1 DEF Position, Judged
  <2>3. QED BY <2>1, <2>2 DEF Placed, J!JudgementInit
<1>2. QED
  BY <1>1, PlacedStep, Simulated, TypeInvariant, PTL DEF StagesSpec, JudgesInOrder, J!JudgementSpec
=============================================================================
