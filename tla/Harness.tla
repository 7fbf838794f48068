------------------------------ MODULE Harness ------------------------------
(***************************************************************************)
(* harness/run.py: one run of the harness, from its arguments to its exit  *)
(* status -- the order of its steps, the ones an `--only` run leaves out,  *)
(* the early returns, and the exceptions nothing catches.  The suites are  *)
(* Judgement's, which Stages.tla shows to be what stages.py does; the      *)
(* self-check of selfcheck.py is one step over its live cases.             *)
(*                                                                         *)
(* `failures` is the list main() accumulates, as a set of what its entries *)
(* are about; `observed` is a history of what each obligation of a run     *)
(* turned out to be, which no guard reads.                                 *)
(***************************************************************************)
EXTENDS Judgement, FiniteSets

CONSTANTS
  Filters,      \* the file sets an --only can select
  LiveCases,    \* the live cases of selfcheck.cases
  Modules,      \* the modules under src/
  Roots,        \* the roots repro compiles twice
  TreeChecks,   \* treecheck.ALL, in order
  NoExit        \* the run has not ended

\* An entry's directories list a file once; the self-check's cases are a list.
ASSUME HarnessAssumption ==
  /\ \A i \in DOMAIN Tests : \A a, b \in DOMAIN Tests[i].units :
       Tests[i].units[a] = Tests[i].units[b] => a = b
  /\ Tests \in Seq([stage : {"program", "check", "parse"}, units : Seq(DOMAIN KeyOf)])
  /\ NoUnit \notin DOMAIN KeyOf /\ NoFilter \notin Filters /\ NoExit \notin {0, 1, 2}
  /\ IsFiniteSet(LiveCases)
  /\ TreeChecks \in Seq(STRING)

VARIABLES
  phase,        \* the step of main() that runs next
  failures,     \* main()'s list
  tree,         \* how many tree checks have run
  summary,      \* the last line of the output, "none" when it is no summary
  exit,         \* the exit status, NoExit while it runs
  observed      \* history: what each obligation turned out to be

harnessVars == <<judgementVars, phase, failures, tree, summary, exit, observed>>

Phases == {"manifest", "honour", "toolchain", "runtime", "baseline", "selfcheck", "library",
           "repro", "list", "suites", "trees", "orphans", "report", "ended"}

UnitsOf(i) == IF Tests[i].stage = "parse" THEN {NoUnit}
              ELSE {Tests[i].units[j] : j \in DOMAIN Tests[i].units}

FloorList   == <<"run", "floor list">>
Instruments == <<"run", "instruments">>
LiveRed     == <<"run", "selfcheck">>
EntryGiven  == <<"run", "entry">>
ModuleObligations == {<<"module", m>> : m \in Modules}
ReproObligations  == {<<"repro", r>> : r \in Roots}
TreeObligations   == {<<"tree", j>> : j \in DOMAIN TreeChecks}
LineObligations   == {<<"line", x>> : x \in PendingList}
UnitObligations   == UNION {{<<"unit", <<i, u>>>> : u \in UnitsOf(i)} : i \in DOMAIN Tests}

\* What a full run must find met in order to be green.
Obligations ==
  {FloorList, Instruments, LiveRed, EntryGiven} \cup ModuleObligations \cup ReproObligations
    \cup TreeObligations \cup LineObligations \cup UnitObligations

Control == <<"run", "control">>

\* The obligations of S are found: those of `off` unmet, the others met.
Find(S, off) ==
  observed' = [o \in Obligations |->
                 IF o \notin S THEN observed[o] ELSE IF o \in off THEN "unmet" ELSE "met"]

HarnessInit ==
  /\ JudgementInit
  /\ only \in Filters \cup {NoFilter}
  /\ phase = "manifest" /\ failures = {} /\ tree = 0
  /\ summary = "none" /\ exit = NoExit
  /\ observed = [o \in Obligations |-> "unknown"]

Goto(next) == phase' = next /\ UNCHANGED <<summary, exit>>

End(line, status) == phase' = "ended" /\ summary' = line /\ exit' = status

\* stop(): the run says it cannot proceed and exits 2.
Stop == End("CANNOT PROCEED", 2)

\* An exception nothing catches: Python prints its traceback and exits 1, whatever the step that was
\* running had found.  A manifest that is not there, or with no opt-level or [build] entry, a runtime
\* object that is no ELF object, an entry over no directory, a tool that may not be started, a text
\* that does not decode, a verdicts file that cannot be opened: every step has some.
Uncaught ==
  /\ phase # "ended"
  /\ End("none", 1)
  /\ UNCHANGED <<judgementVars, failures, tree, observed>>

-----------------------------------------------------------------------------
(* Before anything is judged. *)

\* A manifest that cannot be read stops the run.
ReadManifest ==
  /\ phase = "manifest"
  /\ Goto("honour") \/ Stop
  /\ UNCHANGED <<judgementVars, failures, tree, observed>>

\* honour: a stage not judged, no sweep entry, another opt-level stop the run by name.
Honour ==
  /\ phase = "honour"
  /\ Goto("toolchain") \/ Stop
  /\ UNCHANGED <<judgementVars, failures, tree, observed>>

CheckToolchain ==
  /\ phase = "toolchain"
  /\ Goto("runtime") \/ Stop
  /\ UNCHANGED <<judgementVars, failures, tree, observed>>

\* The runtime object: one the scan's lists do not class stops the run.
ReadRuntime ==
  /\ phase = "runtime"
  /\ Goto("baseline") \/ Stop
  /\ UNCHANGED <<judgementVars, failures, tree, observed>>

\* The floor or the syscaller does not build or does not exit 0: RED at once, filtered or not.
BaselineFails ==
  /\ phase = "baseline"
  /\ failures' = failures \cup {Control}
  /\ Find({Instruments}, {Instruments})
  /\ End("RED", 1)
  /\ UNCHANGED <<judgementVars, tree>>

\* Both run: the floor's lists and the two scans' sight of the syscaller are each held, and a
\* difference is a failure the run carries on with.
Baseline(floorOff, seesSyscaller) ==
  /\ phase = "baseline"
  /\ LET off == (IF floorOff THEN {FloorList} ELSE {})
                   \cup (IF seesSyscaller THEN {} ELSE {Instruments})
     IN failures' = failures \cup off /\ Find({FloorList, Instruments}, off)
  /\ Goto(IF only = NoFilter THEN "selfcheck" ELSE "list")
  /\ UNCHANGED <<judgementVars, tree>>

\* Mutant: one red case is enough.
SomeRed(red) == red # {}

AllRed(red) == Cardinality(red) = Cardinality(LiveCases)

\* The self-check: a live case that is not red ends the run RED, whatever else failed.
SelfCheck(red) ==
  /\ phase = "selfcheck"
  /\ Find({LiveRed}, IF red = LiveCases THEN {} ELSE {LiveRed})
  /\ IF AllRed(red) THEN Goto("library") ELSE End("RED", 1)
  /\ UNCHANGED <<judgementVars, failures, tree>>

\* Build step 2: every module a root of its own, and the manifest's entry one of them.
Library(bad, entryIsModule) ==
  /\ phase = "library"
  /\ LET off == {<<"module", m>> : m \in bad}
                   \cup (IF entryIsModule THEN {} ELSE {EntryGiven})
     IN failures' = failures \cup off /\ Find({EntryGiven} \cup ModuleObligations, off)
  /\ Goto("repro")
  /\ UNCHANGED <<judgementVars, tree>>

\* Build step 3: a root that compiles to different IR in two copies, or does not compile.
Repro(differ) ==
  /\ phase = "repro"
  /\ LET off == {<<"repro", r>> : r \in differ}
     IN failures' = failures \cup off /\ Find(ReproObligations, off)
  /\ Goto("list")
  /\ UNCHANGED <<judgementVars, tree>>

ReadPendingList ==
  /\ phase = "list"
  /\ Goto("suites") \/ Stop
  /\ UNCHANGED <<judgementVars, failures, tree, observed>>

-----------------------------------------------------------------------------
(* The suites, the tree checks, the reviewed list's other direction, the summary. *)

\* A unit gets its verdict; its failure joins the list only at the report.
JudgeUnit ==
  /\ phase = "suites" /\ JudgeNext
  /\ LET o == <<"unit", <<t, Subject>>>>
     IN Find({o}, IF judged'[Len(judged')].verdict = "FAIL" THEN {o} ELSE {})
  /\ Goto("suites")
  /\ UNCHANGED <<failures, tree>>

LeaveOut ==
  /\ phase = "suites" /\ PassOver
  /\ Goto("suites")
  /\ UNCHANGED <<failures, tree, observed>>

LeaveEntry ==
  /\ phase = "suites" /\ NextEntry
  /\ Goto("suites")
  /\ UNCHANGED <<failures, tree, observed>>

\* Mutant: a filtered run has no step after the suites.
SuitesDoneFull ==
  /\ phase = "suites" /\ AllJudged /\ only = NoFilter
  /\ Goto("trees")
  /\ UNCHANGED <<judgementVars, failures, tree, observed>>

\* Mutant: the tree checks and the list's other direction left out of every run.
SuitesDoneShort ==
  /\ phase = "suites" /\ AllJudged
  /\ Goto("report")
  /\ UNCHANGED <<judgementVars, failures, tree, observed>>

\* A filtered run goes from the suites to its report.
SuitesDone ==
  /\ phase = "suites" /\ AllJudged
  /\ Goto(IF only = NoFilter THEN "trees" ELSE "report")
  /\ UNCHANGED <<judgementVars, failures, tree, observed>>

\* Each check in turn, every one of them run whatever those before it found.
TreeCheck(clean) ==
  /\ phase = "trees" /\ tree < Len(TreeChecks)
  /\ tree' = tree + 1
  /\ LET o == <<"tree", tree + 1>>
         off == IF clean THEN {} ELSE {o}
     IN failures' = failures \cup off /\ Find({o}, off)
  /\ Goto("trees")
  /\ UNCHANGED judgementVars

TreesDone ==
  /\ phase = "trees" /\ tree = Len(TreeChecks)
  /\ Goto("orphans")
  /\ UNCHANGED <<judgementVars, failures, tree, observed>>

\* A line is owed a unit that is excused by it; orphans() looks for one that matched it.
Excused(x) == \E i \in DOMAIN judged :
                judged[i].verdict = "PEND" /\ KeyOf[judged[i].unit] = x

Unmatched == PendingList \ seen

Orphans ==
  /\ phase = "orphans"
  /\ failures' = failures \cup {<<"line", x>> : x \in Unmatched}
  /\ Find(LineObligations, {<<"line", x>> : x \in {y \in PendingList : ~Excused(y)}})
  /\ Goto("report")
  /\ UNCHANGED <<judgementVars, tree>>

\* Mutant: the sweep's verdict is about no unit and is left out.
FailedUnitsOnly == {<<"unit", <<judged[i].test, judged[i].unit>>>> :
                      i \in {j \in DOMAIN judged : /\ judged[j].verdict = "FAIL"
                                                   /\ judged[j].unit # NoUnit}}

FailedUnits == {<<"unit", <<judged[i].test, judged[i].unit>>>> :
                  i \in {j \in DOMAIN judged : judged[j].verdict = "FAIL"}}

\* The FAIL verdicts join the list, the verdicts file is written, and the summary is the run's last
\* line.
Report ==
  /\ phase = "report"
  /\ failures' = failures \cup FailedUnits
  /\ \/ only # NoFilter /\ End("FILTERED", IF failures' # {} THEN 1 ELSE 0)
     \/ only = NoFilter /\ failures' # {} /\ End("RED", 1)
     \/ only = NoFilter /\ failures' = {} /\ End("GREEN", 0)
  /\ UNCHANGED <<judgementVars, tree, observed>>

\* The steps main() means to take.
HarnessSteps ==
  \/ ReadManifest \/ Honour \/ CheckToolchain \/ ReadRuntime
  \/ BaselineFails
  \/ \E floorOff, seesSyscaller \in BOOLEAN : Baseline(floorOff, seesSyscaller)
  \/ \E red \in SUBSET LiveCases : SelfCheck(red)
  \/ \E bad \in SUBSET Modules, entryIsModule \in BOOLEAN : Library(bad, entryIsModule)
  \/ \E differ \in SUBSET Roots : Repro(differ)
  \/ ReadPendingList
  \/ JudgeUnit \/ LeaveOut \/ LeaveEntry \/ SuitesDone
  \/ \E clean \in BOOLEAN : TreeCheck(clean)
  \/ TreesDone \/ Orphans \/ Report

HarnessNext == HarnessSteps \/ Uncaught

\* Every subprocess is killed at its timeout, so every step of main() ends; no exception is owed.
HarnessSpec == HarnessInit /\ [][HarnessNext]_harnessVars /\ WF_harnessVars(HarnessSteps)

-----------------------------------------------------------------------------
(* Properties. *)

Verdict == [verdict : {"PASS", "FAIL", "PEND"}, test : DOMAIN Tests,
            unit : DOMAIN KeyOf \cup {NoUnit}]

\* Every variable stays in its type.
HarnessTypeOK ==
  /\ only \in Filters \cup {NoFilter}
  /\ t \in 1..(Len(Tests) + 1)
  /\ k \in 0..(IF t \in DOMAIN Tests THEN Len(Subjects(Tests[t])) ELSE 0)
  /\ seen \subseteq PendingList /\ judged \in Seq(Verdict)
  /\ phase \in Phases /\ tree \in 0..Len(TreeChecks)
  /\ failures \subseteq {Control} \cup Obligations
  /\ summary \in {"none", "CANNOT PROCEED", "RED", "FILTERED", "GREEN"}
  /\ exit \in {NoExit, 0, 1, 2}
  /\ observed \in [Obligations -> {"unknown", "met", "unmet"}]

\* A run implements the gate: GREEN only when the controls, the self-check, every module, every
\* root, every unit, every tree check and every line of the reviewed list -- a line is met by a
\* unit it EXCUSES, not by one it merely matched -- were found met; RED only when one was not.
G == INSTANCE Gate WITH
       met     <- {o \in Obligations : observed[o] = "met"},
       unmet   <- {o \in Obligations : observed[o] = "unmet"},
       outcome <- IF exit = NoExit THEN "running"
                  ELSE IF summary = "GREEN" THEN "green"
                  ELSE IF summary = "RED" THEN "red" ELSE "nothing"
GreenIsEarned == G!GateSpec

\* Whatever its kind, a run that exits 0 has seen nothing fail, and one that saw nothing fail and
\* reached its summary does not exit 1 with it: a filtered run's status is as true as a full one's.
ExitTellsFailure ==
  /\ exit = 0 => \A o \in Obligations : observed[o] # "unmet"
  /\ summary \in {"RED", "FILTERED"} /\ exit = 1 => \E o \in Obligations : observed[o] = "unmet"

\* In a full run no unit is given a verdict before every live case of the self-check was red, and
\* none after the run has ended.
JudgedAfterSelfCheck ==
  [][judged' # judged => /\ exit = NoExit
                         /\ only = NoFilter => observed[LiveRed] = "met"]_harnessVars

\* Every run ends, with an exit status.
RunEnds == <>(exit # NoExit)
=============================================================================
