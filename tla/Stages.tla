------------------------------- MODULE Stages -------------------------------
(***************************************************************************)
(* harness/stages.py: the suites of the manifest, in its order, and the    *)
(* units of each.  A `program` (or `compile`) unit is built, scanned, run  *)
(* under the floor program's cap control and judged; a `check` unit is     *)
(* compiled and its diagnostics judged; the `parse` entry sweeps every     *)
(* file and gives one verdict.  Python is sequential here: what is         *)
(* nondeterministic is every subprocess's outcome.                         *)
(*                                                                         *)
(* The variables of Build are those of the build of the unit at hand.      *)
(* `shown` and `obs` are histories of what the subprocesses showed about   *)
(* it, which the verdict is held to; no guard reads them.                  *)
(***************************************************************************)
EXTENDS Build, Sequences

CONSTANTS
  Tests,         \* manifest.tests: [stage, units], in order
  Expect,        \* expect.read of every file
  PendingList,   \* the keys of harness/baseline/PENDING.txt
  Filters,       \* the file sets an `--only SUBSTR` can select
  NoFilter,      \* no --only
  Outputs        \* what npkc can show about a root no program is built from

Keys == Files \X Marker

ASSUME StagesAssumption ==
  /\ Tests \in Seq([stage : {"program", "check", "parse"}, units : Seq(Files)])
  /\ Expect \in [Files -> Expectation]
  /\ PendingList \subseteq Keys
  /\ Filters \subseteq SUBSET Files /\ NoFilter \notin Filters
  /\ NotSeen \notin Files \cup Keys
  /\ Outputs \subseteq Compilation

VARIABLES
  only,          \* Stage.only
  pc,            \* where the suites stand
  t,             \* the [[test]] entry at hand
  todo,          \* the files of that entry not reached yet
  file,          \* the unit at hand
  found,         \* a call-edge finding in its IR
  why,           \* why it cannot be judged by its runs, "none" when it can
  exits,         \* how its runs ended, by leg
  bad,           \* the sweep's files that do not parse
  floor_under,   \* Stage.floor_under: how the floor program ended under a cap, NotSeen unrun
  pending_seen,  \* Stage.pending_seen
  verdicts,      \* Stage.verdicts
  shown          \* history: npkc's outputs about the check or sweep unit at hand, by file

stageVars == <<only, pc, t, todo, file, found, why, exits, bad, floor_under, pending_seen,
               verdicts, shown>>
vars == <<buildVars, stageVars>>

Verdict == [verdict : {"PASS", "FAIL", "PEND"}, test : DOMAIN Tests, unit : Files \cup {NotSeen},
            detail : {"", "unlisted", "found", "stale", "different"}]
NoRuns  == [l \in LegNames |-> <<>>]

Key(f) == <<f, Expect[f].pending>>

StagesInit ==
  /\ BuildInit
  /\ only \in Filters \cup {NoFilter}
  /\ pc = "entry" /\ t = 1 /\ todo = <<>> /\ file = NotSeen
  /\ found = FALSE /\ why = "none" /\ exits = NoRuns /\ bad = {}
  /\ floor_under = [m \in Caps |-> NotSeen]
  /\ pending_seen = {} /\ verdicts = <<>> /\ shown = {}

\* _say: one verdict, about the unit f of the entry at hand.
Say(v, f, detail) ==
  /\ verdicts' = Append(verdicts, [verdict |-> v, test |-> t, unit |-> f, detail |-> detail])
  /\ pc' = "said"

-----------------------------------------------------------------------------
(* The suites. *)

\* A `program`, `compile` or `check` entry, its directory there.
OpenSuite ==
  /\ pc = "entry" /\ t \in DOMAIN Tests
  /\ Tests[t].stage # "parse"
  /\ todo' = Tests[t].units
  /\ pc' = "unit"
  /\ UNCHANGED <<buildVars, only, t, file, found, why, exits, bad, floor_under, pending_seen,
                 verdicts, shown>>

\* Its directory is not there: _units raises FileNotFoundError, which nothing catches.
MissingDirectory ==
  /\ pc = "entry" /\ t \in DOMAIN Tests
  /\ Tests[t].stage # "parse"
  /\ pc' = "crashed"
  /\ UNCHANGED <<buildVars, only, t, todo, file, found, why, exits, bad, floor_under,
                 pending_seen, verdicts, shown>>

\* Mutant: a filtered run that skips the sweep and does not move on.
OpenSweepStuck ==
  /\ pc = "entry" /\ t \in DOMAIN Tests /\ Tests[t].stage = "parse" /\ only = NoFilter
  /\ pc' = "sweep" /\ todo' = Tests[t].units /\ bad' = {}
  /\ UNCHANGED <<buildVars, only, t, file, found, why, exits, floor_under, pending_seen,
                 verdicts, shown>>

\* The sweep walks every file of its entry, but not in a filtered run.
OpenSweep ==
  /\ pc = "entry" /\ t \in DOMAIN Tests /\ Tests[t].stage = "parse"
  /\ IF only = NoFilter
     THEN pc' = "sweep" /\ todo' = Tests[t].units /\ bad' = {} /\ t' = t
     ELSE t' = t + 1 /\ UNCHANGED <<pc, todo, bad>>
  /\ UNCHANGED <<buildVars, only, file, found, why, exits, floor_under, pending_seen, verdicts,
                 shown>>

\* A verdict is given and its function returns, its locals with it: the next unit of the entry,
\* or the next entry.
NextUnit ==
  /\ pc = "said"
  /\ pc' = IF Tests[t].stage = "parse" THEN "entry" ELSE "unit"
  /\ t' = IF Tests[t].stage = "parse" THEN t + 1 ELSE t
  /\ BuildForgotten
  /\ file' = NotSeen /\ found' = FALSE /\ why' = "none" /\ exits' = NoRuns /\ bad' = {}
  /\ shown' = {}
  /\ UNCHANGED <<only, todo, floor_under, pending_seen, verdicts>>

\* Mutant: --only read for the sweep and not for the suites.
SelectedAlways(f) == TRUE

\* _units keeps the files --only selects.
Selected(f) == only # NoFilter => f \in only

LeaveOut ==
  /\ pc = "unit" /\ todo # <<>> /\ ~Selected(Head(todo))
  /\ todo' = Tail(todo)
  /\ UNCHANGED <<buildVars, only, pc, t, file, found, why, exits, bad, floor_under,
                 pending_seen, verdicts, shown>>

EndSuite ==
  /\ pc = "unit" /\ todo = <<>>
  /\ pc' = "entry" /\ t' = t + 1
  /\ UNCHANGED <<buildVars, only, todo, file, found, why, exits, bad, floor_under, pending_seen,
                 verdicts, shown>>

EndStages ==
  /\ pc = "entry" /\ t \notin DOMAIN Tests
  /\ pc' = "done"
  /\ UNCHANGED <<buildVars, only, t, todo, file, found, why, exits, bad, floor_under,
                 pending_seen, verdicts, shown>>

-----------------------------------------------------------------------------
(* A program unit. *)

Taken(stage) ==
  /\ pc = "unit" /\ todo # <<>> /\ Selected(Head(todo)) /\ Tests[t].stage = stage
  /\ file' = Head(todo) /\ todo' = Tail(todo)

\* An expectation that cannot be read, or an error expected of a program, fails unbuilt.
RefuseProgram ==
  /\ Taken("program")
  /\ LET e == Expect[Head(todo)] IN ~e.readable \/ e.errors # {}
  /\ Say("FAIL", Head(todo), "")
  /\ UNCHANGED <<buildVars, only, t, found, why, exits, bad, floor_under, pending_seen, shown>>

BuildProgram ==
  /\ Taken("program")
  /\ LET e == Expect[Head(todo)] IN e.readable /\ e.errors = {}
  /\ StartBuild
  /\ pc' = "build" /\ found' = FALSE /\ why' = "none" /\ exits' = NoRuns
  /\ UNCHANGED <<only, t, bad, floor_under, pending_seen, verdicts, shown>>

BuildOn ==
  /\ pc = "build"
  /\ BuildStep
  /\ UNCHANGED stageVars

\* npkc refused, stopped or hung: nothing to scan or run.
NotBuilt ==
  /\ pc = "build" /\ Built /\ npkc_exit # 0
  /\ why' = "npkc" /\ pc' = "judge"
  /\ step' = "idle" /\ UNCHANGED <<leg, npkc_exit, legs, obs>>
  /\ UNCHANGED <<only, t, todo, file, found, exits, bad, floor_under, pending_seen, verdicts,
                 shown>>

SomeLegStopped == \E l \in LegNames : legs[l] # NotSeen /\ legs[l].stop

\* The emission is scanned whatever its legs did: a finding first, a stopped leg next, then
\* the floor program under the unit's cap unless it ran under that cap already.
Scan(edge) ==
  /\ pc = "build" /\ Built /\ npkc_exit = 0
  /\ found' = edge
  /\ LET e == Expect[file]
         reason == IF edge THEN "found" ELSE IF SomeLegStopped THEN "stopped" ELSE "none"
     IN /\ why' = reason
        /\ pc' = IF reason # "none" THEN "judge"
                 ELSE IF e.cap = NoCap THEN "runs" ELSE "floor"
  /\ step' = "idle" /\ obs' = [obs EXCEPT !.edge = edge]
  /\ UNCHANGED <<leg, npkc_exit, legs, only, t, todo, file, exits, bad, floor_under,
                 pending_seen, verdicts, shown>>

\* The floor program ran under this cap already, hang or not.
FloorAsked(m) == floor_under[m] # NotSeen

\* Mutant: `not exit`, true of a hang.
FloorFalsy(x) == x \in {0, Hang}

FloorFine(x) == x = 0

\* _floor_ok: the floor program runs once under each cap, its exit kept for the run's length.
FloorOk(x) ==
  /\ pc = "floor"
  /\ LET m == Expect[file].cap IN
       /\ floor_under' = IF FloorAsked(m) THEN floor_under ELSE [floor_under EXCEPT ![m] = x]
       /\ IF FloorFine(floor_under'[m]) THEN pc' = "runs" /\ why' = why
          ELSE pc' = "judge" /\ why' = "floor"
  /\ UNCHANGED <<buildVars, only, t, todo, file, found, exits, bad, pending_seen, verdicts,
                 shown>>

\* Each leg in turn, `stress` times; every run is made whatever the ones before it gave.
Run(x) ==
  /\ pc = "runs"
  /\ LET e == Expect[file]
         l == IF Len(exits["-O0"]) < e.stress THEN "-O0" ELSE "-O2"
     IN /\ exits' = [exits EXCEPT ![l] = Append(@, x)]
        /\ pc' = IF l = "-O2" /\ Len(exits[l]) + 1 = e.stress THEN "judge" ELSE "runs"
        /\ obs' = [obs EXCEPT !.runs[l] = @ + 1, !.wrong = @ \/ x # e.exit]
  /\ UNCHANGED <<step, leg, npkc_exit, legs, only, t, todo, file, found, why, bad, floor_under,
                 pending_seen, verdicts, shown>>

\* Mutant: the -O0 leg alone.
AllExpectedO0(e) == \A k \in DOMAIN exits["-O0"] : exits["-O0"][k] = e.exit

AllExpected(e) == \A l \in LegNames : \A k \in DOMAIN exits[l] : exits[l][k] = e.exit

Judge ==
  /\ pc = "judge" /\ Expect[file].pending = NoMarker
  /\ Say(IF why = "none" /\ AllExpected(Expect[file]) THEN "PASS" ELSE "FAIL", file, "")
  /\ UNCHANGED <<buildVars, only, t, todo, file, found, why, exits, bad, floor_under,
                 pending_seen, shown>>

\* A marker without its line in the reviewed list excuses nothing, and leaves no trace there.
JudgeUnlisted ==
  /\ pc = "judge" /\ Expect[file].pending # NoMarker /\ Key(file) \notin PendingList
  /\ Say("FAIL", file, "unlisted")
  /\ UNCHANGED <<buildVars, only, t, todo, file, found, why, exits, bad, floor_under,
                 pending_seen, shown>>

\* Mutant: any leg for every leg.
AnyLegNames(value) ==
  \E l \in LegNames : legs[l] # NotSeen /\ legs[l].stop /\ legs[l].undefined_value = value

EveryLegNames(value) ==
  /\ legs # NoLegs
  /\ \A l \in LegNames : legs[l] # NotSeen => legs[l].stop /\ legs[l].undefined_value = value

\* Mutant: the set replaced, not added to.
SeeOnly(f) == pending_seen' = {Key(f)}

\* The unit's line of the reviewed list is matched.
See(f) == pending_seen' = pending_seen \cup {Key(f)}

\* A listed marker: a call-edge finding is never excused, then the one failure it names on every
\* leg is, and anything else reddens -- a met expectation as a stale marker.
JudgePending ==
  /\ pc = "judge" /\ Expect[file].pending # NoMarker /\ Key(file) \in PendingList
  /\ See(file)
  /\ LET e == Expect[file]
         asMarked == /\ e.pending.observation = "undefined-value" /\ npkc_exit = 0
                     /\ EveryLegNames(e.pending.argument)
         met == why = "none" /\ AllExpected(e)
     IN \/ found /\ Say("FAIL", file, "found")
        \/ ~found /\ asMarked /\ Say("PEND", file, "")
        \/ ~found /\ ~asMarked /\ met /\ Say("FAIL", file, "stale")
        \/ ~found /\ ~asMarked /\ ~met /\ Say("FAIL", file, "different")
  /\ UNCHANGED <<buildVars, only, t, todo, file, found, why, exits, bad, floor_under, shown>>

-----------------------------------------------------------------------------
(* A check unit, and the sweep. *)

RefuseCheck ==
  /\ Taken("check")
  /\ LET e == Expect[Head(todo)] IN ~e.readable \/ e.errors = {}
  /\ Say("FAIL", Head(todo), "")
  /\ UNCHANGED <<buildVars, only, t, found, why, exits, bad, floor_under, pending_seen, shown>>

\* Mutant: a code reported beside the expected ones passes.
CodesJudgedSubset(c, e) ==
  /\ {x.code : x \in e.errors} \subseteq {d[1] : d \in c.diagnostics}
  /\ \A x \in e.errors : \E d \in c.diagnostics : d[1] = x.code /\ d[2] \in x.at

\* _codes_judged finds nothing to say.
CodesJudged(c, e) ==
  LET got == {d[1] : d \in c.diagnostics}   want == {x.code : x \in e.errors} IN
  /\ want \ got = {} /\ got \ want = {}
  /\ \A x \in e.errors : \E d \in c.diagnostics : d[1] = x.code /\ d[2] \in x.at

\* npkc over the unit, with no marker: a verdict only when it exits 1.
JudgeCheck(c) ==
  /\ Taken("check")
  /\ LET f == Head(todo)   e == Expect[f] IN
       /\ e.readable /\ e.errors # {} /\ e.pending = NoMarker
       /\ Say(IF c.npkc = 1 /\ CodesJudged(c, e) THEN "PASS" ELSE "FAIL", f, "")
       /\ shown' = {<<f, c>>}
  /\ UNCHANGED <<buildVars, only, t, found, why, exits, bad, floor_under, pending_seen>>

\* With a marker: only `accepted` can be shown here, and only when the list has its line.
JudgeCheckPending(c) ==
  /\ Taken("check")
  /\ LET f == Head(todo)   e == Expect[f]
         admitted == e.pending.observation = "accepted" /\ Key(f) \in PendingList
     IN /\ e.readable /\ e.errors # {} /\ e.pending # NoMarker
        /\ IF admitted THEN See(f) ELSE pending_seen' = pending_seen
        /\ \/ ~admitted /\ Say("FAIL", f, "unlisted")
           \/ admitted /\ c.npkc = 0 /\ ~c.text /\ Say("PEND", f, "")
           \/ admitted /\ c.npkc = 1 /\ CodesJudged(c, e) /\ Say("FAIL", f, "stale")
           \/ /\ admitted /\ ~(c.npkc = 0 /\ ~c.text) /\ ~(c.npkc = 1 /\ CodesJudged(c, e))
              /\ Say("FAIL", f, "different")
        /\ shown' = {<<f, c>>}
  /\ UNCHANGED <<buildVars, only, t, found, why, exits, bad, floor_under>>

\* One file of the sweep.
SweepFile(c) ==
  /\ pc = "sweep" /\ todo # <<>>
  /\ LET f == Head(todo)
         fam == {d[1] : d \in c.diagnostics} \cap FamilyCodes
     IN /\ bad' = IF c.npkc \notin {0, 1} \/ fam # {} THEN bad \cup {f} ELSE bad
        /\ shown' = shown \cup {<<f, c>>}
  /\ todo' = Tail(todo)
  /\ UNCHANGED <<buildVars, only, pc, t, file, found, why, exits, floor_under, pending_seen,
                 verdicts>>

\* The sweep's one verdict, about the entry and no unit of it.
JudgeSweep ==
  /\ pc = "sweep" /\ todo = <<>>
  /\ Say(IF bad = {} THEN "PASS" ELSE "FAIL", NotSeen, "")
  /\ UNCHANGED <<buildVars, only, t, todo, file, found, why, exits, bad, floor_under, pending_seen,
                 shown>>

-----------------------------------------------------------------------------

StagesNext ==
  \/ OpenSuite \/ MissingDirectory \/ OpenSweep \/ NextUnit \/ LeaveOut \/ EndSuite
  \/ EndStages
  \/ RefuseProgram \/ BuildProgram \/ BuildOn \/ NotBuilt
  \/ \E edge \in BOOLEAN : Scan(edge)
  \/ \E x \in RunExits : FloorOk(x)
  \/ \E x \in RunExits : Run(x)
  \/ Judge \/ JudgeUnlisted \/ JudgePending
  \/ RefuseCheck
  \/ \E c \in Outputs : JudgeCheck(c)
  \/ \E c \in Outputs : JudgeCheckPending(c)
  \/ \E c \in Outputs : SweepFile(c)
  \/ JudgeSweep

\* Every step ends: each subprocess is killed at its timeout (build.py's 600 s, RUN_TIMEOUT).
StagesSpec == StagesInit /\ [][StagesNext]_vars /\ WF_vars(StagesNext)

-----------------------------------------------------------------------------
(* Properties. *)

\* Every variable stays in its type.
TypeOK ==
  /\ BuildTypeOK
  /\ only \in Filters \cup {NoFilter}
  /\ pc \in {"entry", "unit", "build", "floor", "runs", "judge", "sweep", "said", "done",
             "crashed"}
  /\ t \in 1..(Len(Tests) + 1)
  /\ todo \in Seq(Files) /\ file \in Files \cup {NotSeen}
  /\ found \in BOOLEAN /\ why \in {"none", "npkc", "found", "stopped", "floor"}
  /\ exits \in [LegNames -> Seq(RunExits)]
  /\ bad \subseteq Files
  /\ floor_under \in [Caps -> RunExits \cup {NotSeen}]
  /\ pending_seen \subseteq PendingList
  /\ verdicts \in Seq(Verdict)
  /\ shown \subseteq Files \X Outputs

Said      == verdicts[Len(verdicts)]
FloorUnder(e) == IF e.cap = NoCap THEN 0 ELSE floor_under[e.cap]
Listed(f) == Key(f) \in PendingList

\* When a verdict on a program unit is given, it is the one the unit is owed for what the
\* subprocesses showed: whatever the early returns of _unit and _pending skipped.
ProgramOwed ==
  pc = "said" /\ Tests[t].stage = "program" =>
    LET e == Expect[file] IN
      Said.verdict = ProgramVerdict(e, obs, FloorUnder(e), Listed(file))

\* The same of a check unit and what npkc printed, and of the sweep and every file of its entry.
DiagnosticsOwed ==
  pc = "said" =>
    /\ Tests[t].stage = "check" =>
         \A c \in Outputs : shown = {} \/ <<file, c>> \in shown =>
           Said.verdict = CheckVerdict(Expect[file], c, Listed(file))
    /\ Tests[t].stage = "parse" =>
         (Said.verdict = "PASS" <=>
            \A k \in DOMAIN Tests[t].units :
              /\ \E x \in shown : x[1] = Tests[t].units[k]
              /\ \A x \in shown : x[1] = Tests[t].units[k] => Parses(x[2]))

\* A marker is called stale exactly when its unit meets its whole expectation (PA-114): the
\* sentence that tells its reader to remove the marker is never about a unit still broken.
StaleIsMet ==
  pc = "said" /\ file # NotSeen /\ Expect[file].pending # NoMarker =>
    LET e == Expect[file] IN
      Said.detail = "stale" <=>
        /\ Listed(file) /\ e.readable
        /\ \/ Tests[t].stage = "program" /\ e.errors = {} /\ ProgramMet(e, obs, FloorUnder(e))
           \/ /\ Tests[t].stage = "check" /\ e.errors # {}
              /\ e.pending.observation = "accepted"
              /\ \E x \in shown : x[2].npkc = 1 /\ CodesMet(e, x[2].diagnostics)

\* No unit runs under a cap before the floor program exited 0 under the identical one, and the
\* floor's answer under a cap is asked for once: a second answer could excuse an earlier unit.
FloorFirst ==
  pc \in {"runs", "judge", "said"} /\ file # NotSeen =>
    LET m == Expect[file].cap IN
      m # NoCap /\ (\E l \in LegNames : obs.runs[l] > 0) => floor_under[m] = 0

FloorAskedOnce ==
  [][\A m \in Caps : floor_under[m] # NotSeen => floor_under'[m] = floor_under[m]]_vars

\* What run.py's orphans() reads: a line is seen only for a unit that has its verdict or is being
\* given it, and every PEND verdict has its line seen.
SeenIsJudged ==
  /\ \A k \in pending_seen : \E i \in DOMAIN verdicts :
       /\ verdicts[i].unit = k[1] /\ Expect[k[1]].pending = k[2]
       /\ verdicts[i].verdict \in {"PEND", "FAIL"} /\ verdicts[i].detail # "unlisted"
  /\ \A i \in DOMAIN verdicts :
       verdicts[i].verdict = "PEND" => Key(verdicts[i].unit) \in pending_seen

\* How many of the entry's subjects are judged or left out.
Position ==
  CASE pc = "unit" -> Len(Tests[t].units) - Len(todo)
    [] pc \in {"build", "floor", "runs", "judge"} -> Len(Tests[t].units) - Len(todo) - 1
    [] pc = "said" -> IF Tests[t].stage = "parse" THEN 1 ELSE Len(Tests[t].units) - Len(todo)
    [] OTHER -> 0

\* The suites implement Judgement: one verdict for each unit selected, in the manifest's order,
\* none twice and none left out, a marked unit never passing and none excused off the list.
KeyOf  == [f \in Files |-> IF Expect[f].pending = NoMarker THEN NotSeen ELSE Key(f)]
Judged == [i \in DOMAIN verdicts |-> [verdict |-> verdicts[i].verdict, test |-> verdicts[i].test,
                                      unit |-> verdicts[i].unit]]
J == INSTANCE Judgement WITH
       NoKey <- NotSeen, NoUnit <- NotSeen, seen <- pending_seen, k <- Position, judged <- Judged
JudgesInOrder == J!JudgementSpec

\* The suites end: at their last entry, or at a directory that is not there.
Ends == <>(pc \in {"done", "crashed"})
=============================================================================
