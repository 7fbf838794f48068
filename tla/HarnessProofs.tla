--------------------------- MODULE HarnessProofs ---------------------------
(***************************************************************************)
(* What is proved of Harness.tla for every manifest, reviewed list, set of *)
(* modules and tree checks: a run is green only when everything it owes    *)
(* was found met and red only when something was not (it implements Gate), *)
(* its exit status is true, and nothing is judged before the self-check.   *)
(***************************************************************************)
EXTENDS Harness, TLAPS, FiniteSetTheorems

-----------------------------------------------------------------------------
(* The inductive invariant. *)

Unknown(o) == observed[o] = "unknown"

Opening == {"manifest", "honour", "toolchain", "runtime", "baseline"}

\* A run has ended when it has a status, and only then a summary; a filtered run takes no step that a
\* full one adds, and before the suites nothing is judged.
Order ==
  /\ exit = NoExit <=> phase # "ended"
  /\ phase # "ended" => summary = "none"
  /\ only # NoFilter => phase \notin {"selfcheck", "library", "repro", "trees", "orphans"}
  /\ phase \notin {"suites", "trees", "orphans", "report", "ended"} => t = 1 /\ k = 0
  /\ phase \in {"orphans", "report"} /\ only = NoFilter => tree = Len(TreeChecks)
  /\ phase \in {"trees", "orphans", "report"} => AllJudged

\* Subject u of entry i is judged or left out.
Passed(i, u) == i < t \/ (i = t /\ \E j \in 1..k : Subjects(Tests[t])[j] = u)

\* What a step of the run is for is unknown until that step: nothing is found twice.
NotYet ==
  /\ phase \in Opening => Unknown(FloorList) /\ Unknown(Instruments)
  /\ phase \in Opening \cup {"selfcheck"} => Unknown(LiveRed)
  /\ phase \in Opening \cup {"selfcheck", "library"} =>
       Unknown(EntryGiven) /\ \A o \in ModuleObligations : Unknown(o)
  /\ phase \in Opening \cup {"selfcheck", "library", "repro"} => \A o \in ReproObligations : Unknown(o)
  /\ \A j \in DOMAIN TreeChecks : j > tree => Unknown(<<"tree", j>>)
  /\ phase \notin {"report", "ended"} => \A o \in LineObligations : Unknown(o)
  /\ \A i \in DOMAIN Tests : \A u \in UnitsOf(i) : ~Passed(i, u) => Unknown(<<"unit", <<i, u>>>>)

\* And a full run has found it after that step.
Accounted ==
  only = NoFilter =>
    /\ phase \in Phases \ (Opening \cup {"ended"}) => ~Unknown(FloorList) /\ ~Unknown(Instruments)
    /\ phase \in Phases \ (Opening \cup {"selfcheck", "ended"}) => observed[LiveRed] = "met"
    /\ phase \in Phases \ (Opening \cup {"selfcheck", "library", "ended"}) =>
         ~Unknown(EntryGiven) /\ \A o \in ModuleObligations : ~Unknown(o)
    /\ phase \in Phases \ (Opening \cup {"selfcheck", "library", "repro", "ended"}) =>
         \A o \in ReproObligations : ~Unknown(o)
    /\ \A j \in DOMAIN TreeChecks : j <= tree => ~Unknown(<<"tree", j>>)
    /\ phase = "report" => \A o \in LineObligations : ~Unknown(o)
    /\ \A i \in DOMAIN Tests : \A u \in UnitsOf(i) : Passed(i, u) => ~Unknown(<<"unit", <<i, u>>>>)

\* A verdict is about a unit of its entry; a line of the list is seen when a unit it could excuse is
\* judged, and is seen when it excuses one.
Matched ==
  /\ \A n \in DOMAIN judged : judged[n].test \in DOMAIN Tests /\ judged[n].unit \in UnitsOf(judged[n].test)
  /\ \A x \in seen : \E n \in DOMAIN judged :
       KeyOf[judged[n].unit] = x /\ judged[n].verdict \in {"PEND", "FAIL"}
  /\ \A n \in DOMAIN judged : judged[n].verdict = "PEND" => KeyOf[judged[n].unit] \in seen

Failing   == failures \cup FailedUnits # {}
SomeUnmet == \E o \in Obligations : observed[o] = "unmet"

\* The run has a failure exactly when it found something unmet, but for an end with status 1.
Truthful ==
  /\ Failing => SomeUnmet
  /\ exit # 1 /\ SomeUnmet => Failing
  /\ ExitTellsFailure

HarnessInv == HarnessTypeOK /\ Order /\ NotYet /\ Accounted /\ Matched /\ Truthful

-----------------------------------------------------------------------------
(* The obligations, told apart by their kind. *)

LEMMA KindsDiffer ==
  /\ \A o \in ModuleObligations : o[1] = "module"
  /\ \A o \in ReproObligations : o[1] = "repro"
  /\ \A o \in TreeObligations : o[1] = "tree"
  /\ \A o \in LineObligations : o[1] = "line"
  /\ \A o \in UnitObligations : o[1] = "unit"
  /\ \A o \in {FloorList, Instruments, LiveRed, EntryGiven} : o[1] = "run"
BY DEF ModuleObligations, ReproObligations, TreeObligations, LineObligations, UnitObligations,
       FloorList, Instruments, LiveRed, EntryGiven

\* The four obligations of the run itself are four.
LEMMA RunKindsDiffer ==
  /\ FloorList # Instruments /\ FloorList # LiveRed /\ FloorList # EntryGiven
  /\ Instruments # LiveRed /\ Instruments # EntryGiven /\ LiveRed # EntryGiven
BY DEF FloorList, Instruments, LiveRed, EntryGiven

\* A unit of an entry is an obligation.
LEMMA UnitsAre ==
  ASSUME NEW i \in DOMAIN Tests, NEW u \in UnitsOf(i)
  PROVE  <<"unit", <<i, u>>>> \in UnitObligations
BY DEF UnitObligations

\* What is found keeps what was known.
LEMMA Found ==
  ASSUME observed \in [Obligations -> {"unknown", "met", "unmet"}], NEW S \in SUBSET Obligations, NEW off,
         \A o \in S : Unknown(o), Find(S, off)
  PROVE  /\ observed' \in [Obligations -> {"unknown", "met", "unmet"}]
         /\ \A o \in Obligations : ~Unknown(o) => observed'[o] = observed[o]
         /\ \A o \in Obligations : o \notin S => observed'[o] = observed[o]
         /\ \A o \in S : observed'[o] = IF o \in off THEN "unmet" ELSE "met"
BY DEF Find, Unknown

\* Nothing that was found is found otherwise.
Kept == \A o \in Obligations : ~Unknown(o) => observed'[o] = observed[o]

-----------------------------------------------------------------------------
(* The steps that find nothing. *)

LEMMA StatusIs == NoExit # 0 /\ NoExit # 1 /\ NoExit # 2
BY HarnessAssumption

\* What a step leaves alone keeps its part of the invariant.
LEMMA Same ==
  ASSUME HarnessInv, UNCHANGED <<judgementVars, failures, tree, observed>>
  PROVE  /\ Kept /\ Matched' /\ (Failing' <=> Failing) /\ (SomeUnmet' <=> SomeUnmet)
         /\ \A i, u : Passed(i, u)' <=> Passed(i, u)
         /\ \A o : Unknown(o)' <=> Unknown(o)
         /\ AllJudged' <=> AllJudged
         /\ UNCHANGED <<only, t, k, seen, judged>>
<1>1. UNCHANGED <<only, t, k, seen, judged>>
  BY DEF judgementVars
<1>2. QED
  BY <1>1 DEF Kept, HarnessInv, Matched, Failing, SomeUnmet, FailedUnits, Passed, Subjects, Unknown, AllJudged

\* A run that ends, having found nothing: stopped, or raised.
LEMMA Halted ==
  ASSUME HarnessInv, phase # "ended", UNCHANGED <<judgementVars, failures, tree, observed>>,
         Stop \/ End("none", 1)
  PROVE  HarnessInv' /\ Kept
<1>1. /\ phase' = "ended" /\ exit = NoExit
      /\ summary' \in {"CANNOT PROCEED", "none"} /\ exit' \in {1, 2}
      /\ UNCHANGED <<failures, tree, observed, only, t, k, seen, judged>>
  BY Same DEF Stop, End, HarnessInv, Order
<1>2. HarnessTypeOK'
  BY <1>1 DEF HarnessInv, HarnessTypeOK, Phases, Subjects
<1>3. Order'
  BY <1>1, StatusIs DEF Order, HarnessInv
<1>4. NotYet' /\ Accounted'
  BY <1>1, Same DEF HarnessInv, NotYet, Accounted, Opening
<1>5. Truthful'
  <2>1. ExitTellsFailure'
    <3>1. exit' = 1 \/ exit' = 2
      BY DEF Stop, End
    <3>2. exit' # 0
      BY <3>1
    <3>3. summary' = "none" \/ summary' = "CANNOT PROCEED"
      BY DEF Stop, End
    <3>4. summary' # "RED" /\ summary' # "FILTERED"
      BY <3>3
    <3>5. QED BY <3>2, <3>4 DEF ExitTellsFailure
  <2>2. Failing => SomeUnmet
    BY DEF HarnessInv, Truthful
  <2>3. SomeUnmet => Failing
    BY <1>1, StatusIs DEF HarnessInv, Truthful
  <2>4. QED BY <2>1, <2>2, <2>3, Same DEF Truthful
<1>6. QED BY <1>2, <1>3, <1>4, <1>5, Same DEF HarnessInv

\* A run that goes on to the next step, having found nothing.
LEMMA WentOn ==
  ASSUME HarnessInv, UNCHANGED <<judgementVars, failures, tree, observed>>,
         NEW next \in Phases \ {"ended"}, phase # "ended", Goto(next)
  PROVE  HarnessTypeOK' /\ Matched' /\ Truthful' /\ Kept
<1>1. /\ phase' = next /\ UNCHANGED <<summary, exit, failures, tree, observed, only, t, k, seen, judged>>
  BY Same DEF Goto
<1>2. HarnessTypeOK'
  BY <1>1 DEF HarnessInv, HarnessTypeOK, Phases, Subjects
<1>3. Truthful'
  BY <1>1, Same DEF HarnessInv, Truthful, ExitTellsFailure, SomeUnmet
<1>4. QED BY <1>2, <1>3, Same

\* The steps that read, stop, raise or go on.
LEMMA Idle ==
  ASSUME HarnessInv,
         \/ ReadManifest \/ Honour \/ CheckToolchain \/ ReadRuntime \/ ReadPendingList \/ Uncaught
         \/ SuitesDone \/ TreesDone
  PROVE  HarnessInv' /\ Kept
<1> USE DEF Opening, Phases
<1>0. UNCHANGED <<judgementVars, failures, tree, observed>> /\ phase # "ended"
  BY DEF ReadManifest, Honour, CheckToolchain, ReadRuntime, ReadPendingList, Uncaught, SuitesDone, TreesDone
<1>1. CASE Stop \/ End("none", 1)
  BY <1>0, <1>1, Halted
<1>2. ASSUME NEW next \in Phases \ {"ended"}, Goto(next),
             \/ phase \in Opening \ {"baseline"} /\ next \in Opening
             \/ phase = "list" /\ next = "suites"
      PROVE  HarnessInv' /\ Kept
  <2>1. HarnessTypeOK' /\ Matched' /\ Truthful' /\ Kept
    BY <1>0, <1>2, WentOn
  <2>2. phase' = next /\ UNCHANGED <<summary, exit, tree, observed, only, t, k>>
    BY <1>0, <1>2, Same DEF Goto
  <2>3. Order'
    BY <1>2, <2>2 DEF HarnessInv, Order
  <2>4. NotYet'
    BY <1>0, <1>2, <2>2, Same DEF HarnessInv, NotYet
  <2>5. Accounted'
    BY <1>0, <1>2, <2>2, Same DEF HarnessInv, Accounted
  <2>6. QED BY <2>1, <2>3, <2>4, <2>5 DEF HarnessInv
<1>3. CASE SuitesDone \/ TreesDone
  <2> DEFINE next == IF phase = "trees" THEN "orphans" ELSE IF only = NoFilter THEN "trees" ELSE "report"
  <2>0. /\ Goto(next) /\ phase \in {"suites", "trees"}
        /\ phase = "trees" => tree = Len(TreeChecks) /\ AllJudged /\ only = NoFilter
        /\ phase = "suites" => AllJudged
    BY <1>3 DEF SuitesDone, TreesDone, HarnessInv, Order
  <2>1. HarnessTypeOK' /\ Matched' /\ Truthful' /\ Kept
    BY <1>0, <2>0, WentOn
  <2>2. phase' = next /\ UNCHANGED <<summary, exit, tree, observed, only, t, k>>
    BY <1>0, <2>0, Same DEF Goto
  <2>3. Order'
    BY <1>0, <2>0, <2>2, Same DEF HarnessInv, Order
  <2>4. NotYet'
    BY <1>0, <2>0, <2>2, Same DEF HarnessInv, NotYet, Order
  <2>5. Accounted'
    BY <1>0, <2>0, <2>2, Same DEF HarnessInv, Accounted
  <2>6. QED BY <2>1, <2>3, <2>4, <2>5 DEF HarnessInv
<1>4. QED
  BY <1>1, <1>2, <1>3
  DEF ReadManifest, Honour, CheckToolchain, ReadRuntime, ReadPendingList, Uncaught

-----------------------------------------------------------------------------
(* The steps that find something, each obligation of theirs a failure when *)
(* it is unmet.                                                            *)

LEMMA ObligationsAre ==
  /\ {FloorList, Instruments, LiveRed, EntryGiven} \subseteq Obligations
  /\ ModuleObligations \subseteq Obligations /\ ReproObligations \subseteq Obligations
  /\ TreeObligations \subseteq Obligations /\ LineObligations \subseteq Obligations
  /\ UnitObligations \subseteq Obligations
BY DEF Obligations

\* A step that finds S, adds what is off to the list and goes on keeps the list truthful.
LEMMA FoundTruth ==
  ASSUME HarnessInv, NEW S \in SUBSET Obligations, NEW off \in SUBSET S, \A o \in S : Unknown(o),
         Find(S, off), failures' = failures \cup off, UNCHANGED <<judgementVars, summary, exit>>,
         phase # "ended"
  PROVE  /\ Truthful' /\ Kept /\ Matched'
         /\ observed' \in [Obligations -> {"unknown", "met", "unmet"}]
         /\ failures' \subseteq {Control} \cup Obligations
         /\ \A o \in Obligations : o \notin S => observed'[o] = observed[o]
         /\ \A o \in S : observed'[o] = IF o \in off THEN "unmet" ELSE "met"
         /\ UNCHANGED <<only, t, k, seen, judged, summary, exit>>
         /\ \A i, u : Passed(i, u)' <=> Passed(i, u)
         /\ AllJudged' <=> AllJudged
<1>1. UNCHANGED <<only, t, k, seen, judged, summary, exit>>
  BY DEF judgementVars
<1>2. observed \in [Obligations -> {"unknown", "met", "unmet"}] /\ failures \subseteq {Control} \cup Obligations
  BY DEF HarnessInv, HarnessTypeOK
<1>3. /\ observed' \in [Obligations -> {"unknown", "met", "unmet"}] /\ Kept
      /\ \A o \in Obligations : o \notin S => observed'[o] = observed[o]
      /\ \A o \in S : observed'[o] = IF o \in off THEN "unmet" ELSE "met"
  BY <1>2, Found DEF Kept
<1>4. Matched' /\ (AllJudged' <=> AllJudged) /\ \A i, u : Passed(i, u)' <=> Passed(i, u)
  BY <1>1 DEF HarnessInv, Matched, AllJudged, Passed, Subjects
<1>5. FailedUnits' = FailedUnits
  BY <1>1 DEF FailedUnits
<1>6. (Failing => SomeUnmet) /\ (SomeUnmet => Failing)
  BY StatusIs DEF HarnessInv, Truthful, Order
<1>7. Failing' => SomeUnmet'
  <2>1. CASE off # {}
    <3>1. PICK o \in off : TRUE
      BY <2>1
    <3>2. observed'[o] = "unmet" /\ o \in Obligations
      BY <1>3
    <3>3. QED BY <3>2 DEF SomeUnmet
  <2>2. ASSUME Failing PROVE SomeUnmet'
    <3>1. PICK o \in Obligations : observed[o] = "unmet"
      BY <1>6, <2>2 DEF SomeUnmet
    <3>2. ~Unknown(o)
      BY <3>1 DEF Unknown
    <3>3. observed'[o] = "unmet"
      BY <1>3, <3>1, <3>2 DEF Kept
    <3>4. QED BY <3>3 DEF SomeUnmet
  <2>3. off = {} => (Failing' => Failing)
    BY <1>5 DEF Failing
  <2>4. QED BY <2>1, <2>2, <2>3
<1>8. SomeUnmet' => Failing'
  <2> SUFFICES ASSUME NEW o \in Obligations, observed'[o] = "unmet" PROVE Failing'
    BY DEF SomeUnmet
  <2>1. CASE o \in S
    BY <1>3, <2>1 DEF Failing
  <2>2. CASE o \notin S
    <3>1. Failing
      BY <1>3, <1>6, <2>2 DEF SomeUnmet
    <3>2. QED BY <1>5, <3>1 DEF Failing
  <2>3. QED BY <2>1, <2>2
<1>9. ExitTellsFailure'
  <2>1. exit = NoExit /\ summary = "none"
    BY DEF HarnessInv, Order
  <2>2. exit' # 0 /\ exit' # 1
    BY <1>1, <2>1, StatusIs
  <2>3. QED BY <2>2 DEF ExitTellsFailure
<1>10. Truthful'
  BY <1>7, <1>8, <1>9 DEF Truthful
<1>11. failures' \subseteq {Control} \cup Obligations
  BY <1>2
<1>12. QED BY <1>1, <1>3, <1>4, <1>10, <1>11

\* The controls run.
LEMMA BaselineKeeps ==
  ASSUME HarnessInv, NEW floorOff \in BOOLEAN, NEW seesSyscaller \in BOOLEAN, Baseline(floorOff, seesSyscaller)
  PROVE  HarnessInv' /\ Kept
<1> DEFINE S == {FloorList, Instruments}
           off == (IF floorOff THEN {FloorList} ELSE {}) \cup (IF seesSyscaller THEN {} ELSE {Instruments})
<1>1. /\ phase = "baseline" /\ failures' = failures \cup off /\ Find(S, off)
      /\ phase' = (IF only = NoFilter THEN "selfcheck" ELSE "list")
      /\ UNCHANGED <<judgementVars, summary, exit>> /\ tree' = tree
  BY DEF Baseline, Goto
<1>2. S \in SUBSET Obligations /\ off \in SUBSET S /\ \A o \in S : Unknown(o)
  BY <1>1, ObligationsAre DEF HarnessInv, NotYet, Opening
<1>3. /\ LiveRed \notin S /\ EntryGiven \notin S
      /\ S \cap (ModuleObligations \cup ReproObligations \cup TreeObligations \cup LineObligations
                   \cup UnitObligations) = {}
  BY KindsDiffer, RunKindsDiffer
<1> HIDE DEF S, off
<1>4. /\ Truthful' /\ Kept /\ Matched'
      /\ observed' \in [Obligations -> {"unknown", "met", "unmet"}]
      /\ failures' \subseteq {Control} \cup Obligations
      /\ \A o \in Obligations : o \notin S => observed'[o] = observed[o]
      /\ \A o \in S : observed'[o] = IF o \in off THEN "unmet" ELSE "met"
      /\ UNCHANGED <<only, t, k, seen, judged, summary, exit>>
      /\ \A i, u : Passed(i, u)' <=> Passed(i, u)
      /\ AllJudged' <=> AllJudged
  BY <1>1, <1>2, FoundTruth
<1>5. HarnessTypeOK'
  BY <1>1, <1>4 DEF HarnessInv, HarnessTypeOK, Phases, Subjects
<1>6. Order'
  BY <1>1, <1>4 DEF HarnessInv, Order
<1>7. NotYet'
  BY <1>1, <1>3, <1>4, ObligationsAre, UnitsAre
  DEF HarnessInv, NotYet, Opening, Unknown, TreeObligations
<1>8. Accounted'
  BY <1>1, <1>3, <1>4, ObligationsAre, UnitsAre
  DEF HarnessInv, Accounted, Opening, Phases, Unknown, TreeObligations, S
<1>9. QED BY <1>4, <1>5, <1>6, <1>7, <1>8 DEF HarnessInv

\* A run that ends RED at once, for something it has just found unmet.
LEMMA RedEnd ==
  ASSUME HarnessInv, phase # "ended", NEW S \in SUBSET Obligations, NEW off \in SUBSET S, off # {},
         \A o \in S : Unknown(o), S \cap (TreeObligations \cup UnitObligations) = {},
         Find(S, off), failures' \subseteq {Control} \cup Obligations,
         UNCHANGED <<judgementVars, tree>>, End("RED", 1)
  PROVE  HarnessInv' /\ Kept
<1>1. /\ UNCHANGED <<only, t, k, seen, judged, tree>>
      /\ phase' = "ended" /\ summary' = "RED" /\ exit' = 1
  BY DEF judgementVars, End
<1>2. observed \in [Obligations -> {"unknown", "met", "unmet"}]
  BY DEF HarnessInv, HarnessTypeOK
<1>3. /\ observed' \in [Obligations -> {"unknown", "met", "unmet"}] /\ Kept
      /\ \A o \in Obligations : o \notin S => observed'[o] = observed[o]
      /\ \A o \in S : observed'[o] = IF o \in off THEN "unmet" ELSE "met"
  BY <1>2, Found DEF Kept
<1>4. HarnessTypeOK'
  BY <1>1, <1>3 DEF HarnessInv, HarnessTypeOK, Phases, Subjects
<1>5. Order'
  BY <1>1, StatusIs DEF Order
<1>6. \A i, u : Passed(i, u)' <=> Passed(i, u)
  BY <1>1 DEF Passed, Subjects
<1>7. NotYet'
  BY <1>1, <1>3, <1>6, ObligationsAre, UnitsAre
  DEF HarnessInv, NotYet, Opening, Unknown, TreeObligations
<1>8. Accounted'
  BY <1>1, <1>3, <1>6, ObligationsAre, UnitsAre
  DEF HarnessInv, Accounted, Opening, Phases, Unknown, TreeObligations, Kept
<1>9. Matched'
  BY <1>1 DEF HarnessInv, Matched
<1>10. Truthful'
  <2>1. PICK o \in off : TRUE
    OBVIOUS
  <2>2. observed'[o] = "unmet" /\ o \in Obligations
    BY <1>3
  <2>3. SomeUnmet'
    BY <2>2 DEF SomeUnmet
  <2>4. ExitTellsFailure'
    <3>1. exit' # 0
      BY <1>1
    <3>2. QED BY <3>1, <2>2 DEF ExitTellsFailure
  <2>5. QED BY <1>1, <2>3, <2>4 DEF Truthful
<1>11. QED BY <1>3, <1>4, <1>5, <1>7, <1>8, <1>9, <1>10 DEF HarnessInv

\* The controls do not run.
LEMMA BaselineFailsKeeps ==
  ASSUME HarnessInv, BaselineFails
  PROVE  HarnessInv' /\ Kept
<1>1. /\ phase = "baseline" /\ failures' = failures \cup {Control}
      /\ Find({Instruments}, {Instruments}) /\ End("RED", 1) /\ UNCHANGED <<judgementVars, tree>>
  BY DEF BaselineFails
<1>2. /\ {Instruments} \in SUBSET Obligations /\ \A o \in {Instruments} : Unknown(o)
      /\ failures' \subseteq {Control} \cup Obligations
  BY <1>1, ObligationsAre DEF HarnessInv, HarnessTypeOK, NotYet, Opening
<1>3. {Instruments} \cap (TreeObligations \cup UnitObligations) = {}
  BY KindsDiffer
<1>4. phase # "ended"
  BY <1>1
<1>5. QED BY <1>1, <1>2, <1>3, <1>4, RedEnd

\* As many red cases as there are live ones are all of them.
LEMMA AllRedIs ==
  ASSUME NEW red \in SUBSET LiveCases
  PROVE  AllRed(red) <=> red = LiveCases
<1>1. IsFiniteSet(LiveCases)
  BY HarnessAssumption
<1>2. QED BY <1>1, FS_Subset DEF AllRed

\* The self-check.
LEMMA SelfCheckKeeps ==
  ASSUME HarnessInv, NEW red \in SUBSET LiveCases, SelfCheck(red)
  PROVE  HarnessInv' /\ Kept
<1> DEFINE S == {LiveRed}
           off == IF red = LiveCases THEN {} ELSE {LiveRed}
<1>1. /\ phase = "selfcheck" /\ Find(S, off) /\ UNCHANGED <<judgementVars, failures, tree>>
      /\ IF red = LiveCases THEN Goto("library") ELSE End("RED", 1)
  BY AllRedIs DEF SelfCheck
<1>2. S \in SUBSET Obligations /\ off \in SUBSET S /\ \A o \in S : Unknown(o)
  BY <1>1, ObligationsAre DEF HarnessInv, NotYet, Opening
<1>3. /\ FloorList \notin S /\ Instruments \notin S /\ EntryGiven \notin S
      /\ S \cap (ModuleObligations \cup ReproObligations \cup TreeObligations \cup LineObligations
                   \cup UnitObligations) = {}
  BY KindsDiffer, RunKindsDiffer
<1>4. CASE red # LiveCases
  <2>1. off # {} /\ End("RED", 1) /\ phase # "ended" /\ failures' \subseteq {Control} \cup Obligations
    BY <1>1, <1>4 DEF HarnessInv, HarnessTypeOK
  <2> HIDE DEF S, off
  <2>2. QED BY <1>1, <1>2, <1>3, <2>1, RedEnd
<1>5. CASE red = LiveCases
  <2>1. off = {} /\ phase' = "library" /\ UNCHANGED <<summary, exit>>
    BY <1>1, <1>5 DEF Goto
  <2> HIDE DEF off
  <2>2. failures' = failures \cup off
    BY <1>1, <2>1
  <2>3. /\ Truthful' /\ Kept /\ Matched'
        /\ observed' \in [Obligations -> {"unknown", "met", "unmet"}]
        /\ \A o \in Obligations : o \notin S => observed'[o] = observed[o]
        /\ \A o \in S : observed'[o] = IF o \in off THEN "unmet" ELSE "met"
        /\ UNCHANGED <<only, t, k, seen, judged, summary, exit>>
        /\ \A i, u : Passed(i, u)' <=> Passed(i, u)
        /\ failures' \subseteq {Control} \cup Obligations
    BY <1>1, <1>2, <2>1, <2>2, FoundTruth
  <2>4. HarnessTypeOK'
    BY <1>1, <2>1, <2>3 DEF HarnessInv, HarnessTypeOK, Phases, Subjects
  <2>5. Order'
    BY <1>1, <2>1, <2>3 DEF HarnessInv, Order
  <2>6. observed'[LiveRed] = "met"
    BY <2>1, <2>3
  <2> HIDE DEF S
  <2>7. NotYet'
    BY <1>1, <1>3, <2>1, <2>3, ObligationsAre, UnitsAre
    DEF HarnessInv, NotYet, Opening, Unknown, TreeObligations
  <2>8. Accounted'
    BY <1>1, <1>3, <2>1, <2>3, <2>6, ObligationsAre, UnitsAre
    DEF HarnessInv, Accounted, Opening, Phases, Unknown, TreeObligations, Kept
  <2>9. QED BY <2>3, <2>4, <2>5, <2>7, <2>8 DEF HarnessInv
<1>6. QED BY <1>4, <1>5

\* The modules, each a root of its own.
LEMMA LibraryKeeps ==
  ASSUME HarnessInv, NEW bad \in SUBSET Modules, NEW entryIsModule \in BOOLEAN, Library(bad, entryIsModule)
  PROVE  HarnessInv' /\ Kept
<1> DEFINE S == {EntryGiven} \cup ModuleObligations
           off == {<<"module", m>> : m \in bad} \cup (IF entryIsModule THEN {} ELSE {EntryGiven})
<1>1. /\ phase = "library" /\ phase' = "repro" /\ failures' = failures \cup off /\ Find(S, off)
      /\ UNCHANGED <<judgementVars, summary, exit>> /\ tree' = tree
  BY DEF Library, Goto
<1>2. S \in SUBSET Obligations /\ off \in SUBSET S /\ \A o \in S : Unknown(o)
  BY <1>1, ObligationsAre DEF HarnessInv, NotYet, Opening, ModuleObligations
<1>3. /\ FloorList \notin S /\ Instruments \notin S /\ LiveRed \notin S
      /\ S \cap (ReproObligations \cup TreeObligations \cup LineObligations \cup UnitObligations) = {}
      /\ EntryGiven \in S /\ ModuleObligations \subseteq S
  BY KindsDiffer, RunKindsDiffer
<1> HIDE DEF S, off
<1>4. /\ Truthful' /\ Kept /\ Matched'
      /\ observed' \in [Obligations -> {"unknown", "met", "unmet"}]
      /\ \A o \in Obligations : o \notin S => observed'[o] = observed[o]
      /\ \A o \in S : observed'[o] = IF o \in off THEN "unmet" ELSE "met"
      /\ UNCHANGED <<only, t, k, seen, judged, summary, exit>>
      /\ \A i, u : Passed(i, u)' <=> Passed(i, u)
      /\ failures' \subseteq {Control} \cup Obligations
  BY <1>1, <1>2, FoundTruth
<1>5. HarnessTypeOK'
  BY <1>1, <1>4 DEF HarnessInv, HarnessTypeOK, Phases, Subjects
<1>6. Order'
  BY <1>1, <1>4 DEF HarnessInv, Order
<1>7. NotYet'
  BY <1>1, <1>3, <1>4, ObligationsAre, UnitsAre
  DEF HarnessInv, NotYet, Opening, Unknown, TreeObligations
<1>8. Accounted'
  BY <1>1, <1>3, <1>4, ObligationsAre, UnitsAre
  DEF HarnessInv, Accounted, Opening, Phases, Unknown, TreeObligations, Kept
<1>9. QED BY <1>4, <1>5, <1>6, <1>7, <1>8 DEF HarnessInv

\* The roots compiled twice.
LEMMA ReproKeeps ==
  ASSUME HarnessInv, NEW differ \in SUBSET Roots, Repro(differ)
  PROVE  HarnessInv' /\ Kept
<1> DEFINE S == ReproObligations
           off == {<<"repro", r>> : r \in differ}
<1>1. /\ phase = "repro" /\ phase' = "list" /\ failures' = failures \cup off /\ Find(S, off)
      /\ UNCHANGED <<judgementVars, summary, exit>> /\ tree' = tree
  BY DEF Repro, Goto
<1>2. S \in SUBSET Obligations /\ off \in SUBSET S /\ \A o \in S : Unknown(o)
  BY <1>1, ObligationsAre DEF HarnessInv, NotYet, Opening, ReproObligations
<1>3. /\ FloorList \notin S /\ Instruments \notin S /\ LiveRed \notin S /\ EntryGiven \notin S
      /\ S \cap (ModuleObligations \cup TreeObligations \cup LineObligations \cup UnitObligations) = {}
      /\ ReproObligations \subseteq S
  BY KindsDiffer, RunKindsDiffer
<1> HIDE DEF S, off
<1>4. /\ Truthful' /\ Kept /\ Matched'
      /\ observed' \in [Obligations -> {"unknown", "met", "unmet"}]
      /\ \A o \in Obligations : o \notin S => observed'[o] = observed[o]
      /\ \A o \in S : observed'[o] = IF o \in off THEN "unmet" ELSE "met"
      /\ UNCHANGED <<only, t, k, seen, judged, summary, exit>>
      /\ \A i, u : Passed(i, u)' <=> Passed(i, u)
      /\ failures' \subseteq {Control} \cup Obligations
  BY <1>1, <1>2, FoundTruth
<1>5. HarnessTypeOK'
  BY <1>1, <1>4 DEF HarnessInv, HarnessTypeOK, Phases, Subjects
<1>6. Order'
  BY <1>1, <1>4 DEF HarnessInv, Order
<1>7. NotYet'
  BY <1>1, <1>3, <1>4, ObligationsAre, UnitsAre
  DEF HarnessInv, NotYet, Opening, Unknown, TreeObligations
<1>8. Accounted'
  BY <1>1, <1>3, <1>4, ObligationsAre, UnitsAre
  DEF HarnessInv, Accounted, Opening, Phases, Unknown, TreeObligations, Kept
<1>9. QED BY <1>4, <1>5, <1>6, <1>7, <1>8 DEF HarnessInv

\* The next tree check.
LEMMA TreeCheckKeeps ==
  ASSUME HarnessInv, NEW clean \in BOOLEAN, TreeCheck(clean)
  PROVE  HarnessInv' /\ Kept
<1> DEFINE o1 == <<"tree", tree + 1>>
           S == {o1}
           off == IF clean THEN {} ELSE {o1}
<1>1. /\ phase = "trees" /\ phase' = "trees" /\ tree < Len(TreeChecks) /\ tree' = tree + 1
      /\ failures' = failures \cup off /\ Find(S, off) /\ UNCHANGED <<judgementVars, summary, exit>>
  BY DEF TreeCheck, Goto
<1>2. tree \in Nat /\ Len(TreeChecks) \in Nat /\ DOMAIN TreeChecks = 1..Len(TreeChecks)
  <2>1. TreeChecks \in Seq(STRING)
    BY HarnessAssumption
  <2>2. Len(TreeChecks) \in Nat /\ DOMAIN TreeChecks = 1..Len(TreeChecks)
    BY <2>1
  <2>3. tree \in 0..Len(TreeChecks)
    BY DEF HarnessInv, HarnessTypeOK
  <2>4. QED BY <2>2, <2>3
<1>3. tree + 1 \in DOMAIN TreeChecks /\ o1 \in TreeObligations
  BY <1>1, <1>2 DEF TreeObligations
<1>4. S \in SUBSET Obligations /\ off \in SUBSET S /\ \A o \in S : Unknown(o)
  BY <1>1, <1>2, <1>3, ObligationsAre DEF HarnessInv, NotYet
<1>5. /\ \A j \in DOMAIN TreeChecks : j # tree + 1 => <<"tree", j>> \notin S
      /\ S \cap ({FloorList, Instruments, LiveRed, EntryGiven} \cup ModuleObligations \cup ReproObligations
                   \cup LineObligations \cup UnitObligations) = {}
      /\ <<"tree", tree + 1>> \in S
  BY KindsDiffer
<1> HIDE DEF S, off
<1>6. /\ Truthful' /\ Kept /\ Matched'
      /\ observed' \in [Obligations -> {"unknown", "met", "unmet"}]
      /\ \A o \in Obligations : o \notin S => observed'[o] = observed[o]
      /\ \A o \in S : observed'[o] = IF o \in off THEN "unmet" ELSE "met"
      /\ UNCHANGED <<only, t, k, seen, judged, summary, exit>>
      /\ \A i, u : Passed(i, u)' <=> Passed(i, u)
      /\ failures' \subseteq {Control} \cup Obligations
      /\ AllJudged' <=> AllJudged
  BY <1>1, <1>4, FoundTruth
<1>7. HarnessTypeOK'
  <2>1. tree' \in 0..Len(TreeChecks)
    BY <1>1, <1>2
  <2>2. HarnessTypeOK
    BY DEF HarnessInv
  <2>3. QED BY <1>1, <1>6, <2>1, <2>2 DEF HarnessTypeOK, Phases, Subjects
<1>8. Order'
  BY <1>1, <1>6 DEF HarnessInv, Order
<1>9. NotYet'
  BY <1>1, <1>2, <1>3, <1>5, <1>6, ObligationsAre, UnitsAre
  DEF HarnessInv, NotYet, Opening, Unknown, TreeObligations
<1>10. Accounted'
  <2>1. \A j \in DOMAIN TreeChecks : (j <= tree' /\ only' = NoFilter) => ~Unknown(<<"tree", j>>)'
    <3> SUFFICES ASSUME NEW j \in DOMAIN TreeChecks, j <= tree + 1, only = NoFilter
                 PROVE  observed'[<<"tree", j>>] # "unknown"
      BY <1>1, <1>6 DEF Unknown
    <3>1. CASE j = tree + 1
      BY <1>5, <1>6, <3>1
    <3>2. CASE j # tree + 1
      <4>1. j <= tree /\ <<"tree", j>> \in Obligations
        BY <1>2, <3>2, ObligationsAre DEF TreeObligations
      <4>2. observed[<<"tree", j>>] # "unknown"
        BY <4>1 DEF HarnessInv, Accounted, Unknown
      <4>3. QED BY <1>5, <1>6, <3>2, <4>1, <4>2
    <3>3. QED BY <3>1, <3>2
  <2>2. QED
    BY <1>1, <1>5, <1>6, <2>1, ObligationsAre, UnitsAre
    DEF HarnessInv, Accounted, Opening, Phases, Unknown
<1>11. QED BY <1>6, <1>7, <1>8, <1>9, <1>10 DEF HarnessInv

-----------------------------------------------------------------------------
(* The suites. *)

\* An entry's subjects are distinct, are units it owes a verdict, and in a full run are all of them.
LEMMA SubjectsAre ==
  ASSUME NEW i \in DOMAIN Tests, only \in Filters \cup {NoFilter}
  PROVE  /\ Subjects(Tests[i]) \in Seq(DOMAIN KeyOf \cup {NoUnit})
         /\ \A a, b \in 1..Len(Subjects(Tests[i])) : Subjects(Tests[i])[a] = Subjects(Tests[i])[b] => a = b
         /\ \A a \in 1..Len(Subjects(Tests[i])) : Subjects(Tests[i])[a] \in UnitsOf(i)
         /\ only = NoFilter => \A u \in UnitsOf(i) : \E a \in 1..Len(Subjects(Tests[i])) :
                                 Subjects(Tests[i])[a] = u
<1>1. /\ Tests[i] \in [stage : {"program", "check", "parse"}, units : Seq(DOMAIN KeyOf)]
      /\ \A a, b \in DOMAIN Tests[i].units : Tests[i].units[a] = Tests[i].units[b] => a = b
  <2>1. Tests \in Seq([stage : {"program", "check", "parse"}, units : Seq(DOMAIN KeyOf)])
    BY HarnessAssumption
  <2>2. Tests[i] \in [stage : {"program", "check", "parse"}, units : Seq(DOMAIN KeyOf)]
    <3> DEFINE E == [stage : {"program", "check", "parse"}, units : Seq(DOMAIN KeyOf)]
    <3>1. Tests \in Seq(E)
      BY <2>1
    <3> HIDE DEF E
    <3>2. Tests[i] \in E
      BY <3>1
    <3>3. QED BY <3>2 DEF E
  <2>3. \A a, b \in DOMAIN Tests[i].units : Tests[i].units[a] = Tests[i].units[b] => a = b
    BY HarnessAssumption
  <2>4. QED BY <2>2, <2>3
<1>2. CASE Tests[i].stage # "parse"
  <2>1. Subjects(Tests[i]) = Tests[i].units /\ Tests[i].units \in Seq(DOMAIN KeyOf)
    BY <1>1, <1>2 DEF Subjects
  <2>2. UnitsOf(i) = {Tests[i].units[j] : j \in DOMAIN Tests[i].units}
    BY <1>2 DEF UnitsOf
  <2>3. DOMAIN Tests[i].units = 1..Len(Tests[i].units)
    BY <2>1
  <2>4. QED BY <1>1, <2>1, <2>2, <2>3
<1>3. CASE Tests[i].stage = "parse" /\ only = NoFilter
  <2>1. Subjects(Tests[i]) = <<NoUnit>>
    BY <1>3 DEF Subjects
  <2>2. UnitsOf(i) = {NoUnit}
    BY <1>3 DEF UnitsOf
  <2>3. Len(<<NoUnit>>) = 1 /\ <<NoUnit>>[1] = NoUnit
    OBVIOUS
  <2>4. \A a \in 1..Len(<<NoUnit>>) : a = 1
    BY <2>3
  <2>5. 1 \in 1..Len(<<NoUnit>>)
    BY <2>3
  <2>6. <<NoUnit>> \in Seq(DOMAIN KeyOf \cup {NoUnit})
    OBVIOUS
  <2>7. QED BY <2>1, <2>2, <2>3, <2>4, <2>5, <2>6
<1>4. CASE Tests[i].stage = "parse" /\ only # NoFilter
  <2>1. Subjects(Tests[i]) = <<>>
    BY <1>4 DEF Subjects
  <2>2. Len(<<>>) = 0 /\ <<>> \in Seq(DOMAIN KeyOf \cup {NoUnit})
    OBVIOUS
  <2>3. QED BY <1>4, <2>1, <2>2
<1>5. QED BY <1>2, <1>3, <1>4

\* The manifest's entries are a list.
LEMMA TestsAre == Len(Tests) \in Nat /\ DOMAIN Tests = 1..Len(Tests)
<1>1. Tests \in Seq([stage : {"program", "check", "parse"}, units : Seq(DOMAIN KeyOf)])
  BY HarnessAssumption
<1>2. QED BY <1>1

\* What the step that judges a unit does, its verdict named.
LEMMA JudgeUnitIs ==
  ASSUME HarnessInv, JudgeUnit
  PROVE  \E u \in UnitsOf(t), v \in {"PASS", "FAIL", "PEND"} :
           /\ phase = "suites" /\ phase' = "suites" /\ t \in DOMAIN Tests
           /\ u \in DOMAIN KeyOf \cup {NoUnit}
           /\ ~Passed(t, u)
           /\ k' = k + 1 /\ k < Len(Subjects(Tests[t])) /\ Subjects(Tests[t])[k + 1] = u
           /\ UNCHANGED <<only, t, summary, exit, failures, tree>>
           /\ judged' = Append(judged, [verdict |-> v, test |-> t, unit |-> u])
           /\ \/ v # "PEND" /\ seen' = seen
              \/ v # "PASS" /\ KeyOf[u] \in PendingList /\ seen' = seen \cup {KeyOf[u]}
           /\ Find({<<"unit", <<t, u>>>>}, IF v = "FAIL" THEN {<<"unit", <<t, u>>>>} ELSE {})
<1> DEFINE u == Subject
<1>1. /\ phase = "suites" /\ phase' = "suites" /\ UNCHANGED <<only, t, summary, exit, failures, tree>>
      /\ Reached /\ k' = k + 1
      /\ Find({<<"unit", <<t, u>>>>},
              IF judged'[Len(judged')].verdict = "FAIL" THEN {<<"unit", <<t, u>>>>} ELSE {})
  BY DEF JudgeUnit, JudgeNext, Goto
<1>2. PICK v \in {"PASS", "FAIL", "PEND"} : Give(u, v)
  BY DEF JudgeUnit, JudgeNext
<1>3. t \in DOMAIN Tests /\ k < Len(Subjects(Tests[t])) /\ Subjects(Tests[t])[k + 1] = u
  BY <1>1 DEF Reached, Subject
<1>4. /\ only \in Filters \cup {NoFilter} /\ judged \in Seq(Verdict)
      /\ k \in 0..Len(Subjects(Tests[t]))
  BY <1>3 DEF HarnessInv, HarnessTypeOK
<1> HIDE DEF u
<1>5. Len(Subjects(Tests[t])) \in Nat /\ k + 1 \in 1..Len(Subjects(Tests[t])) /\ k \in Nat
  <2>1. Subjects(Tests[t]) \in Seq(DOMAIN KeyOf \cup {NoUnit})
    BY <1>3, <1>4, SubjectsAre
  <2>2. Len(Subjects(Tests[t])) \in Nat
    BY <2>1
  <2>3. QED BY <1>3, <1>4, <2>2
<1>6. u \in UnitsOf(t) /\ u \in DOMAIN KeyOf \cup {NoUnit}
  <2>1. Subjects(Tests[t]) \in Seq(DOMAIN KeyOf \cup {NoUnit})
    BY <1>3, <1>4, SubjectsAre
  <2>2. Subjects(Tests[t])[k + 1] \in DOMAIN KeyOf \cup {NoUnit}
    BY <1>5, <2>1
  <2>3. Subjects(Tests[t])[k + 1] \in UnitsOf(t)
    BY <1>3, <1>4, <1>5, SubjectsAre
  <2>4. QED BY <1>3, <2>2, <2>3
<1>7. ~Passed(t, u)
  <2>1. ~(t < t)
    <3>1. t \in 1..(Len(Tests) + 1) /\ Len(Tests) \in Nat
      BY TestsAre DEF HarnessInv, HarnessTypeOK
    <3>2. QED BY <3>1
  <2>2. ASSUME NEW j \in 1..k, Subjects(Tests[t])[j] = u PROVE FALSE
    <3>1. j \in 1..Len(Subjects(Tests[t])) /\ j # k + 1
      BY <1>4, <1>5
    <3>2. j = k + 1
      BY <1>3, <1>4, <1>5, <2>2, <3>1, SubjectsAre
    <3>3. QED BY <3>1, <3>2
  <2>3. QED BY <2>1, <2>2 DEF Passed
<1>8. judged' = Append(judged, [verdict |-> v, test |-> t, unit |-> u])
  BY <1>2 DEF Give
<1>9. judged'[Len(judged')].verdict = v
  <2>1. Len(judged') = Len(judged) + 1 /\ judged'[Len(judged) + 1] = [verdict |-> v, test |-> t, unit |-> u]
    BY <1>4, <1>8
  <2>2. QED BY <2>1
<1>10. \/ v # "PEND" /\ seen' = seen
       \/ v # "PASS" /\ KeyOf[u] \in PendingList /\ seen' = seen \cup {KeyOf[u]}
  BY <1>2 DEF Give, Reviewed
<1>11. QED BY <1>1, <1>3, <1>6, <1>7, <1>8, <1>9, <1>10

\* The next unit's verdict.
LEMMA JudgeUnitKeeps ==
  ASSUME HarnessInv, JudgeUnit
  PROVE  HarnessInv' /\ Kept
<1>1. PICK u \in UnitsOf(t), v \in {"PASS", "FAIL", "PEND"} :
           /\ phase = "suites" /\ phase' = "suites" /\ t \in DOMAIN Tests
           /\ u \in DOMAIN KeyOf \cup {NoUnit}
           /\ ~Passed(t, u)
           /\ k' = k + 1 /\ k < Len(Subjects(Tests[t])) /\ Subjects(Tests[t])[k + 1] = u
           /\ UNCHANGED <<only, t, summary, exit, failures, tree>>
           /\ judged' = Append(judged, [verdict |-> v, test |-> t, unit |-> u])
           /\ \/ v # "PEND" /\ seen' = seen
              \/ v # "PASS" /\ KeyOf[u] \in PendingList /\ seen' = seen \cup {KeyOf[u]}
           /\ Find({<<"unit", <<t, u>>>>}, IF v = "FAIL" THEN {<<"unit", <<t, u>>>>} ELSE {})
  BY JudgeUnitIs
<1> DEFINE o1 == <<"unit", <<t, u>>>>
           S == {o1}
           off == IF v = "FAIL" THEN {o1} ELSE {}
           new == [verdict |-> v, test |-> t, unit |-> u]
<1>2. o1 \in UnitObligations /\ S \in SUBSET Obligations /\ off \in SUBSET S /\ \A o \in S : Unknown(o)
  <2>1. o1 \in UnitObligations
    BY <1>1, UnitsAre
  <2>2. Unknown(o1)
    BY <1>1 DEF HarnessInv, NotYet
  <2>3. QED BY <2>1, <2>2, ObligationsAre
<1>3. Find(S, off) /\ o1 \in S
  BY <1>1
<1>4. /\ S \cap ({FloorList, Instruments, LiveRed, EntryGiven} \cup ModuleObligations \cup ReproObligations
                   \cup LineObligations \cup TreeObligations) = {}
      /\ \A i, w : <<"unit", <<i, w>>>> \in S => i = t /\ w = u
  BY <1>2, KindsDiffer
<1>5. v = "FAIL" => off = {o1}
  OBVIOUS
<1>6. v # "FAIL" => off = {}
  OBVIOUS
<1> HIDE DEF S, off
<1>7. HarnessTypeOK /\ observed \in [Obligations -> {"unknown", "met", "unmet"}] /\ judged \in Seq(Verdict)
  BY DEF HarnessInv, HarnessTypeOK
<1>8. /\ observed' \in [Obligations -> {"unknown", "met", "unmet"}] /\ Kept
      /\ \A o \in Obligations : o \notin S => observed'[o] = observed[o]
      /\ \A o \in S : observed'[o] = IF o \in off THEN "unmet" ELSE "met"
  BY <1>2, <1>3, <1>7, Found DEF Kept
<1>9. k \in Nat /\ k' \in 0..Len(Subjects(Tests[t])) /\ Subjects(Tests[t])' = Subjects(Tests[t])
  <2>1. Subjects(Tests[t]) \in Seq(DOMAIN KeyOf \cup {NoUnit})
    BY <1>1, <1>7, SubjectsAre DEF HarnessTypeOK
  <2>2. Len(Subjects(Tests[t])) \in Nat
    BY <2>1
  <2>3. k \in 0..Len(Subjects(Tests[t]))
    BY <1>1, <1>7 DEF HarnessTypeOK
  <2>4. Subjects(Tests[t])' = Subjects(Tests[t])
    BY <1>1 DEF Subjects
  <2>5. QED BY <1>1, <2>2, <2>3, <2>4
<1>10. HarnessTypeOK'
  <2>1. new \in Verdict
    BY <1>1 DEF Verdict
  <2>2. judged' \in Seq(Verdict)
    BY <1>1, <1>7, <2>1
  <2>3. seen' \subseteq PendingList
    BY <1>1, <1>7 DEF HarnessTypeOK
  <2>4. k' \in 0..(IF t \in DOMAIN Tests THEN Len(Subjects(Tests[t])') ELSE 0)
    BY <1>1, <1>9
  <2> HIDE DEF new
  <2>5. QED BY <1>1, <1>7, <1>8, <2>2, <2>3, <2>4 DEF HarnessTypeOK, Phases, Subjects
<1>11. Order'
  BY <1>1 DEF HarnessInv, Order
<1>12. \A i, w : Passed(i, w)' <=> Passed(i, w) \/ (i = t /\ w = u)
  <2> SUFFICES ASSUME NEW w
               PROVE  (\E j \in 1..(k + 1) : Subjects(Tests[t])[j] = w)
                        <=> (\E j \in 1..k : Subjects(Tests[t])[j] = w) \/ w = u
    BY <1>1, <1>9 DEF Passed
  <2>1. 1..(k + 1) = 1..k \cup {k + 1}
    BY <1>9
  <2>2. QED BY <1>1, <2>1
<1>13. NotYet'
  BY <1>1, <1>2, <1>4, <1>8, <1>12, ObligationsAre, UnitsAre
  DEF HarnessInv, NotYet, Opening, Unknown, TreeObligations
<1>14. Accounted'
  <2>1. \A i \in DOMAIN Tests : \A w \in UnitsOf(i) :
          (Passed(i, w)' /\ only = NoFilter) => observed'[<<"unit", <<i, w>>>>] # "unknown"
    <3> SUFFICES ASSUME NEW i \in DOMAIN Tests, NEW w \in UnitsOf(i),
                        Passed(i, w) \/ (i = t /\ w = u), only = NoFilter
                 PROVE  observed'[<<"unit", <<i, w>>>>] # "unknown"
      BY <1>12
    <3>1. CASE Passed(i, w)
      <4>1. ~Unknown(<<"unit", <<i, w>>>>)
        BY <3>1 DEF HarnessInv, Accounted
      <4>2. <<"unit", <<i, w>>>> \in Obligations
        BY UnitsAre, ObligationsAre
      <4>3. QED BY <1>8, <4>1, <4>2 DEF Kept, Unknown
    <3>2. CASE i = t /\ w = u
      BY <1>3, <1>8, <3>2
    <3>3. QED BY <3>1, <3>2
  <2>2. QED
    BY <1>1, <1>2, <1>4, <1>8, <2>1, ObligationsAre
    DEF HarnessInv, Accounted, Opening, Phases, Unknown, TreeObligations
<1>15. /\ DOMAIN judged = 1..Len(judged) /\ Len(judged) \in Nat
       /\ DOMAIN judged' = 1..(Len(judged) + 1)
       /\ \A n \in DOMAIN judged : judged'[n] = judged[n] /\ n \in DOMAIN judged'
       /\ judged'[Len(judged) + 1] = new
       /\ \A n \in DOMAIN judged' : n \in DOMAIN judged \/ n = Len(judged) + 1
  <2>1. DOMAIN judged = 1..Len(judged) /\ Len(judged) \in Nat
    BY <1>7
  <2>2. DOMAIN judged' = 1..(Len(judged) + 1)
    BY <1>1, <1>7
  <2>3. QED BY <1>1, <1>7, <2>1, <2>2
<1>16. new.verdict = v /\ new.test = t /\ new.unit = u
  OBVIOUS
<1> HIDE DEF new
<1>17. Matched'
  <2>1. \A n \in DOMAIN judged' : judged'[n].test \in DOMAIN Tests /\ judged'[n].unit \in UnitsOf(judged'[n].test)
    BY <1>1, <1>15, <1>16 DEF HarnessInv, Matched
  <2>2. ASSUME NEW x \in seen'
        PROVE  \E n \in DOMAIN judged' :
                 KeyOf[judged'[n].unit] = x /\ judged'[n].verdict \in {"PEND", "FAIL"}
    <3>1. CASE x \in seen
      BY <1>15, <3>1 DEF HarnessInv, Matched
    <3>2. CASE x \notin seen
      <4>1. v # "PASS" /\ x = KeyOf[u]
        BY <1>1, <2>2, <3>2
      <4>2. Len(judged) + 1 \in DOMAIN judged'
        BY <1>15
      <4>3. QED BY <1>1, <1>15, <1>16, <4>1, <4>2
    <3>3. QED BY <3>1, <3>2
  <2>3. \A n \in DOMAIN judged' : judged'[n].verdict = "PEND" => KeyOf[judged'[n].unit] \in seen'
    BY <1>1, <1>15, <1>16 DEF HarnessInv, Matched
  <2>4. QED BY <2>1, <2>2, <2>3 DEF Matched
<1>18. FailedUnits' = FailedUnits \cup off
  <2>1. FailedUnits' \subseteq FailedUnits \cup off
    <3> SUFFICES ASSUME NEW n \in DOMAIN judged', judged'[n].verdict = "FAIL"
                 PROVE  <<"unit", <<judged'[n].test, judged'[n].unit>>>> \in FailedUnits \cup off
      BY DEF FailedUnits
    <3>1. CASE n \in DOMAIN judged
      BY <1>15, <3>1 DEF FailedUnits
    <3>2. CASE n = Len(judged) + 1
      BY <1>5, <1>15, <1>16, <3>2
    <3>3. QED BY <1>15, <3>1, <3>2
  <2>2. FailedUnits \subseteq FailedUnits'
    BY <1>15 DEF FailedUnits
  <2>3. ASSUME v = "FAIL" PROVE o1 \in FailedUnits'
    <3>1. Len(judged) + 1 \in DOMAIN judged'
      BY <1>15
    <3>2. QED BY <1>15, <1>16, <2>3, <3>1 DEF FailedUnits
  <2>4. QED BY <1>5, <1>6, <2>1, <2>2, <2>3
<1>19. Truthful'
  <2>1. exit = NoExit /\ summary = "none"
    BY <1>1 DEF HarnessInv, Order
  <2>2. (Failing => SomeUnmet) /\ (SomeUnmet => Failing)
    BY <2>1, StatusIs DEF HarnessInv, Truthful
  <2>3. Failing' => SomeUnmet'
    <3>1. ASSUME v = "FAIL" PROVE SomeUnmet'
      <4>1. observed'[o1] = "unmet"
        BY <1>3, <1>5, <1>8, <3>1
      <4>2. QED BY <1>2, <1>3, <4>1 DEF SomeUnmet
    <3>2. ASSUME Failing PROVE SomeUnmet'
      <4>1. PICK o \in Obligations : observed[o] = "unmet"
        BY <2>2, <3>2 DEF SomeUnmet
      <4>2. observed'[o] = "unmet"
        BY <1>8, <4>1 DEF Kept, Unknown
      <4>3. QED BY <4>2 DEF SomeUnmet
    <3>3. v # "FAIL" => (Failing' => Failing)
      BY <1>1, <1>6, <1>18 DEF Failing
    <3>4. QED BY <3>1, <3>2, <3>3
  <2>4. SomeUnmet' => Failing'
    <3> SUFFICES ASSUME NEW o \in Obligations, observed'[o] = "unmet" PROVE Failing'
      BY DEF SomeUnmet
    <3>1. CASE o \in S
      BY <1>8, <1>18, <3>1 DEF Failing
    <3>2. CASE o \notin S
      <4>1. Failing
        BY <1>8, <2>2, <3>2 DEF SomeUnmet
      <4>2. QED BY <1>1, <1>18, <4>1 DEF Failing
    <3>3. QED BY <3>1, <3>2
  <2>5. ExitTellsFailure'
    <3>1. exit' # 0 /\ exit' # 1
      BY <1>1, <2>1, StatusIs
    <3>2. QED BY <3>1 DEF ExitTellsFailure
  <2>6. QED BY <2>3, <2>4, <2>5 DEF Truthful
<1>20. QED BY <1>8, <1>10, <1>11, <1>13, <1>14, <1>17, <1>19 DEF HarnessInv

\* A step of the suites that judges nothing.
LEMMA LeaveKeeps ==
  ASSUME HarnessInv, LeaveOut \/ LeaveEntry
  PROVE  HarnessInv' /\ Kept
<1>1. /\ phase = "suites" /\ phase' = "suites" /\ t \in DOMAIN Tests
      /\ UNCHANGED <<only, seen, judged, summary, exit, failures, tree, observed>>
  BY DEF LeaveOut, LeaveEntry, PassOver, NextEntry, Reached, Goto
<1>2. HarnessTypeOK /\ Subjects(Tests[t]) \in Seq(DOMAIN KeyOf \cup {NoUnit})
  BY <1>1, SubjectsAre DEF HarnessInv, HarnessTypeOK
<1>3. /\ Len(Subjects(Tests[t])) \in Nat /\ k \in 0..Len(Subjects(Tests[t]))
      /\ Len(Tests) \in Nat /\ t \in 1..Len(Tests)
  <2>1. Len(Subjects(Tests[t])) \in Nat
    BY <1>2
  <2>2. QED BY <1>1, <1>2, <2>1, TestsAre DEF HarnessTypeOK
<1>4. \A i : Subjects(Tests[i])' = Subjects(Tests[i])
  BY <1>1 DEF Subjects
<1>5. Kept /\ Matched' /\ Truthful' /\ \A o : Unknown(o)' <=> Unknown(o)
  BY <1>1
  DEF Kept, HarnessInv, Matched, Truthful, Failing, FailedUnits, SomeUnmet, ExitTellsFailure, Unknown
<1>6. Order'
  BY <1>1 DEF HarnessInv, Order
<1>7. CASE LeaveOut
  <2>1. t' = t /\ k' = k + 1 /\ k < Len(Subjects(Tests[t])) /\ only # NoFilter
    BY <1>1, <1>7 DEF LeaveOut, PassOver, Reached, Selected
  <2>2. HarnessTypeOK'
    <3>1. k' \in 0..Len(Subjects(Tests[t]))
      BY <1>3, <2>1
    <3>2. k' \in 0..(IF t' \in DOMAIN Tests THEN Len(Subjects(Tests[t'])) ELSE 0)
      BY <1>1, <2>1, <3>1
    <3>3. QED BY <1>1, <1>2, <2>1, <3>2 DEF HarnessTypeOK, Subjects
  <2>3. \A i, u : Passed(i, u) => Passed(i, u)'
    BY <1>3, <1>4, <2>1 DEF Passed
  <2>4. NotYet'
    BY <1>1, <1>5, <2>3 DEF HarnessInv, NotYet
  <2>5. Accounted'
    BY <1>1, <2>1 DEF Accounted
  <2>6. QED BY <1>5, <1>6, <2>2, <2>4, <2>5 DEF HarnessInv
<1>8. CASE LeaveEntry
  <2>1. t' = t + 1 /\ k' = 0 /\ k = Len(Subjects(Tests[t]))
    BY <1>8 DEF LeaveEntry, NextEntry
  <2>2. HarnessTypeOK'
    <3>1. t' \in 1..(Len(Tests) + 1)
      BY <1>3, <2>1
    <3>2. k' \in 0..(IF t' \in DOMAIN Tests THEN Len(Subjects(Tests[t'])) ELSE 0)
      <4>1. CASE t' \notin DOMAIN Tests
        BY <2>1, <4>1
      <4>2. CASE t' \in DOMAIN Tests
        <5>1. Subjects(Tests[t']) \in Seq(DOMAIN KeyOf \cup {NoUnit})
          BY <1>2, <4>2, SubjectsAre DEF HarnessTypeOK
        <5>2. Len(Subjects(Tests[t'])) \in Nat
          BY <5>1
        <5>3. QED BY <2>1, <4>2, <5>2
      <4>3. QED BY <4>1, <4>2
    <3>3. QED BY <1>1, <1>2, <3>1, <3>2 DEF HarnessTypeOK, Subjects
  <2>3. \A i \in DOMAIN Tests : \A u : Passed(i, u)' <=> i <= t
    BY <1>3, <2>1, TestsAre DEF Passed
  <2>4. \A i \in DOMAIN Tests : \A u : Passed(i, u) => i <= t
    BY <1>3, TestsAre DEF Passed
  <2>5. NotYet'
    BY <1>1, <1>5, <2>3, <2>4 DEF HarnessInv, NotYet
  <2>6. ASSUME only = NoFilter, NEW i \in DOMAIN Tests, NEW u \in UnitsOf(i), i <= t
        PROVE  Passed(i, u)
    <3>1. CASE i < t
      BY <3>1 DEF Passed
    <3>2. CASE i = t
      <4>1. \E a \in 1..k : Subjects(Tests[t])[a] = u
        BY <1>1, <1>2, <2>1, <2>6, <3>2, SubjectsAre DEF HarnessTypeOK
      <4>2. QED BY <3>2, <4>1 DEF Passed
    <3>3. QED BY <1>3, <2>6, <3>1, <3>2, TestsAre
  <2>7. Accounted'
    BY <1>1, <1>5, <2>3, <2>6 DEF HarnessInv, Accounted
  <2>8. QED BY <1>5, <1>6, <2>2, <2>5, <2>7 DEF HarnessInv
<1>9. QED BY <1>7, <1>8

-----------------------------------------------------------------------------
(* The reviewed list's other direction, and the report. *)

LEMMA OrphansKeeps ==
  ASSUME HarnessInv, Orphans
  PROVE  HarnessInv' /\ Kept
<1> DEFINE S == LineObligations
           owed == {<<"line", x>> : x \in Unmatched}
           off == {<<"line", x>> : x \in {y \in PendingList : ~Excused(y)}}
<1>1. /\ phase = "orphans" /\ phase' = "report" /\ failures' = failures \cup owed
      /\ Find(S, off) /\ UNCHANGED <<only, t, k, seen, judged, tree, summary, exit>>
  BY DEF Orphans, Goto, judgementVars
<1>2. S \in SUBSET Obligations /\ off \in SUBSET S /\ \A o \in S : Unknown(o)
  BY <1>1, ObligationsAre DEF HarnessInv, NotYet, LineObligations
<1>3. S \cap ({FloorList, Instruments, LiveRed, EntryGiven} \cup ModuleObligations \cup ReproObligations
                \cup UnitObligations \cup TreeObligations) = {}
  BY KindsDiffer
<1>4. owed \subseteq off
  BY DEF Unmatched, Excused, HarnessInv, Matched
<1>5. ASSUME NEW o \in off PROVE o \in owed \/ FailedUnits # {}
  <2>1. PICK x \in PendingList : o = <<"line", x>> /\ ~Excused(x)
    BY <1>5
  <2>2. CASE x \notin seen
    BY <2>1, <2>2 DEF Unmatched
  <2>3. CASE x \in seen
    <3>1. PICK n \in DOMAIN judged : KeyOf[judged[n].unit] = x /\ judged[n].verdict \in {"PEND", "FAIL"}
      BY <2>3 DEF HarnessInv, Matched
    <3>2. judged[n].verdict = "FAIL"
      BY <2>1, <3>1 DEF Excused
    <3>3. QED BY <3>2 DEF FailedUnits
  <2>4. QED BY <2>2, <2>3
<1> HIDE DEF S, off, owed
<1>6. HarnessTypeOK /\ observed \in [Obligations -> {"unknown", "met", "unmet"}]
  BY DEF HarnessInv, HarnessTypeOK
<1>7. /\ observed' \in [Obligations -> {"unknown", "met", "unmet"}] /\ Kept
      /\ \A o \in Obligations : o \notin S => observed'[o] = observed[o]
      /\ \A o \in S : observed'[o] = IF o \in off THEN "unmet" ELSE "met"
  BY <1>1, <1>2, <1>6, Found DEF Kept
<1>8. HarnessTypeOK'
  BY <1>1, <1>2, <1>4, <1>6, <1>7 DEF HarnessTypeOK, Phases, Subjects
<1>9. Order'
  BY <1>1 DEF HarnessInv, Order, AllJudged
<1>10. \A i, u : Passed(i, u)' <=> Passed(i, u)
  BY <1>1 DEF Passed, Subjects
<1>11. NotYet'
  BY <1>1, <1>3, <1>7, <1>10, ObligationsAre, UnitsAre
  DEF HarnessInv, NotYet, Opening, Unknown, TreeObligations
<1>12. Accounted'
  BY <1>1, <1>3, <1>7, <1>10, ObligationsAre, UnitsAre
  DEF HarnessInv, Accounted, Opening, Phases, Unknown, TreeObligations, S
<1>13. Matched'
  BY <1>1 DEF HarnessInv, Matched
<1>14. Truthful'
  <2>1. exit = NoExit /\ (Failing => SomeUnmet) /\ (SomeUnmet => Failing)
    BY <1>1, StatusIs DEF HarnessInv, Truthful, Order
  <2>2. FailedUnits' = FailedUnits
    BY <1>1 DEF FailedUnits
  <2>3. Failing' => SomeUnmet'
    <3>1. ASSUME Failing PROVE SomeUnmet'
      <4>1. PICK o \in Obligations : observed[o] = "unmet"
        BY <2>1, <3>1 DEF SomeUnmet
      <4>2. observed'[o] = "unmet"
        BY <1>7, <4>1 DEF Kept, Unknown
      <4>3. QED BY <4>2 DEF SomeUnmet
    <3>2. ASSUME owed # {} PROVE SomeUnmet'
      <4>1. PICK o \in off : TRUE
        BY <1>4, <3>2
      <4>2. observed'[o] = "unmet" /\ o \in Obligations
        BY <1>2, <1>7
      <4>3. QED BY <4>2 DEF SomeUnmet
    <3>3. owed = {} => (Failing' => Failing)
      BY <1>1, <2>2 DEF Failing
    <3>4. QED BY <3>1, <3>2, <3>3
  <2>4. SomeUnmet' => Failing'
    <3> SUFFICES ASSUME NEW o \in Obligations, observed'[o] = "unmet" PROVE Failing'
      BY DEF SomeUnmet
    <3>1. CASE o \in off
      BY <1>1, <1>5, <2>2, <3>1 DEF Failing
    <3>2. CASE o \notin off
      <4>1. Failing
        BY <1>7, <2>1, <3>2 DEF SomeUnmet
      <4>2. QED BY <1>1, <2>2, <4>1 DEF Failing
    <3>3. QED BY <3>1, <3>2
  <2>5. ExitTellsFailure'
    <3>1. exit' # 0 /\ exit' # 1
      BY <1>1, <2>1, StatusIs
    <3>2. QED BY <3>1 DEF ExitTellsFailure
  <2>6. QED BY <2>3, <2>4, <2>5 DEF Truthful
<1>15. QED BY <1>7, <1>8, <1>9, <1>11, <1>12, <1>13, <1>14 DEF HarnessInv

\* The report, which is green only over obligations that were all met.
LEMMA ReportKeeps ==
  ASSUME HarnessInv, Report
  PROVE  /\ HarnessInv' /\ Kept
         /\ summary' = "GREEN" => \A o \in Obligations : observed'[o] = "met"
<1>1. /\ phase = "report" /\ phase' = "ended" /\ failures' = failures \cup FailedUnits
      /\ UNCHANGED <<only, t, k, seen, judged, tree, observed>>
  BY DEF Report, End, judgementVars
<1>2. \/ only # NoFilter /\ summary' = "FILTERED" /\ exit' = (IF failures' # {} THEN 1 ELSE 0)
      \/ only = NoFilter /\ failures' # {} /\ summary' = "RED" /\ exit' = 1
      \/ only = NoFilter /\ failures' = {} /\ summary' = "GREEN" /\ exit' = 0
  BY DEF Report, End
<1>3. FailedUnits \subseteq Obligations
  <2> SUFFICES ASSUME NEW n \in DOMAIN judged
               PROVE  <<"unit", <<judged[n].test, judged[n].unit>>>> \in Obligations
    BY DEF FailedUnits
  <2>1. judged[n].test \in DOMAIN Tests /\ judged[n].unit \in UnitsOf(judged[n].test)
    BY DEF HarnessInv, Matched
  <2>2. QED BY <2>1, UnitsAre, ObligationsAre
<1>4. HarnessTypeOK'
  <2>1. HarnessTypeOK
    BY DEF HarnessInv
  <2>2. failures' \subseteq {Control} \cup Obligations
    BY <1>1, <1>3, <2>1 DEF HarnessTypeOK
  <2>3. summary' \in {"none", "CANNOT PROCEED", "RED", "FILTERED", "GREEN"} /\ exit' \in {NoExit, 0, 1, 2}
    BY <1>2
  <2>4. QED BY <1>1, <2>1, <2>2, <2>3 DEF HarnessTypeOK, Phases, Subjects
<1>5. exit' # NoExit
  BY <1>2, StatusIs
<1>6. Order'
  BY <1>1, <1>5 DEF Order
<1>7. /\ Kept /\ Matched' /\ FailedUnits' = FailedUnits /\ (SomeUnmet' <=> SomeUnmet)
      /\ \A i, u : Passed(i, u)' <=> Passed(i, u)
      /\ \A o : Unknown(o)' <=> Unknown(o)
  BY <1>1 DEF Kept, HarnessInv, Matched, FailedUnits, SomeUnmet, Passed, Subjects, Unknown
<1>8. NotYet' /\ Accounted'
  BY <1>1, <1>7 DEF HarnessInv, NotYet, Accounted, Opening
<1>9. (failures' # {} <=> SomeUnmet) /\ (Failing' <=> SomeUnmet)
  <2>1. exit = NoExit
    BY <1>1 DEF HarnessInv, Order
  <2>2. Failing <=> SomeUnmet
    BY <2>1, StatusIs DEF HarnessInv, Truthful
  <2>3. QED BY <1>1, <1>7, <2>2 DEF Failing
<1>10. ExitTellsFailure'
  <2>1. exit' = 0 => ~SomeUnmet
    BY <1>2, <1>9
  <2>2. summary' \in {"RED", "FILTERED"} /\ exit' = 1 => SomeUnmet
    BY <1>2, <1>9
  <2>3. QED BY <1>1, <2>1, <2>2 DEF ExitTellsFailure, SomeUnmet
<1>11. Truthful'
  BY <1>7, <1>9, <1>10 DEF Truthful
<1>12. ASSUME summary' = "GREEN", NEW o \in Obligations PROVE observed'[o] = "met"
  <2>1. only = NoFilter /\ ~SomeUnmet
    BY <1>2, <1>9, <1>12
  <2>2. tree = Len(TreeChecks) /\ AllJudged
    BY <1>1, <2>1 DEF HarnessInv, Order
  <2>3. ~Unknown(o)
    <3> USE <1>1, <2>1 DEF HarnessInv, Accounted, Phases, Opening
    <3>1. CASE o \in {FloorList, Instruments, LiveRed, EntryGiven}
      BY <3>1 DEF Unknown
    <3>2. CASE o \in ModuleObligations \cup ReproObligations \cup LineObligations
      BY <3>2
    <3>3. CASE o \in TreeObligations
      <4>1. PICK j \in DOMAIN TreeChecks : o = <<"tree", j>>
        BY <3>3 DEF TreeObligations
      <4>2. j <= tree
        <5>1. TreeChecks \in Seq(STRING)
          BY HarnessAssumption
        <5>2. QED BY <2>2, <5>1
      <4>3. QED BY <4>1, <4>2
    <3>4. CASE o \in UnitObligations
      <4>0. PICK i \in DOMAIN Tests : o \in {<<"unit", <<i, u>>>> : u \in UnitsOf(i)}
        BY <3>4 DEF UnitObligations
      <4>1. PICK u \in UnitsOf(i) : o = <<"unit", <<i, u>>>>
        BY <4>0
      <4>2. i < t
        <5>1. t \in 1..(Len(Tests) + 1) /\ t \notin DOMAIN Tests
          BY <2>2 DEF HarnessInv, HarnessTypeOK, AllJudged
        <5>2. QED BY <5>1, TestsAre
      <4>3. QED BY <4>1, <4>2 DEF Passed
    <3>5. QED BY <3>1, <3>2, <3>3, <3>4 DEF Obligations
  <2>4. observed[o] \in {"unknown", "met", "unmet"} /\ observed[o] # "unmet"
    BY <2>1 DEF HarnessInv, HarnessTypeOK, SomeUnmet
  <2>5. QED BY <1>1, <2>3, <2>4 DEF Unknown
<1>13. QED BY <1>4, <1>6, <1>7, <1>8, <1>11, <1>12 DEF HarnessInv

-----------------------------------------------------------------------------
(* The theorems. *)

\* A run that has not begun keeps the invariant.
LEMMA InitHolds == HarnessInit => HarnessInv
<1> SUFFICES ASSUME HarnessInit PROVE HarnessInv
  OBVIOUS
<1>1. /\ only \in Filters \cup {NoFilter} /\ t = 1 /\ k = 0 /\ seen = {} /\ judged = <<>>
      /\ phase = "manifest" /\ failures = {} /\ tree = 0 /\ summary = "none" /\ exit = NoExit
      /\ observed = [o \in Obligations |-> "unknown"]
  BY DEF HarnessInit, JudgementInit
<1>2. HarnessTypeOK
  <2>1. k \in 0..(IF t \in DOMAIN Tests THEN Len(Subjects(Tests[t])) ELSE 0)
    <3>1. CASE t \in DOMAIN Tests
      <4>1. Subjects(Tests[t]) \in Seq(DOMAIN KeyOf \cup {NoUnit})
        BY <1>1, <3>1, SubjectsAre
      <4>2. Len(Subjects(Tests[t])) \in Nat
        BY <4>1
      <4>3. QED BY <1>1, <3>1, <4>2
    <3>2. QED BY <1>1, <3>1
  <2>2. tree \in 0..Len(TreeChecks) /\ t \in 1..(Len(Tests) + 1)
    <3>1. TreeChecks \in Seq(STRING)
      BY HarnessAssumption
    <3>2. Len(TreeChecks) \in Nat
      BY <3>1
    <3>3. QED BY <1>1, <3>2, TestsAre
  <2>3. judged \in Seq(Verdict)
    BY <1>1
  <2>4. QED BY <1>1, <2>1, <2>2, <2>3 DEF HarnessTypeOK, Phases
<1>3. Order
  BY <1>1, StatusIs DEF Order
<1>4. \A o \in Obligations : Unknown(o)
  BY <1>1 DEF Unknown
<1>5. NotYet
  BY <1>4, ObligationsAre, UnitsAre DEF NotYet, TreeObligations
<1>6. Accounted
  <2>1. \A i \in DOMAIN Tests : \A u : ~Passed(i, u)
    BY <1>1, TestsAre DEF Passed
  <2>2. \A j \in DOMAIN TreeChecks : ~(j <= tree)
    <3>1. TreeChecks \in Seq(STRING)
      BY HarnessAssumption
    <3>2. DOMAIN TreeChecks = 1..Len(TreeChecks) /\ Len(TreeChecks) \in Nat
      BY <3>1
    <3>3. QED BY <1>1, <3>2
  <2>3. QED BY <1>1, <2>1, <2>2 DEF Accounted, Opening, Phases
<1>7. DOMAIN judged = {}
  BY <1>1
<1>8. Matched
  BY <1>1, <1>7 DEF Matched
<1>9. Truthful
  <2>1. FailedUnits = {}
    BY <1>7 DEF FailedUnits
  <2>2. ~Failing
    BY <1>1, <2>1 DEF Failing
  <2>3. ~SomeUnmet
    BY <1>4 DEF SomeUnmet, Unknown
  <2>4. exit # 0 /\ exit # 1
    BY <1>1, StatusIs
  <2>5. QED BY <2>2, <2>3, <2>4 DEF Truthful, ExitTellsFailure
<1>10. QED BY <1>2, <1>3, <1>5, <1>6, <1>8, <1>9 DEF HarnessInv

\* Every step keeps the invariant and what was found, and none but the report can end green.
LEMMA StepHolds ==
  ASSUME HarnessInv, [HarnessNext]_harnessVars
  PROVE  HarnessInv' /\ Kept
<1>1. CASE UNCHANGED harnessVars
  <2>1. UNCHANGED <<judgementVars, failures, tree, observed, phase, summary, exit>>
    BY <1>1 DEF harnessVars
  <2>2. UNCHANGED <<only, t, k, seen, judged>>
    BY <2>1 DEF judgementVars
  <2>3. HarnessTypeOK' /\ Order'
    BY <2>1, <2>2 DEF HarnessInv, HarnessTypeOK, Subjects, Order, AllJudged
  <2>4. NotYet' /\ Accounted'
    BY <2>1, <2>2, Same DEF HarnessInv, NotYet, Accounted
  <2>5. Truthful'
    BY <2>1, <2>2, Same DEF HarnessInv, Truthful, ExitTellsFailure
  <2>6. QED BY <2>1, <2>3, <2>4, <2>5, Same DEF HarnessInv
<1>2. CASE HarnessNext
  BY <1>2, Idle, BaselineFailsKeeps, BaselineKeeps, SelfCheckKeeps, LibraryKeeps, ReproKeeps,
     JudgeUnitKeeps, LeaveKeeps, TreeCheckKeeps, OrphansKeeps, ReportKeeps
  DEF HarnessNext, HarnessSteps
<1>3. QED BY <1>1, <1>2

\* The inductive invariant holds in every run.
THEOREM HarnessInvariant == HarnessSpec => []HarnessInv
<1>1. HarnessInv /\ [HarnessNext]_harnessVars => HarnessInv'
  BY StepHolds
<1>2. QED BY InitHolds, <1>1, PTL DEF HarnessSpec

\* Every variable keeps its type, in every run of every manifest.
THEOREM HarnessTypes == HarnessSpec => []HarnessTypeOK
<1>1. HarnessInv => HarnessTypeOK
  BY DEF HarnessInv
<1>2. QED BY <1>1, HarnessInvariant, PTL

\* run.py's exit status is true, filtered or not: 0 when nothing was found unmet, and 1 under a
\* summary only when something was.
THEOREM StatusIsTrue == HarnessSpec => []ExitTellsFailure
<1>1. HarnessInv => ExitTellsFailure
  BY DEF HarnessInv, Truthful
<1>2. QED BY <1>1, HarnessInvariant, PTL

\* A full run judges no unit before every live case of the self-check was red, and no run judges one
\* after it has ended.
THEOREM SelfCheckFirst == HarnessSpec => JudgedAfterSelfCheck
<1>1. ASSUME HarnessInv, [HarnessNext]_harnessVars, judged' # judged
      PROVE  exit = NoExit /\ (only = NoFilter => observed[LiveRed] = "met")
  <2>1. JudgeUnit
    BY <1>1
    DEF HarnessNext, harnessVars, judgementVars, ReadManifest, Honour, CheckToolchain, ReadRuntime,
        BaselineFails, Baseline, SelfCheck, Library, Repro, ReadPendingList, LeaveOut, LeaveEntry,
        PassOver, NextEntry, HarnessSteps, Uncaught, SuitesDone, TreeCheck, TreesDone, Orphans, Report
  <2>2. phase = "suites"
    BY <2>1 DEF JudgeUnit
  <2>3. QED BY <1>1, <2>2 DEF HarnessInv, Order, Accounted, Phases, Opening
<1>2. HarnessInv /\ [HarnessNext]_harnessVars =>
        [judged' # judged => /\ exit = NoExit
                             /\ only = NoFilter => observed[LiveRed] = "met"]_harnessVars
  BY <1>1
<1>3. QED BY <1>2, HarnessInvariant, PTL DEF HarnessSpec, JudgedAfterSelfCheck

\* How a run may come to its summary.
LEMMA SummaryIs ==
  ASSUME HarnessInv, exit = NoExit, HarnessNext
  PROVE  /\ exit' = NoExit => summary' = "none"
         /\ summary' = "GREEN" => Report
         /\ summary' = "RED" => exit' = 1
<1>1. phase # "ended" /\ summary = "none"
  BY DEF HarnessInv, Order
<1>2. CASE Report
  <2>1. \/ summary' = "FILTERED"
        \/ summary' = "RED" /\ exit' = 1
        \/ summary' = "GREEN"
    BY <1>2 DEF Report, End
  <2>2. exit' # NoExit
    BY <1>2, StatusIs DEF Report, End
  <2>3. QED BY <1>2, <2>1, <2>2
<1>3. CASE ~Report
  <2>1. \/ UNCHANGED <<summary, exit>>
        \/ summary' = "CANNOT PROCEED" /\ exit' = 2
        \/ summary' = "none" /\ exit' = 1
        \/ summary' = "RED" /\ exit' = 1
    BY <1>3
    DEF HarnessNext, ReadManifest, Honour, CheckToolchain, ReadRuntime, BaselineFails, Baseline, SelfCheck,
        Library, Repro, ReadPendingList, JudgeUnit, LeaveOut, LeaveEntry, SuitesDone, TreeCheck, TreesDone,
        Orphans, HarnessSteps, Uncaught, Goto, Stop, End
  <2>2. QED BY <1>1, <2>1, StatusIs
<1>4. QED BY <1>2, <1>3

\* A run implements the gate: it is green only when everything it owes was found met, and red only
\* when something was found unmet, whatever the manifest, the list and the tree.
THEOREM RunImplementsGate == HarnessSpec => GreenIsEarned
<1>1. HarnessInit => G!GateInit
  <2> SUFFICES ASSUME HarnessInit PROVE G!GateInit
    OBVIOUS
  <2>1. exit = NoExit /\ observed = [o \in Obligations |-> "unknown"]
    BY DEF HarnessInit
  <2>2. QED BY <2>1 DEF G!GateInit
<1>2. HarnessInv /\ [HarnessNext]_harnessVars => [G!GateNext]_G!gateVars
  <2> SUFFICES ASSUME HarnessInv, [HarnessNext]_harnessVars PROVE [G!GateNext]_G!gateVars
    OBVIOUS
  <2>1. CASE UNCHANGED harnessVars
    BY <2>1 DEF harnessVars, G!gateVars
  <2>2. CASE HarnessNext
    <3>1. exit = NoExit
      BY <2>2
      DEF HarnessInv, Order, HarnessNext, ReadManifest, Honour, CheckToolchain, ReadRuntime, BaselineFails,
          Baseline, SelfCheck, Library, Repro, ReadPendingList, JudgeUnit, LeaveOut, LeaveEntry,
          SuitesDone, TreeCheck, TreesDone, Orphans, Report, HarnessSteps, Uncaught
    <3>2. HarnessInv' /\ Kept
      BY StepHolds
    <3>3. G!Find
      BY <3>2 DEF G!Find, Kept, Unknown
    <3>4. exit' = NoExit => summary' = "none"
      BY <2>2, <3>1, SummaryIs
    <3>5. summary' = "GREEN" => \A o \in Obligations : observed'[o] = "met"
      BY <2>2, <3>1, SummaryIs, ReportKeeps
    <3>6. summary' = "RED" => \E o \in Obligations : observed'[o] = "unmet"
      <4>1. ExitTellsFailure'
        BY <3>2 DEF HarnessInv, Truthful
      <4>2. QED BY <2>2, <3>1, <4>1, SummaryIs DEF ExitTellsFailure
    <3>7. G!GateNext
      BY <3>1, <3>3, <3>5, <3>6 DEF G!GateNext
    <3>8. QED BY <3>7
  <2>3. QED BY <2>1, <2>2
<1>3. QED BY <1>1, <1>2, HarnessInvariant, PTL DEF HarnessSpec, GreenIsEarned, G!GateSpec
=============================================================================
