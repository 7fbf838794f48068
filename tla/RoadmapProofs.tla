--------------------------- MODULE RoadmapProofs ---------------------------
(***************************************************************************)
(* The tools of the roadmap.  Apply, for every well-cut plan, however many *)
(* days and kills: the steps of a subcycle carry one date while the date   *)
(* of their run is on record, a step is refused then for one cause alone,  *)
(* and every decision named is declared.  Decls, for every tree of         *)
(* sources: it passes exactly when each name has its one declaration.      *)
(* Claims, for every tree of files, rows and listed lines: the paragraphs  *)
(* cut are those of the file, the candidates are the claims its header     *)
(* describes, a correction is near one that is carried or in a section of  *)
(* the same heading, a listed line is stale when it excuses nothing, and   *)
(* the status is true.                                                     *)
(***************************************************************************)
EXTENDS Apply, Claims, FiniteSetTheorems, SequenceTheorems, WellFoundedInduction, TLAPS

(* The step tool.  The inductive invariant, in named parts. *)

\* The tool has read its patch and the day it writes.
Holding == pc \in {"reverse", "check", "apply", "record"}

\* The day held is the one on record, or the file is absent.
DayHeld ==
  Holding /\ Dated(step) =>
    /\ day \in Days
    /\ recorded => date[Sub(step)] = day
    /\ ~recorded => date[Sub(step)] = NoFile

\* The dates in the tree are the one on record; before there is one, only the step at hand has written.
DatesRecorded ==
  \A s \in Subs \ lost : \A k \in DatedIn(s) :
    \/ date[s] = stamp[k] /\ date[s] # NoFile
    \/ pc = "record" /\ Sub(step) = s /\ Dated(step) /\ ~recorded /\ stamp[k] = day

\* A step that writes no date leaves none.
UndatedIn == \A k \in Steps : InTree(k) /\ ~plan[k].dated => stamp[k] = Undated

\* A step in the tree, or at hand past its text, uses its labels as it should; those before it are in.
LabelsRead ==
  /\ \A k \in Steps : InTree(k) => LabelsFine(k) /\ \A j \in Steps : j < k => InTree(j)
  /\ Holding => LabelsFine(step)
  /\ pc # "idle" => \A j \in Steps : j < step => InTree(j)

ApplyInv == TypeOK /\ DayHeld /\ DatesRecorded /\ UndatedIn /\ LabelsRead /\ RefusedForCause

-----------------------------------------------------------------------------
\* What is known of a plan.
LEMMA PlanFacts ==
  ASSUME plan \in Plans
  PROVE  /\ Len(plan) \in Nat /\ Steps = 1..Len(plan) /\ 1 \in Steps
         /\ \A k \in Steps : plan[k].dated \in BOOLEAN /\ Sub(k) \in Subs
         /\ \A k \in Steps : \A j \in plan[k].sees :
              j \in Steps /\ j < k /\ Sub(j) = Sub(k) /\ plan[j].dated
         /\ \A k \in Steps : \A j \in plan[k].rewrites : j < k
<1>1. plan \in Seq(Patches) /\ plan # <<>> /\ WellCut(plan)
  BY ApplyAssumption
<1>2. \A k \in Steps : plan[k] \in Patches
  BY <1>1 DEF Steps
<1>3. Len(plan) \in Nat /\ Steps = 1..Len(plan) /\ 1 \in Steps
  BY <1>1 DEF Steps
<1>4. \A k \in Steps : plan[k].dated \in BOOLEAN
  BY <1>2 DEF Patches
<1>5. \A k \in Steps : Sub(k) \in Subs
  BY DEF Subs
<1>6. \A k \in Steps : \A j \in plan[k].sees :
        j \in Steps /\ j < k /\ Sub(j) = Sub(k) /\ plan[j].dated
  BY <1>1 DEF WellCut, Steps, Sub
<1>7. \A k \in Steps : \A j \in plan[k].rewrites : j < k
  BY <1>1 DEF WellCut, Steps
<1> QED
  BY <1>3, <1>4, <1>5, <1>6, <1>7

\* A tree with no step in, and no date on record, keeps the invariant.
LEMMA ApplyInit == Init => ApplyInv
<1> SUFFICES ASSUME Init PROVE ApplyInv
  OBVIOUS
<1>1. plan \in Plans /\ MaxDay \in Nat /\ MaxDay >= 1 /\ MaxCrashes \in Nat
  BY ApplyAssumption DEF Init
<1>2. 1 \in Steps
  BY <1>1, PlanFacts
<1>3. TypeOK
  <2>1. /\ stamp \in [Steps -> Days \cup {Out, Undated}]
        /\ date \in [Subs -> Days \cup {NoFile, Torn}]
    BY DEF Init
  <2>2. today \in Days /\ step \in Steps /\ crashes \in 0..MaxCrashes
    BY <1>1, <1>2 DEF Init, Days
  <2> QED
    BY <1>1, <2>1, <2>2 DEF Init, TypeOK
<1>4. \A k \in Steps : ~InTree(k)
  BY DEF Init, InTree
<1> QED
  BY <1>3, <1>4 DEF Init, ApplyInv, DayHeld, Holding, DatesRecorded, DatedIn, UndatedIn, LabelsRead,
     RefusedForCause

\* An action that leaves the plan and the tree alone, and the tool where it holds no patch.
LEMMA StartRunInv ==
  ASSUME ApplyInv, NEW k \in Steps, StartRun(k)
  PROVE  ApplyInv'
<1>1. UNCHANGED <<plan, stamp, date, today, said, crashes, lost>> /\ pc = "idle" /\ pc' = "text"
  BY DEF StartRun
<1>2. TypeOK'
  BY <1>1 DEF ApplyInv, TypeOK, StartRun, Steps, Subs, Sub, Days
<1>3. DayHeld' /\ RefusedForCause'
  BY <1>1 DEF DayHeld, Holding, RefusedForCause
<1>4. DatesRecorded' /\ UndatedIn'
  BY <1>1 DEF ApplyInv, DatesRecorded, UndatedIn, DatedIn, InTree, Steps, Subs, Sub
<1>5. LabelsRead'
  BY <1>1 DEF ApplyInv, StartRun, LabelsRead, Holding, LabelsFine, Labels, DeclaredBy, InTree, Steps
<1> QED
  BY <1>2, <1>3, <1>4, <1>5 DEF ApplyInv

\* Removing a record at the end of a subcycle.
LEMMA RemoveDateInv ==
  ASSUME ApplyInv, NEW s \in Subs, RemoveDate(s)
  PROVE  ApplyInv'
<1>1. /\ UNCHANGED <<plan, stamp, today, pc, step, day, recorded, said, crashes>> /\ pc = "idle"
      /\ date' = [date EXCEPT ![s] = NoFile] /\ lost' = lost \cup {s}
  BY DEF RemoveDate, tool
<1>2. TypeOK'
  BY <1>1 DEF ApplyInv, TypeOK, Steps, Subs, Sub, Days, NoFile
<1>3. DayHeld' /\ RefusedForCause'
  BY <1>1 DEF DayHeld, Holding, RefusedForCause
<1>4. DatesRecorded' /\ UndatedIn'
  BY <1>1 DEF ApplyInv, TypeOK, DatesRecorded, UndatedIn, DatedIn, InTree, Steps, Subs, Sub
<1>5. LabelsRead'
  BY <1>1 DEF ApplyInv, LabelsRead, Holding, LabelsFine, Labels, DeclaredBy, InTree, Steps
<1> QED
  BY <1>2, <1>3, <1>4, <1>5 DEF ApplyInv

\* The day changes.
LEMMA MidnightInv == ApplyInv /\ Midnight => ApplyInv'
<1> SUFFICES ASSUME ApplyInv, Midnight PROVE ApplyInv'
  OBVIOUS
<1>1. /\ UNCHANGED <<plan, stamp, date, pc, step, day, recorded, said, crashes, lost>>
      /\ today' = today + 1 /\ today < MaxDay
  BY DEF Midnight, tool
<1>2. today' \in Days
  BY <1>1, ApplyAssumption DEF ApplyInv, TypeOK, Days
<1>3. TypeOK'
  BY <1>1, <1>2 DEF ApplyInv, TypeOK, Steps, Subs, Sub, Days
<1>4. DayHeld' /\ RefusedForCause'
  BY <1>1 DEF ApplyInv, DayHeld, Holding, RefusedForCause, Dated, Sub, Days, Applies, ContextHolds, LinesStand, InTree,
     Steps
<1>5. DatesRecorded' /\ UndatedIn'
  BY <1>1 DEF ApplyInv, DatesRecorded, UndatedIn, DatedIn, InTree, Dated, Steps, Subs, Sub
<1>6. LabelsRead'
  BY <1>1 DEF ApplyInv, LabelsRead, Holding, LabelsFine, Labels, DeclaredBy, InTree, Steps
<1> QED
  BY <1>3, <1>4, <1>5, <1>6 DEF ApplyInv

\* The verdict of a run that writes nothing: the tool is gone, all else is as it was.
LEMMA SettledInv ==
  ASSUME ApplyInv, UNCHANGED <<plan, stamp, date, today, step, day, recorded, lost>>, pc' = "idle",
         pc # "record" \/ ~Dated(step) \/ recorded,
         said' \in {"nothing", "ALREADY", "APPLY", "STOP"}, crashes' \in 0..MaxCrashes
  PROVE  ApplyInv'
<1>1. TypeOK'
  BY DEF ApplyInv, TypeOK, Steps, Subs, Sub, Days
<1>2. DayHeld' /\ RefusedForCause'
  BY DEF DayHeld, Holding, RefusedForCause
<1>3. DatesRecorded' /\ UndatedIn'
  BY DEF ApplyInv, DatesRecorded, UndatedIn, DatedIn, InTree, Steps, Subs, Sub
<1>4. LabelsRead'
  BY DEF ApplyInv, LabelsRead, Holding, LabelsFine, Labels, DeclaredBy, InTree, Steps
<1> QED
  BY <1>1, <1>2, <1>3, <1>4 DEF ApplyInv

\* A run that stops before git writes.
LEMMA StopInv == ApplyInv /\ (RefuseText \/ GitFails) => ApplyInv'
<1> SUFFICES ASSUME ApplyInv, RefuseText \/ GitFails PROVE ApplyInv'
  OBVIOUS
<1>1. /\ UNCHANGED <<plan, stamp, date, today, step, day, recorded, lost, crashes>> /\ pc' = "idle"
      /\ pc # "record" /\ said' = "STOP"
  BY DEF RefuseText, GitFails, Say, tool
<1>2. crashes' \in 0..MaxCrashes
  BY <1>1 DEF ApplyInv, TypeOK
<1> QED
  BY <1>1, <1>2, SettledInv

\* The step's text, with the date that the record or the clock gives.
LEMMA ReadTextInv == ApplyInv /\ ReadText => ApplyInv'
<1> SUFFICES ASSUME ApplyInv, ReadText PROVE ApplyInv'
  OBVIOUS
<1>1. /\ UNCHANGED <<plan, stamp, date, today, step, said, crashes, lost>> /\ pc = "text"
      /\ pc' = "reverse" /\ LabelsFine(step) /\ step \in Steps /\ today \in Days
      /\ Dated(step) => date[Sub(step)] # Torn
      /\ IF Dated(step) THEN RunDate(step) ELSE UNCHANGED <<day, recorded>>
  BY DEF ReadText, ApplyInv, TypeOK
<1>2. date[Sub(step)] \in Days \cup {NoFile, Torn}
  BY <1>1 DEF ApplyInv, TypeOK, Subs
<1>3. Dated(step) => /\ day' \in Days /\ recorded' \in BOOLEAN
                     /\ recorded' => date[Sub(step)] = day'
                     /\ ~recorded' => date[Sub(step)] = NoFile
  BY <1>1, <1>2 DEF RunDate
<1>4. day' \in Days \cup {0} /\ recorded' \in BOOLEAN
  BY <1>1, <1>3 DEF ApplyInv, TypeOK
<1>5. TypeOK'
  BY <1>1, <1>4 DEF ApplyInv, TypeOK, Steps, Subs, Sub, Days
<1>6. DayHeld' /\ RefusedForCause'
  BY <1>1, <1>3 DEF DayHeld, RefusedForCause, Dated, Sub, Days
<1>7. DatesRecorded' /\ UndatedIn'
  BY <1>1 DEF ApplyInv, DatesRecorded, UndatedIn, DatedIn, InTree, Steps, Subs, Sub
<1>8. LabelsRead'
  BY <1>1 DEF ApplyInv, LabelsRead, LabelsFine, Labels, DeclaredBy, InTree, Steps
<1> QED
  BY <1>5, <1>6, <1>7, <1>8 DEF ApplyInv

\* A step that is in the tree, its run's date on record, is found there as long as its lines stand; one
\* that is not meets its context, since no later step is in.
LEMMA ContextMet ==
  ASSUME ApplyInv, Holding, pc # "record", Sub(step) \notin lost
  PROVE  /\ LinesStand(step) => ContextHolds
         /\ ~InTree(step) => LinesStand(step)
         /\ InTree(step) => stamp[step] = Wrote
<1>1. /\ step \in Steps /\ Sub(step) \in Subs /\ plan[step].dated \in BOOLEAN
      /\ \A j \in plan[step].sees : j \in Steps /\ j < step /\ Sub(j) = Sub(step) /\ plan[j].dated
  BY PlanFacts DEF ApplyInv, TypeOK
<1>2. \A k \in DatedIn(Sub(step)) : Dated(step) => stamp[k] = day
  BY <1>1 DEF ApplyInv, DatesRecorded, DayHeld
<1>3. ASSUME LinesStand(step) PROVE ContextHolds
  <2> SUFFICES ASSUME NEW j \in plan[step].sees PROVE stamp[j] = day
    BY <1>3 DEF ContextHolds
  <2>1. pc # "idle"
    BY DEF Holding
  <2>2. InTree(j)
    BY <1>1, <2>1 DEF ApplyInv, LabelsRead
  <2>3. j \in DatedIn(Sub(step)) /\ Dated(step)
    BY <1>1, <2>2 DEF DatedIn, Dated
  <2> QED
    BY <1>2, <2>3
<1>4. ASSUME InTree(step) PROVE stamp[step] = Wrote
  <2>1. CASE plan[step].dated
    <3>1. step \in DatedIn(Sub(step)) /\ Dated(step)
      BY <1>1, <1>4, <2>1 DEF DatedIn, Dated
    <3> QED
      BY <1>2, <2>1, <3>1 DEF Wrote
  <2>2. CASE ~plan[step].dated
    BY <1>1, <1>4, <2>2 DEF ApplyInv, UndatedIn, Wrote
  <2> QED
    BY <2>1, <2>2, <1>1
<1>5. ASSUME ~InTree(step), NEW j \in Steps, InTree(j) PROVE step \notin plan[j].rewrites
  <2>1. ~(step < j)
    BY <1>1, <1>5 DEF ApplyInv, LabelsRead
  <2> QED
    BY <2>1, PlanFacts DEF ApplyInv, TypeOK
<1> QED
  BY <1>3, <1>4, <1>5 DEF LinesStand

\* Whether the step is in the tree already.
LEMMA ReverseCheckInv == ApplyInv /\ ReverseCheck => ApplyInv'
<1> SUFFICES ASSUME ApplyInv, ReverseCheck PROVE ApplyInv'
  OBVIOUS
<1>1. /\ UNCHANGED <<plan, stamp, date, today, step, day, recorded, crashes, lost>> /\ pc = "reverse"
      /\ said' \in {"nothing", "ALREADY", "APPLY", "STOP"} /\ crashes' \in 0..MaxCrashes
      /\ step \in Steps
  BY DEF ReverseCheck, tool, Say, ApplyInv, TypeOK
<1>2. CASE Reverses
  BY <1>1, <1>2, SettledInv DEF ReverseCheck, Say
<1>3. CASE ~Reverses
  <2>1. pc' = "check"
    BY <1>3 DEF ReverseCheck
  <2>2. TypeOK'
    BY <1>1, <2>1 DEF ApplyInv, TypeOK, Steps, Subs, Sub, Days
  <2>3. DayHeld'
    BY <1>1, <2>1 DEF ApplyInv, DayHeld, Holding, Dated, Sub, Days
  <2>4. RefusedForCause'
    <3>1. Sub(step) \notin lost => Applies \/ (InTree(step) /\ ~LinesStand(step))
      BY <1>1, <1>3, ContextMet DEF Reverses, Applies, InTree, Holding
    <3> QED
      BY <1>1, <2>1, <3>1 DEF RefusedForCause, Applies, ContextHolds, LinesStand, InTree, Steps, Sub
  <2>5. DatesRecorded' /\ UndatedIn'
    BY <1>1 DEF ApplyInv, DatesRecorded, UndatedIn, DatedIn, InTree, Steps, Subs, Sub
  <2>6. LabelsRead'
    BY <1>1, <2>1 DEF ApplyInv, LabelsRead, Holding, LabelsFine, Labels, DeclaredBy, InTree, Steps
  <2> QED
    BY <2>2, <2>3, <2>4, <2>5, <2>6 DEF ApplyInv
<1> QED
  BY <1>2, <1>3

\* Whether the step applies.
LEMMA CheckInv == ApplyInv /\ Check => ApplyInv'
<1> SUFFICES ASSUME ApplyInv, Check PROVE ApplyInv'
  OBVIOUS
<1>1. /\ UNCHANGED <<plan, stamp, date, today, step, day, recorded, crashes, lost>> /\ pc = "check"
      /\ said' \in {"nothing", "ALREADY", "APPLY", "STOP"} /\ crashes' \in 0..MaxCrashes
  BY DEF Check, tool, Say, ApplyInv, TypeOK
<1>2. CASE pc' = "idle"
  BY <1>1, <1>2, SettledInv
<1>3. CASE pc' = "apply"
  <2>1. TypeOK'
    BY <1>1, <1>3 DEF ApplyInv, TypeOK, Steps, Subs, Sub, Days
  <2>2. DayHeld' /\ RefusedForCause'
    BY <1>1, <1>3 DEF ApplyInv, DayHeld, Holding, RefusedForCause, Dated, Sub, Days
  <2>3. DatesRecorded' /\ UndatedIn'
    BY <1>1 DEF ApplyInv, DatesRecorded, UndatedIn, DatedIn, InTree, Steps, Subs, Sub
  <2>4. LabelsRead'
    BY <1>1, <1>3 DEF ApplyInv, LabelsRead, Holding, LabelsFine, Labels, DeclaredBy, InTree, Steps
  <2> QED
    BY <2>1, <2>2, <2>3, <2>4 DEF ApplyInv
<1> QED
  BY <1>2, <1>3 DEF Check, Say

\* Git writes the step.
LEMMA GitApplyInv == ApplyInv /\ GitApply => ApplyInv'
<1> SUFFICES ASSUME ApplyInv, GitApply PROVE ApplyInv'
  OBVIOUS
<1>1. /\ UNCHANGED <<plan, date, today, step, day, recorded, said, crashes, lost>> /\ pc = "apply"
      /\ pc' = "record" /\ stamp' = [stamp EXCEPT ![step] = Wrote] /\ step \in Steps
      /\ stamp \in [Steps -> Days \cup {Out, Undated}] /\ day \in Days \cup {0}
      /\ plan[step].dated \in BOOLEAN
  BY PlanFacts DEF GitApply, tool, ApplyInv, TypeOK
<1>2. Wrote \in Days \cup {Undated} /\ Wrote # Out /\ (~plan[step].dated => Wrote = Undated)
  BY <1>1, ApplyAssumption DEF Wrote, Undated, Out, Days
<1>3. /\ stamp' \in [Steps -> Days \cup {Out, Undated}] /\ stamp'[step] = Wrote
      /\ \A k \in Steps : k # step => stamp'[k] = stamp[k]
  BY <1>1, <1>2, ApplyAssumption DEF Wrote, Days, Undated
<1>4. TypeOK'
  BY <1>1, <1>3 DEF ApplyInv, TypeOK, Steps, Subs, Sub, Days
<1>5. DayHeld' /\ RefusedForCause'
  BY <1>1 DEF ApplyInv, DayHeld, Holding, RefusedForCause, Dated, Sub, Days
<1>6. DatesRecorded'
  <2> SUFFICES ASSUME NEW s \in Subs \ lost, NEW k \in Steps,
                      Sub(k) = s, plan[k].dated, stamp'[k] # Out
               PROVE  \/ date[s] = stamp'[k] /\ date[s] # NoFile
                      \/ Sub(step) = s /\ Dated(step) /\ ~recorded /\ stamp'[k] = day
    BY <1>1 DEF DatesRecorded, DatedIn, InTree, Steps, Subs, Sub, Dated
  <2>1. CASE k = step
    <3>1. Dated(step) /\ stamp'[k] = day
      BY <1>3, <2>1 DEF Dated, Wrote
    <3>2. day \in Days /\ (recorded => date[s] = day)
      BY <1>1, <2>1, <3>1 DEF ApplyInv, DayHeld, Holding
    <3>3. day # NoFile
      BY <3>2, ApplyAssumption DEF Days, NoFile
    <3> QED
      BY <2>1, <3>1, <3>2, <3>3
  <2>2. CASE k # step
    <3>1. stamp'[k] = stamp[k] /\ k \in DatedIn(s)
      BY <1>3, <2>2 DEF DatedIn, InTree
    <3> QED
      BY <1>1, <3>1 DEF ApplyInv, DatesRecorded
  <2> QED
    BY <2>1, <2>2
<1>7. UndatedIn'
  BY <1>1, <1>2, <1>3 DEF ApplyInv, UndatedIn, InTree, Steps
<1>8. LabelsRead'
  <2>1. \A k \in Steps : stamp'[k] # Out <=> (k = step \/ stamp[k] # Out)
    BY <1>2, <1>3
  <2>2. LabelsFine(step) /\ \A j \in Steps : j < step => stamp[j] # Out
    BY <1>1 DEF ApplyInv, LabelsRead, Holding, InTree
  <2> QED
    BY <1>1, <2>1, <2>2 DEF ApplyInv, LabelsRead, Holding, LabelsFine, Labels, DeclaredBy, InTree, Steps
<1> QED
  BY <1>4, <1>5, <1>6, <1>7, <1>8 DEF ApplyInv

\* The run's record, and the end of the run.
LEMMA EndRunInv == ApplyInv /\ EndRun => ApplyInv'
<1> SUFFICES ASSUME ApplyInv, EndRun PROVE ApplyInv'
  OBVIOUS
<1>1. /\ UNCHANGED <<plan, stamp, today, step, day, recorded, crashes, lost>> /\ pc = "record"
      /\ pc' = "idle" /\ said' = "APPLY" /\ crashes' \in 0..MaxCrashes
      /\ step \in Steps /\ Sub(step) \in Subs /\ date \in [Subs -> Days \cup {NoFile, Torn}]
      /\ date' = IF Dated(step) /\ ~recorded THEN [date EXCEPT ![Sub(step)] = day] ELSE date
  BY PlanFacts DEF EndRun, Record, Say, tool, ApplyInv, TypeOK
<1>2. CASE ~(Dated(step) /\ ~recorded)
  <2>1. date' = date /\ (pc # "record" \/ ~Dated(step) \/ recorded)
    BY <1>1, <1>2
  <2> QED
    BY <1>1, <2>1, SettledInv
<1>3. CASE Dated(step) /\ ~recorded
  <2>1. day \in Days /\ date[Sub(step)] = NoFile /\ day # NoFile
    BY <1>1, <1>3, ApplyAssumption DEF ApplyInv, DayHeld, Holding, Days, NoFile
  <2>2. /\ date' \in [Subs -> Days \cup {NoFile, Torn}] /\ date'[Sub(step)] = day
        /\ \A s \in Subs : s # Sub(step) => date'[s] = date[s]
    BY <1>1, <1>3, <2>1
  <2>3. TypeOK'
    BY <1>1, <2>2 DEF ApplyInv, TypeOK, Steps, Subs, Sub, Days
  <2>4. DayHeld' /\ RefusedForCause'
    BY <1>1 DEF DayHeld, Holding, RefusedForCause
  <2>5. DatesRecorded'
    <3> SUFFICES ASSUME NEW s \in Subs \ lost, NEW k \in DatedIn(s)
                 PROVE  date'[s] = stamp[k] /\ date'[s] # NoFile
      BY <1>1 DEF DatesRecorded, DatedIn, InTree, Steps, Subs, Sub
    <3>1. \/ date[s] = stamp[k] /\ date[s] # NoFile
          \/ Sub(step) = s /\ stamp[k] = day
      BY DEF ApplyInv, DatesRecorded
    <3> QED
      BY <2>1, <2>2, <3>1
  <2>6. UndatedIn'
    BY <1>1 DEF ApplyInv, UndatedIn, InTree, Steps
  <2>7. LabelsRead'
    BY <1>1 DEF ApplyInv, LabelsRead, Holding, LabelsFine, Labels, DeclaredBy, InTree, Steps
  <2> QED
    BY <2>3, <2>4, <2>5, <2>6, <2>7 DEF ApplyInv
<1> QED
  BY <1>2, <1>3

\* A kill, wherever the run is.
LEMMA CrashInv == ApplyInv /\ Crash => ApplyInv'
<1> SUFFICES ASSUME ApplyInv, Crash PROVE ApplyInv'
  OBVIOUS
<1>1. /\ UNCHANGED <<plan, stamp, today, step, day, recorded>> /\ pc' = "idle" /\ said' = "nothing"
      /\ crashes' = crashes + 1 /\ crashes < MaxCrashes
  BY DEF Crash, tool
<1>2. crashes' \in 0..MaxCrashes
  BY <1>1, ApplyAssumption DEF ApplyInv, TypeOK
<1>3. CASE ~(pc = "record" /\ Dated(step) /\ ~recorded)
  <2>1. UNCHANGED <<date, lost>> /\ (pc # "record" \/ ~Dated(step) \/ recorded)
    BY <1>3 DEF Crash
  <2> QED
    BY <1>1, <1>2, <2>1, SettledInv
<1>4. CASE pc = "record" /\ Dated(step) /\ ~recorded
  <2>1. /\ step \in Steps /\ Sub(step) \in Subs /\ lost' = lost \cup {Sub(step)}
        /\ \E left \in {NoFile, Torn} : date' = [date EXCEPT ![Sub(step)] = left]
    BY <1>4, PlanFacts DEF Crash, ApplyInv, TypeOK
  <2>2. /\ date' \in [Subs -> Days \cup {NoFile, Torn}]
        /\ \A s \in Subs : s # Sub(step) => date'[s] = date[s]
    BY <2>1 DEF ApplyInv, TypeOK
  <2>3. TypeOK'
    BY <1>1, <1>2, <2>1, <2>2 DEF ApplyInv, TypeOK, Steps, Subs, Sub, Days
  <2>4. DayHeld' /\ RefusedForCause'
    BY <1>1 DEF DayHeld, Holding, RefusedForCause
  <2>5. DatesRecorded' /\ UndatedIn'
    BY <1>1, <2>1, <2>2 DEF ApplyInv, DatesRecorded, UndatedIn, DatedIn, InTree, Steps, Subs, Sub
  <2>6. LabelsRead'
    BY <1>1 DEF ApplyInv, LabelsRead, Holding, LabelsFine, Labels, DeclaredBy, InTree, Steps
  <2> QED
    BY <2>3, <2>4, <2>5, <2>6 DEF ApplyInv
<1> QED
  BY <1>3, <1>4

-----------------------------------------------------------------------------
\* Every step keeps the invariant.
LEMMA ApplyStep == ApplyInv /\ [Next]_applyVars => ApplyInv'
<1> SUFFICES ASSUME ApplyInv, [Next]_applyVars PROVE ApplyInv'
  OBVIOUS
<1>1. ASSUME NEW k \in Steps, StartRun(k) PROVE ApplyInv'
  BY <1>1, StartRunInv
<1>2. ASSUME NEW s \in Subs, RemoveDate(s) PROVE ApplyInv'
  BY <1>2, RemoveDateInv
<1>3. CASE UNCHANGED applyVars
  <2>1. UNCHANGED <<plan, stamp, date, today, pc, step, day, recorded, said, crashes, lost>>
    BY <1>3 DEF applyVars
  <2>2. TypeOK' /\ DayHeld'
    BY <2>1 DEF ApplyInv, TypeOK, DayHeld, Holding, Dated, Steps, Subs, Sub, Days
  <2>5. RefusedForCause'
    BY <2>1 DEF ApplyInv, RefusedForCause, Applies, ContextHolds, LinesStand, InTree, Steps, Sub
  <2>3. DatesRecorded' /\ UndatedIn'
    BY <2>1 DEF ApplyInv, DatesRecorded, UndatedIn, DatedIn, InTree, Dated, Steps, Subs, Sub
  <2>4. LabelsRead'
    BY <2>1 DEF ApplyInv, LabelsRead, Holding, LabelsFine, Labels, DeclaredBy, InTree, Steps
  <2> QED
    BY <2>2, <2>3, <2>4, <2>5 DEF ApplyInv
<1> QED
  BY <1>1, <1>2, <1>3, MidnightInv, ReadTextInv, StopInv, ReverseCheckInv, CheckInv, GitApplyInv,
     EndRunInv, CrashInv DEF Next

\* The inductive invariant holds in every run.
LEMMA ApplyInvariant == Spec => []ApplyInv
<1>1. Init => ApplyInv
  BY ApplyInit
<1>2. ApplyInv /\ [Next]_applyVars => ApplyInv'
  BY ApplyStep
<1> QED
  BY <1>1, <1>2, PTL DEF Spec

\* Every variable of the tool and of its tree stays in its type.
THEOREM ApplyTypes == Spec => []TypeOK
BY ApplyInvariant, PTL DEF ApplyInv

\* For every plan, span of days and number of kills, the steps of a subcycle whose date was recorded
\* with the first of them carry that date.
THEOREM DateIsOne == Spec => []OneDateWhileRecorded
<1>1. ApplyInv => OneDateWhileRecorded
  <2> SUFFICES ASSUME ApplyInv, NEW s \in Subs \ lost, NEW j \in DatedIn(s), NEW k \in DatedIn(s)
               PROVE  stamp[j] = stamp[k] /\ (pc # "record" => date[s] = stamp[k])
    BY DEF OneDateWhileRecorded
  <2>1. \/ date[s] = stamp[j] /\ date[s] # NoFile
        \/ pc = "record" /\ Sub(step) = s /\ Dated(step) /\ ~recorded /\ stamp[j] = day
    BY DEF ApplyInv, DatesRecorded
  <2>2. \/ date[s] = stamp[k] /\ date[s] # NoFile
        \/ pc = "record" /\ Sub(step) = s /\ Dated(step) /\ ~recorded /\ stamp[k] = day
    BY DEF ApplyInv, DatesRecorded
  <2>3. pc = "record" /\ Sub(step) = s /\ Dated(step) /\ ~recorded => date[s] = NoFile
    BY DEF ApplyInv, DayHeld, Holding
  <2> QED
    BY <2>1, <2>2, <2>3
<1> QED
  BY <1>1, ApplyInvariant, PTL

\* A step of such a subcycle, run on any day, is refused for one cause alone: it is in the tree, and a later
\* step has rewritten a line of its hunks.
THEOREM RefusalsHaveCause == Spec => []RefusedForCause
<1>1. ApplyInv => RefusedForCause
  BY DEF ApplyInv
<1> QED
  BY <1>1, ApplyInvariant, PTL

\* Every decision a step in the tree names is declared by a step in the tree, and has its number.
THEOREM LabelsAreHeld == Spec => []LabelsHeld
<1>1. ApplyInv => LabelsHeld
  <2> SUFFICES ASSUME ApplyInv, NEW k \in Steps, InTree(k), NEW pd \in Labels(k)
               PROVE  pd \in Accepted /\ \E j \in Steps : InTree(j) /\ pd \in plan[j].declares
    BY DEF LabelsHeld, ApplyInv, LabelsRead, LabelsFine
  <2>1. Steps = 1..Len(plan) /\ Len(plan) \in Nat
    BY PlanFacts DEF ApplyInv, TypeOK
  <2>2. DeclaredBy(pd, k) /\ pd \in Accepted
    BY DEF ApplyInv, LabelsRead, LabelsFine
  <2>3. PICK j \in 1..k : pd \in plan[j].declares
    BY <2>2 DEF DeclaredBy
  <2>4. j \in Steps /\ (j < k \/ j = k)
    BY <2>1, <2>3
  <2>5. InTree(j)
    BY <2>4 DEF ApplyInv, LabelsRead
  <2> QED
    BY <2>2, <2>3, <2>4, <2>5
<1> QED
  BY <1>1, ApplyInvariant, PTL

-----------------------------------------------------------------------------
(* The checker's command decls. *)

\* All that decls reports.
AllFaults == (IF Declaring \in Paths(Texts) THEN Mine ELSE {}) \cup Outside \cup ListFaults

\* decls has a tree of its own, and its answer is what it found.
DeclsInv ==
  /\ IF doing = "decls" THEN sources \in SourceTrees ELSE sources = NoSources
  /\ doing = "decls" /\ exit \in {"0", "1"} => faults = AllFaults /\ (exit = "0" <=> faults = {})

\* What decls asks of the tree.
DeclsPass ==
  /\ \A n \in SpecNames \cup UNION {ToSet(f.declares) : f \in Texts} :
       IF n \in SpecNames /\ Declaring \in Paths(Texts)
       THEN \E m \in MadeAt(n) : m[1] = Declaring /\ MadeAt(n) = {m}
       ELSE MadeAt(n) = {}
  /\ \A f \in Texts : f.path = Declaring => f.mod = Module
  /\ \A p \in sources.listed : \E f \in Texts : f.path = p /\ f.declares # <<>>

\* The files of a tree: their names are sequences, and a path is one file's.
LEMMA SourceShape ==
  ASSUME sources \in SourceTrees
  PROVE  /\ \A f \in Texts : /\ DOMAIN f.declares = 1..Len(f.declares) /\ Len(f.declares) \in Nat
                             /\ (f.declares = <<>>) = (Len(f.declares) = 0)
         /\ \A f, g \in Texts : f.path = g.path => f = g
         /\ \A f \in Texts : DeclaredAt(f.path) = f.declares
<1>1. ASSUME NEW f \in Texts
      PROVE  /\ DOMAIN f.declares = 1..Len(f.declares) /\ Len(f.declares) \in Nat
             /\ (f.declares = <<>>) = (Len(f.declares) = 0)
  <2> DEFINE Q == {f.declares[i] : i \in DOMAIN f.declares}
             s == f.declares
  <2>1. s \in Seq(Q)
    BY SourcesAssumption DEF Texts
  <2> HIDE DEF Q, s
  <2>2. DOMAIN s = 1..Len(s) /\ Len(s) \in Nat
    BY <2>1
  <2>3. s # <<>> => Len(s) # 0
    BY <2>1
  <2>4. Len(<<>>) = 0
    OBVIOUS
  <2>5. s = <<>> <=> Len(s) = 0
    BY <2>3, <2>4
  <2> QED
    BY <2>2, <2>5 DEF s
<1>2. ASSUME NEW f \in Texts, NEW g \in Texts, f.path = g.path PROVE f = g
  BY <1>2, SourcesAssumption DEF Texts
<1>3. ASSUME NEW f \in Texts PROVE DeclaredAt(f.path) = f.declares
  <2>1. (CHOOSE g \in Texts : g.path = f.path) = f
    <3>1. f \in Texts /\ f.path = f.path
      OBVIOUS
    <3>2. \A g \in Texts : g.path = f.path => g = f
      BY <1>2
    <3> QED
      BY <3>1, <3>2
  <2> QED
    BY <2>1 DEF DeclaredAt
<1> QED
  BY <1>1, <1>2, <1>3

\* A declaration, the listed files apart, is a word of a file.
LEMMA MadeIs ==
  ASSUME NEW n, NEW m
  PROVE  m \in MadeAt(n) <=>
           \E f \in Texts : /\ f.path \notin sources.listed \/ f.path = Declaring
                            /\ \E i \in DOMAIN f.declares : f.declares[i] = n /\ m = <<f.path, i>>
  BY DEF MadeAt

\* Nothing outside the module is reported exactly when only the module and the listed files declare.
LEMMA OutsideIs ==
  Outside = {} <=> \A f \in Texts : f.path # Declaring /\ f.path \notin sources.listed => f.declares = <<>>
  BY DEF Outside

\* No line of the list is reported exactly when each names a file that declares.
LEMMA ListedIs ==
  ASSUME sources \in SourceTrees
  PROVE  ListFaults = {} <=> \A p \in sources.listed : \E f \in Texts : f.path = p /\ f.declares # <<>>
<1>1. ListFaults = {} <=> \A p \in sources.listed : p \in Paths(Texts) /\ DeclaredAt(p) # <<>>
  BY DEF ListFaults
<1>2. ASSUME NEW p
      PROVE  p \in Paths(Texts) /\ DeclaredAt(p) # <<>> <=> \E f \in Texts : f.path = p /\ f.declares # <<>>
  BY SourceShape DEF Paths
<1> QED
  BY <1>1, <1>2

\* What the module declares is reported of unless it is the table, each name once, under its own name.
LEMMA MineIs ==
  ASSUME sources \in SourceTrees, NEW d \in Texts, d.path = Declaring
  PROVE  Mine = {} <=>
           /\ d.mod = Module
           /\ \A i \in DOMAIN d.declares : d.declares[i] \in SpecNames
           /\ \A n \in SpecNames : /\ \E i \in DOMAIN d.declares : d.declares[i] = n
                                   /\ \A i, j \in DOMAIN d.declares : d.declares[i] = n /\ d.declares[j] = n => i = j
<1> DEFINE mine == d.declares
           Mis == {<<"misnamed", f.mod>> : f \in {f \in Texts : f.path = Declaring /\ f.mod # Module}}
           For == {<<"foreign", n>> : n \in ToSet(mine) \ SpecNames}
           Aga == {<<"again", n>> : n \in {n \in SpecNames : \E i, j \in DOMAIN mine : i < j /\ mine[i] = n /\ mine[j] = n}}
           Gon == {<<"missing", n>> : n \in SpecNames \ ToSet(mine)}
<1>1. Mine = Mis \cup For \cup Aga \cup Gon
  BY SourceShape DEF Mine
<1>2. Mis = {} <=> d.mod = Module
  <2>1. \A f \in Texts : f.path = Declaring => f = d
    BY SourceShape
  <2> QED
    BY <2>1
<1>3. For = {} <=> \A i \in DOMAIN mine : mine[i] \in SpecNames
  <2>1. For = {} <=> \A n \in ToSet(mine) : n \in SpecNames
    OBVIOUS
  <2>2. ToSet(mine) = {mine[i] : i \in DOMAIN mine}
    BY DEF ToSet
  <2> QED
    BY <2>1, <2>2
<1>4. Gon = {} <=> \A n \in SpecNames : \E i \in DOMAIN mine : mine[i] = n
  <2>1. Gon = {} <=> \A n \in SpecNames : n \in ToSet(mine)
    OBVIOUS
  <2>2. ToSet(mine) = {mine[i] : i \in DOMAIN mine}
    BY DEF ToSet
  <2> QED
    BY <2>1, <2>2
<1>5. Aga = {} <=> \A n \in SpecNames : \A i, j \in DOMAIN mine : mine[i] = n /\ mine[j] = n => i = j
  <2>1. Aga = {} <=> \A n \in SpecNames : ~(\E i, j \in DOMAIN mine : i < j /\ mine[i] = n /\ mine[j] = n)
    OBVIOUS
  <2>2. \A i, j \in DOMAIN mine : i = j \/ i < j \/ j < i
    <3>1. DOMAIN mine \subseteq Int
      BY SourceShape
    <3> QED
      BY <3>1
  <2>3. \A i \in DOMAIN mine : ~(i < i)
    BY SourceShape
  <2> QED
    BY <2>1, <2>2, <2>3
<1>6. Mine = {} <=> Mis = {} /\ For = {} /\ Aga = {} /\ Gon = {}
  <2> HIDE DEF Mis, For, Aga, Gon
  <2> QED
    BY <1>1
<1> HIDE DEF Mis, For, Aga, Gon
<1> QED
  BY <1>2, <1>3, <1>4, <1>5, <1>6

\* A word of a file, the listed ones apart, is a declaration of its name.
LEMMA WordIsMade ==
  ASSUME NEW f \in Texts, f.path \notin sources.listed \/ f.path = Declaring, NEW i \in DOMAIN f.declares
  PROVE  /\ <<f.path, i>> \in MadeAt(f.declares[i])
         /\ f.declares[i] \in SpecNames \cup UNION {ToSet(g.declares) : g \in Texts}
<1>1. <<f.path, i>> \in MadeAt(f.declares[i])
  BY MadeIs
<1>2. f.declares[i] \in ToSet(f.declares)
  BY DEF ToSet
<1> QED
  BY <1>1, <1>2

\* A tree that passes declares nothing outside the module.
LEMMA PassIsInside ==
  ASSUME sources \in SourceTrees, DeclsPass
  PROVE  Outside = {}
<1> SUFFICES ASSUME NEW f \in Texts, f.path # Declaring, f.path \notin sources.listed, f.declares # <<>>
             PROVE  FALSE
  BY OutsideIs
<1>1. 1 \in DOMAIN f.declares
  BY SourceShape
<1> DEFINE n == f.declares[1]
<1>2. <<f.path, 1>> \in MadeAt(n) /\ n \in SpecNames \cup UNION {ToSet(g.declares) : g \in Texts}
  BY <1>1, WordIsMade
<1> HIDE DEF n
<1>3. MadeAt(n) = {} \/ \E m \in MadeAt(n) : m[1] = Declaring /\ MadeAt(n) = {m}
  BY <1>2 DEF DeclsPass
<1> QED
  BY <1>2, <1>3

\* A tree with nothing outside the module declares a name there alone.
LEMMA MadeInside ==
  ASSUME sources \in SourceTrees, Outside = {}, NEW n, NEW m \in MadeAt(n)
  PROVE  \E d \in Texts : d.path = Declaring /\ \E i \in DOMAIN d.declares : d.declares[i] = n /\ m = <<Declaring, i>>
<1>1. PICK f \in Texts : /\ f.path \notin sources.listed \/ f.path = Declaring
                         /\ \E i \in DOMAIN f.declares : f.declares[i] = n /\ m = <<f.path, i>>
  BY MadeIs
<1>2. f.declares # <<>>
  BY <1>1, SourceShape
<1>3. f.path = Declaring
  BY <1>1, <1>2, OutsideIs
<1> QED
  BY <1>1, <1>3

\* Nothing is reported exactly when the tree is as decls asks.
LEMMA NoFaultIsPass ==
  ASSUME sources \in SourceTrees
  PROVE  AllFaults = {} <=> DeclsPass
<1>1. AllFaults = {} <=> (Declaring \in Paths(Texts) => Mine = {}) /\ Outside = {} /\ ListFaults = {}
  BY DEF AllFaults
<1>2. ASSUME Declaring \in Paths(Texts), Mine = {}, Outside = {}, ListFaults = {} PROVE DeclsPass
  <2>1. PICK d \in Texts : d.path = Declaring
    BY <1>2 DEF Paths
  <2>2. \A f \in Texts : f.path = Declaring => f = d
    BY <2>1, SourceShape
  <2>3. /\ d.mod = Module
        /\ \A i \in DOMAIN d.declares : d.declares[i] \in SpecNames
        /\ \A n \in SpecNames : /\ \E i \in DOMAIN d.declares : d.declares[i] = n
                                /\ \A i, j \in DOMAIN d.declares : d.declares[i] = n /\ d.declares[j] = n => i = j
    BY <1>2, <2>1, MineIs
  <2>4. ASSUME NEW n \in SpecNames PROVE \E m \in MadeAt(n) : m[1] = Declaring /\ MadeAt(n) = {m}
    <3>1. PICK i \in DOMAIN d.declares : d.declares[i] = n
      BY <2>3
    <3>2. <<Declaring, i>> \in MadeAt(n)
      BY <3>1, <2>1, WordIsMade
    <3>3. ASSUME NEW m \in MadeAt(n) PROVE m = <<Declaring, i>>
      <4>1. PICK j \in DOMAIN d.declares : d.declares[j] = n /\ m = <<Declaring, j>>
        BY <1>2, <2>2, MadeInside
      <4> QED
        BY <4>1, <3>1, <2>3
    <3> QED
      BY <3>2, <3>3
  <2>5. ASSUME NEW n, n \notin SpecNames, NEW m \in MadeAt(n) PROVE FALSE
    <3>1. PICK j \in DOMAIN d.declares : d.declares[j] = n
      BY <1>2, <2>2, MadeInside
    <3> QED
      BY <3>1, <2>3, <2>5
  <2>6. \A p \in sources.listed : \E f \in Texts : f.path = p /\ f.declares # <<>>
    BY <1>2, ListedIs
  <2>7. \A f \in Texts : f.path = Declaring => f.mod = Module
    BY <2>2, <2>3
  <2> QED
    BY <1>2, <2>4, <2>5, <2>6, <2>7 DEF DeclsPass
<1>3. ASSUME Declaring \notin Paths(Texts), Outside = {}, ListFaults = {} PROVE DeclsPass
  <2>1. \A f \in Texts : f.path # Declaring
    BY <1>3 DEF Paths
  <2>2. ASSUME NEW n, NEW m \in MadeAt(n) PROVE FALSE
    BY <1>3, <2>1, MadeInside
  <2>3. \A p \in sources.listed : \E f \in Texts : f.path = p /\ f.declares # <<>>
    BY <1>3, ListedIs
  <2> QED
    BY <1>3, <2>1, <2>2, <2>3 DEF DeclsPass
<1>4. ASSUME DeclsPass, Declaring \in Paths(Texts) PROVE Mine = {}
  <2>1. PICK d \in Texts : d.path = Declaring
    BY <1>4 DEF Paths
  <2>2. d.mod = Module
    BY <2>1, <1>4 DEF DeclsPass
  <2>3. ASSUME NEW i \in DOMAIN d.declares, d.declares[i] \notin SpecNames PROVE FALSE
    <3>1. /\ <<d.path, i>> \in MadeAt(d.declares[i])
          /\ d.declares[i] \in SpecNames \cup UNION {ToSet(g.declares) : g \in Texts}
      BY <2>1, WordIsMade
    <3> QED
      BY <3>1, <2>3, <1>4 DEF DeclsPass
  <2>4. ASSUME NEW n \in SpecNames
        PROVE  /\ \E i \in DOMAIN d.declares : d.declares[i] = n
               /\ \A i, j \in DOMAIN d.declares : d.declares[i] = n /\ d.declares[j] = n => i = j
    <3>1. PICK m \in MadeAt(n) : m[1] = Declaring /\ MadeAt(n) = {m}
      BY <1>4 DEF DeclsPass
    <3>2. \E i \in DOMAIN d.declares : d.declares[i] = n
      <4>1. Outside = {}
        BY <1>4, PassIsInside
      <4>2. \A f \in Texts : f.path = Declaring => f = d
        BY <2>1, SourceShape
      <4> QED
        BY <3>1, <4>1, <4>2, MadeInside
    <3>3. ASSUME NEW i \in DOMAIN d.declares, NEW j \in DOMAIN d.declares, d.declares[i] = n, d.declares[j] = n
          PROVE  i = j
      <4>1. <<d.path, i>> \in MadeAt(n) /\ <<d.path, j>> \in MadeAt(n)
        BY <2>1, <3>3, WordIsMade
      <4>2. <<d.path, i>> = <<d.path, j>>
        BY <4>1, <3>1
      <4> QED
        BY <4>2
    <3> QED
      BY <3>2, <3>3
  <2> QED
    BY <2>1, <2>2, <2>3, <2>4, MineIs
<1>5. ASSUME DeclsPass PROVE Outside = {} /\ ListFaults = {}
  <2>1. ListFaults = {}
    BY <1>5, ListedIs DEF DeclsPass
  <2> QED
    BY <2>1, <1>5, PassIsInside
<1> QED
  BY <1>1, <1>2, <1>3, <1>4, <1>5

\* Every step keeps what decls has found.
LEMMA DeclsStep == DeclsInv /\ [ClaimsNext]_claimsVars => DeclsInv'
<1> SUFFICES ASSUME DeclsInv, [ClaimsNext]_claimsVars PROVE DeclsInv'
  OBVIOUS
<1>1. CASE doing = "decls" /\ DeclsUnreadable /\ UNCHANGED doing
  BY <1>1 DEF DeclsInv, DeclsUnreadable
<1>2. CASE doing = "decls" /\ CheckDecls /\ UNCHANGED doing
  <2>1. sources' = sources /\ faults' = AllFaults /\ exit' = IF faults' = {} THEN "0" ELSE "1"
    BY <1>2 DEF CheckDecls, AllFaults
  <2>2. AllFaults' = AllFaults
    BY <2>1 DEF AllFaults, Mine, Outside, ListFaults, Texts, DeclaredAt
  <2> QED
    BY <1>2, <2>1, <2>2 DEF DeclsInv
<1>3. CASE UNCHANGED claimsVars
  <2>1. UNCHANGED <<doing, sources, faults, exit>>
    BY <1>3 DEF claimsVars, declsVars
  <2>2. AllFaults' = AllFaults
    BY <2>1 DEF AllFaults, Mine, Outside, ListFaults, Texts, DeclaredAt
  <2> QED
    BY <2>1, <2>2 DEF DeclsInv
<1>4. CASE doing # "decls" /\ doing' # "decls" /\ UNCHANGED sources
  BY <1>4 DEF DeclsInv
<1>5. ASSUME ClaimsUnreadable \/ NoSuchRow \/ TakeRows \/ OpenFile \/ EndBlock \/ StartParagraph \/ GoOn \/ JudgeFile \/ EndRow
      PROVE  doing # "decls" /\ doing' # "decls" /\ UNCHANGED sources
  BY <1>5 DEF ClaimsUnreadable, NoSuchRow, TakeRows, OpenFile, EndBlock, StartParagraph, GoOn, JudgeFile, EndRow,
     CutOn, declsVars
<1> QED
  BY <1>1, <1>2, <1>3, <1>4, <1>5 DEF ClaimsNext, RunDecls, DeclsNext

\* Whatever the sources and the list, decls passes exactly when each of SAFETY.md's names has one
\* declaration, in its module, and nothing else is declared but in the listed files.
THEOREM NamesHaveOneDeclarer == ClaimsSpec => []OneDeclarer
<1>1. ClaimsInit => DeclsInv
  BY DEF ClaimsInit, DeclsInv
<1>2. DeclsInv /\ [ClaimsNext]_claimsVars => DeclsInv'
  BY DeclsStep
<1>3. DeclsInv => OneDeclarer
  <2> SUFFICES ASSUME DeclsInv, sources.git, exit \in {"0", "1"} PROVE exit = "0" <=> DeclsPass
    BY DEF OneDeclarer, DeclsPass
  <2>1. doing = "decls" /\ sources \in SourceTrees
    BY DEF DeclsInv, NoSources
  <2> QED
    BY <2>1, NoFaultIsPass DEF DeclsInv
<1> QED
  BY <1>1, <1>2, <1>3, PTL DEF ClaimsSpec

-----------------------------------------------------------------------------
(* The command claims.  Natural numbers first: a set of them has a least, and holds all when it holds *)
(* 0 and each next one. *)

\* A set of natural numbers that is not empty has a least.
LEMMA LeastNat ==
  ASSUME NEW T, T \subseteq Nat, T # {}
  PROVE  \E x \in T : \A y \in T : x <= y
<1> DEFINE U == {1..n : n \in T}
           R == StrictSubsetOrdering(Nat)
<1>1. IsWellFoundedOn(R, FiniteSubsetsOf(Nat))
  BY FS_StrictSubsetOrderingWellFounded
<1>2. U \subseteq FiniteSubsetsOf(Nat)
  <2>1. ASSUME NEW n \in T PROVE 1..n \subseteq Nat /\ IsFiniteSet(1..n)
    BY FS_Interval
  <2> QED
    BY <2>1 DEF FiniteSubsetsOf
<1>6. U # {}
  OBVIOUS
<1> HIDE DEF R
<1>3. PICK u \in U : \A v \in U : ~(<<v, u>> \in R)
  <2> HIDE DEF U
  <2> QED
    BY <1>1, <1>2, <1>6, WFMin
<1>4. PICK x \in T : u = 1..x
  BY <1>3
<1>5. ASSUME NEW y \in T, y < x PROVE FALSE
  <2>1. x \in 1..x /\ x \notin 1..y /\ 1..y \subseteq 1..x
    BY <1>5
  <2>2. 1..y \in SUBSET Nat /\ 1..x \in SUBSET Nat /\ 1..y # 1..x
    BY <2>1
  <2>3. <<1..y, 1..x>> \in R
    BY <2>1, <2>2 DEF R, StrictSubsetOrdering
  <2> QED
    BY <2>3, <1>3, <1>4
<1> QED
  BY <1>5

\* A set of numbers that holds 0, and n + 1 with n, holds them all.
LEMMA ByOnes ==
  ASSUME NEW S, 0 \in S, \A n \in Nat : n \in S => n + 1 \in S
  PROVE  \A n \in Nat : n \in S
<1> DEFINE T == Nat \ S
<1>1. ASSUME T # {} PROVE FALSE
  <2>1. PICK x \in T : \A y \in T : x <= y
    <3>1. T \subseteq Nat
      OBVIOUS
    <3> HIDE DEF T
    <3> QED
      BY <3>1, <1>1, LeastNat
  <2>2. x \in Nat /\ x # 0
    BY <2>1
  <2>3. x - 1 \in Nat /\ x - 1 \notin T /\ (x - 1) + 1 = x
    BY <2>1, <2>2
  <2> QED
    BY <2>1, <2>3
<1> QED
  BY <1>1

\* A bounded set of natural numbers that is not empty has a greatest.
LEMMA GreatestNat ==
  ASSUME NEW n \in Nat, NEW T, \A x \in T : x \in 0..n, T # {}
  PROVE  \E x \in T : \A y \in T : y <= x
<1> DEFINE V == {n - x : x \in T}
<1>1. V \subseteq Nat /\ V # {}
  OBVIOUS
<1>2. PICK v \in V : \A y \in V : v <= y
  <2> HIDE DEF V
  <2> QED
    BY <1>1, LeastNat
<1>3. PICK x \in T : v = n - x
  BY <1>2
<1>4. ASSUME NEW y \in T PROVE y <= x
  <2>1. n - x <= n - y
    BY <1>2, <1>3
  <2> QED
    BY <2>1
<1> QED
  BY <1>4

(* Counts. *)

\* A count over 1..n grows by one where the next number is of the set, and else not.
LEMMA CountNext ==
  ASSUME NEW n \in Nat, NEW S, \A m \in S : m \in 1..(n + 1), NEW T, \A m \in T : m \in 1..n,
         \A m \in 1..n : m \in S <=> m \in T
  PROVE  /\ Cardinality(S) \in Nat /\ Cardinality(T) \in Nat
         /\ Cardinality(S) = IF n + 1 \in S THEN Cardinality(T) + 1 ELSE Cardinality(T)
<1>1. IsFiniteSet(T) /\ IsFiniteSet(S)
  <2>1. \A k \in Nat : IsFiniteSet(1..k)
    BY FS_Interval
  <2>2. T \subseteq 1..n /\ S \subseteq 1..(n + 1) /\ n + 1 \in Nat
    OBVIOUS
  <2> QED
    BY <2>1, <2>2, FS_Subset
<1>2. Cardinality(S) \in Nat /\ Cardinality(T) \in Nat
  BY <1>1, FS_CardinalityType
<1>3. CASE n + 1 \in S
  <2>1. S = T \cup {n + 1} /\ n + 1 \notin T
    BY <1>3
  <2> QED
    BY <1>1, <1>2, <1>3, <2>1, FS_AddElement
<1>4. CASE n + 1 \notin S
  <2>1. S = T
    BY <1>4
  <2> QED
    BY <1>2, <1>4, <2>1
<1> QED
  BY <1>3, <1>4

\* No fence stands before the first line, and one more up to a line that is one.
LEMMA FencesNext ==
  ASSUME NEW f
  PROVE  /\ FencesTo(f, 0) = 0
         /\ \A k \in Nat : /\ FencesTo(f, k) \in Nat
                           /\ FencesTo(f, k + 1) = IF f.lines[k + 1].form = "fence" THEN FencesTo(f, k) + 1 ELSE FencesTo(f, k)
<1> DEFINE F(k) == {j \in 1..k : f.lines[j].form = "fence"}
<1>1. FencesTo(f, 0) = 0
  <2>1. F(0) = {}
    OBVIOUS
  <2> QED
    BY <2>1, FS_EmptySet DEF FencesTo
<1>2. ASSUME NEW k \in Nat
      PROVE /\ FencesTo(f, k) \in Nat
            /\ FencesTo(f, k + 1) = IF f.lines[k + 1].form = "fence" THEN FencesTo(f, k) + 1 ELSE FencesTo(f, k)
  <2>1. \A m \in F(k + 1) : m \in 1..(k + 1)
    OBVIOUS
  <2>2. \A m \in F(k) : m \in 1..k
    OBVIOUS
  <2>3. \A m \in 1..k : m \in F(k + 1) <=> m \in F(k)
    OBVIOUS
  <2>4. k + 1 \in F(k + 1) <=> f.lines[k + 1].form = "fence"
    OBVIOUS
  <2>5. FencesTo(f, k) = Cardinality(F(k)) /\ FencesTo(f, k + 1) = Cardinality(F(k + 1))
    BY DEF FencesTo
  <2> DEFINE S == F(k + 1) T == F(k)
  <2>6. /\ \A m \in S : m \in 1..(k + 1)
        /\ \A m \in T : m \in 1..k
        /\ \A m \in 1..k : m \in S <=> m \in T
    BY <2>1, <2>2, <2>3
  <2> HIDE DEF S, T
  <2>7. Cardinality(S) \in Nat /\ Cardinality(T) \in Nat /\ Cardinality(S) = IF k + 1 \in S THEN Cardinality(T) + 1 ELSE Cardinality(T)
    BY <2>6, CountNext
  <2>8. S = F(k + 1) /\ T = F(k)
    BY DEF S, T
  <2> HIDE DEF F
  <2> QED
    BY <2>4, <2>5, <2>7, <2>8
<1> QED
  BY <1>1, <1>2

(* A file's prose. *)

\* A file whose lines are a sequence.
AFile(f) == IsSequence(f.lines) /\ f.md \in BOOLEAN

\* A sequence, by what the provers ask of one.
LEMMA SequenceIs ==
  ASSUME NEW s, IsSequence(s)
  PROVE  (\E S : s \in Seq(S)) /\ Len(s) \in Nat /\ DOMAIN s = 1..Len(s)
<1> DEFINE S == {s[k] : k \in DOMAIN s}
<1>1. s \in Seq(S)
  BY DEF IsSequence
<1> HIDE DEF S
<1> QED
  BY <1>1, LenProperties

\* The prose of a file is its lines up to a plan's record, those of its fences blank.
LEMMA ProseIs ==
  ASSUME NEW f, AFile(f)
  PROVE  /\ \E S : Prose(f) \in Seq(S)
         /\ Len(Prose(f)) \in 0..Len(f.lines) /\ DOMAIN Prose(f) = 1..Len(Prose(f))
         /\ \A k \in 1..Len(Prose(f)) : /\ Prose(f)[k] = IF Fenced(f, k) THEN BlankLine ELSE f.lines[k]
                                       /\ ~Recorded(f, k)
         /\ \A k \in 1..Len(f.lines) : k > Len(Prose(f)) => Recorded(f, k)
<1> DEFINE n == Len(f.lines)
           fenced[k \in 0..n] == k > 0 /\ ((f.lines[k].form = "fence") # fenced[k - 1])
           W == [k \in 0..n |-> FencesTo(f, k) % 2 = 1]
<1>1. n \in Nat
  BY SequenceIs DEF AFile
<1> HIDE DEF n
<1>2. \A k \in 0..n : W[k] = (k > 0 /\ ((f.lines[k].form = "fence") # W[k - 1]))
  <2> TAKE k \in 0..n
  <2>1. CASE k = 0
    BY <1>1, <2>1, FencesNext
  <2>2. CASE k # 0
    <3>1. k - 1 \in Nat /\ k - 1 \in 0..n /\ (k - 1) + 1 = k
      BY <1>1, <2>2
    <3>2. /\ FencesTo(f, k - 1) \in Nat
          /\ FencesTo(f, k) = IF f.lines[k].form = "fence" THEN FencesTo(f, k - 1) + 1 ELSE FencesTo(f, k - 1)
      BY <3>1, FencesNext
    <3> DEFINE a == FencesTo(f, k - 1) b == FencesTo(f, k)
    <3>4. W[k] = (b % 2 = 1) /\ W[k - 1] = (a % 2 = 1)
      BY <3>1
    <3>5. a \in Nat /\ b = IF f.lines[k].form = "fence" THEN a + 1 ELSE a
      BY <3>2
    <3> HIDE DEF a, b, W
    <3>6. (b % 2 = 1) <=> ((f.lines[k].form = "fence") # (a % 2 = 1))
      BY <3>5
    <3> QED
      BY <2>2, <3>4, <3>6
  <2> QED
    BY <2>1, <2>2
<1>3. W = [k \in 0..n |-> k > 0 /\ ((f.lines[k].form = "fence") # W[k - 1])]
  <2> DEFINE V == [k \in 0..n |-> k > 0 /\ ((f.lines[k].form = "fence") # W[k - 1])]
  <2>1. \A k \in 0..n : V[k] = W[k]
    BY <1>2
  <2>2. DOMAIN V = 0..n /\ DOMAIN W = 0..n
    OBVIOUS
  <2> QED
    BY <2>1, <2>2
<1>4. fenced = [k \in 0..n |-> k > 0 /\ ((f.lines[k].form = "fence") # fenced[k - 1])]
  BY <1>3
<1> HIDE DEF fenced, W
<1>5. \A k \in 0..n : fenced[k] = (k > 0 /\ ((f.lines[k].form = "fence") # fenced[k - 1]))
  BY <1>4
<1>6. \A k \in Nat : k \in 0..n => fenced[k] = W[k]
  <2> DEFINE S == {k \in Nat : k \in 0..n => fenced[k] = W[k]}
  <2>1. 0 \in S
    BY <1>2, <1>5
  <2>2. ASSUME NEW k \in Nat, k \in S PROVE k + 1 \in S
    <3>1. CASE k + 1 \in 0..n
      <4>1. k \in 0..n /\ (k + 1) - 1 = k /\ fenced[k] = W[k]
        BY <1>1, <2>2, <3>1
      <4>2. fenced[k + 1] = (k + 1 > 0 /\ ((f.lines[k + 1].form = "fence") # fenced[k]))
        BY <1>5, <3>1, <4>1
      <4>3. W[k + 1] = (k + 1 > 0 /\ ((f.lines[k + 1].form = "fence") # W[k]))
        BY <1>2, <3>1, <4>1
      <4> QED
        BY <4>1, <4>2, <4>3
    <3>2. CASE k + 1 \notin 0..n
      BY <3>2
    <3> QED
      BY <3>1, <3>2
  <2> HIDE DEF S
  <2>3. \A k \in Nat : k \in S
    BY <2>1, <2>2, ByOnes
  <2> QED
    BY <2>3 DEF S
<1> DEFINE kept == [k \in DOMAIN f.lines |->
                 IF f.md /\ (fenced[k] \/ f.lines[k].form = "fence") THEN BlankLine ELSE f.lines[k]]
           records == {k \in DOMAIN kept : f.plan /\ kept[k].form = "record"}
<1>7. Prose(f) = IF records = {} THEN kept ELSE SubSeq(kept, 1, Min(records) - 1)
  BY DEF Prose, fenced, n
<1>8. DOMAIN f.lines = 1..n
  BY SequenceIs DEF AFile, n
<1>9. DOMAIN kept = 1..n /\ \A k \in 1..n : kept[k] = IF Fenced(f, k) THEN BlankLine ELSE f.lines[k]
  <2>1. \A k \in 1..n : k \in Nat /\ k \in 0..n /\ fenced[k] = (FencesTo(f, k) % 2 = 1)
    BY <1>1, <1>6 DEF W
  <2> QED
    BY <1>8, <2>1 DEF Fenced
<1>10. Len(kept) = n /\ \E S : kept \in Seq(S)
  <2>1. kept \in [1..n -> {kept[k] : k \in 1..n}]
    BY <1>8
  <2> DEFINE Q == {kept[k] : k \in 1..n}
  <2> HIDE DEF kept, Q
  <2>2. kept \in Seq(Q)
    BY <1>1, <2>1, SeqDef DEF Q
  <2> QED
    BY <1>1, <1>9, <2>2, LenProperties
<1>11. \A k \in 1..n : Recorded(f, k) <=> \E j \in records : j <= k
  <2>1. \A j \in 1..n : j \in records <=> f.plan /\ f.lines[j].form = "record" /\ ~Fenced(f, j)
    <3>1. BlankLine.form # "record"
      BY DEF BlankLine
    <3>2. DOMAIN kept = 1..n
      BY <1>9
    <3> HIDE DEF kept
    <3>3. \A j \in 1..n : j \in records <=> f.plan /\ kept[j].form = "record"
      BY <3>2
    <3> HIDE DEF records
    <3> QED
      BY <1>9, <3>1, <3>3
  <2>2. \A j \in records : j \in 1..n
    BY <1>9
  <2> HIDE DEF records, kept
  <2>3. ASSUME NEW k \in 1..n
        PROVE  Recorded(f, k) <=> \E j \in records : j <= k
    <3>1. \A j \in 1..k : j \in 1..n
      BY <1>1
    <3>2. \A j \in 1..n : j <= k => j \in 1..k
      BY <1>1
    <3> QED
      BY <2>1, <2>2, <3>1, <3>2 DEF Recorded
  <2> QED
    BY <2>3
<1>12. \A j \in records : j \in 1..n
  BY <1>9
<1> HIDE DEF records, kept
<1>13. CASE records = {}
  <2>1. Prose(f) = kept
    BY <1>7, <1>13
  <2> QED
    BY <1>1, <1>9, <1>10, <1>11, <1>13, <2>1 DEF n
<1>14. CASE records # {}
  <2>1. PICK m \in records : \A y \in records : m <= y
    <3>1. records \subseteq Nat
      BY <1>1, <1>12
    <3> QED
      BY <3>1, <1>14, LeastNat
  <2>2. Min(records) \in records /\ \A y \in records : Min(records) <= y
    BY <2>1 DEF Min
  <2> DEFINE x == Min(records)
  <2>3. x \in 1..n /\ Prose(f) = SubSeq(kept, 1, x - 1)
    BY <1>7, <1>12, <1>14, <2>2
  <2>4. (\A y \in records : x <= y) /\ x \in records
    BY <2>2
  <2> HIDE DEF x
  <2>5. PICK S : kept \in Seq(S)
    BY <1>10
  <2>6. /\ Prose(f) \in Seq(S) /\ Len(Prose(f)) = x - 1 /\ DOMAIN Prose(f) = 1..(x - 1)
        /\ \A k \in 1..(x - 1) : Prose(f)[k] = kept[k]
    BY <1>1, <1>10, <2>3, <2>5
  <2>7. \A k \in 1..(x - 1) : k \in 1..n /\ ~Recorded(f, k) /\ Prose(f)[k] = IF Fenced(f, k) THEN BlankLine ELSE f.lines[k]
    <3> TAKE k \in 1..(x - 1)
    <3>1. k \in 1..n
      BY <1>1, <2>3
    <3>2. \A j \in records : ~(j <= k)
      BY <1>1, <1>12, <2>3, <2>4
    <3> QED
      BY <1>9, <1>11, <2>6, <3>1, <3>2
  <2>8. \A k \in 1..n : k > x - 1 => Recorded(f, k)
    <3> TAKE k \in 1..n
    <3>1. ASSUME k > x - 1 PROVE x <= k
      BY <1>1, <2>3, <3>1
    <3> QED
      BY <1>11, <2>4, <3>1
  <2>9. x - 1 \in 0..n
    BY <1>1, <2>3
  <2> QED
    BY <2>6, <2>7, <2>8, <2>9 DEF n
<1> QED
  BY <1>13, <1>14

(* Paragraphs and sentences, as the reference has them. *)

\* The parting lines up to a line; the lines of a number's paragraph.
PartsTo(f, k) == Cardinality({m \in 1..k : Parts(f, m)})
Joint(f, j, k) == IF j <= k THEN Together(f, j, k) ELSE Together(f, k, j)
RunsOn(f, m) == <<"runs on">> \in f.lines[m].says

\* The lesser and the greater of two numbers.
LEMMA OfTwo ==
  \A i, j \in Nat : /\ Min({i, j}) = IF i <= j THEN i ELSE j
                    /\ Max({i, j}) = IF i <= j THEN j ELSE i
<1> TAKE i, j \in Nat
<1> DEFINE a == IF i <= j THEN i ELSE j
           b == IF i <= j THEN j ELSE i
<1>1. a \in {i, j} /\ \A y \in {i, j} : a <= y
  OBVIOUS
<1>2. b \in {i, j} /\ \A y \in {i, j} : b >= y
  OBVIOUS
<1>3. Min({i, j}) \in {i, j} /\ \A y \in {i, j} : Min({i, j}) <= y
  BY <1>1 DEF Min
<1>4. Max({i, j}) \in {i, j} /\ \A y \in {i, j} : Max({i, j}) >= y
  BY <1>2 DEF Max
<1>5. Min({i, j}) = a
  BY <1>3
<1>6. Max({i, j}) = b
  BY <1>4
<1> QED
  BY <1>5, <1>6

\* Lines are of one paragraph when those between are with both.
LEMMA TogetherIs ==
  ASSUME NEW f
  PROVE  /\ \A k \in Nat : Together(f, k, k) <=> ~Parts(f, k)
         /\ \A i, j, k \in Nat : i <= j /\ j <= k => (Together(f, i, k) <=> Together(f, i, j) /\ Together(f, j, k))
         /\ \A k \in Nat : Together(f, k, k + 1) <=>
              /\ ~Parts(f, k) /\ ~Parts(f, k + 1)
              /\ ~Heads(f, k + 1) /\ f.lines[k + 1].form # "item"
         /\ \A i, k \in Nat : i <= k /\ Together(f, i, k) => ~Parts(f, i) /\ ~Parts(f, k)
<1>1. \A k \in Nat : Together(f, k, k) <=> ~Parts(f, k)
  <2> TAKE k \in Nat
  <2>1. (\A m \in k..k : m = k) /\ k \in k..k /\ \A m \in (k + 1)..k : FALSE
    OBVIOUS
  <2> QED
    BY <2>1 DEF Together
<1>2. \A i, j, k \in Nat : i <= j /\ j <= k => (Together(f, i, k) <=> Together(f, i, j) /\ Together(f, j, k))
  <2> SUFFICES ASSUME NEW i \in Nat, NEW j \in Nat, NEW k \in Nat, i <= j, j <= k
               PROVE  Together(f, i, k) <=> Together(f, i, j) /\ Together(f, j, k)
    OBVIOUS
  <2>1. \A m : m \in i..k <=> m \in i..j \/ m \in j..k
    OBVIOUS
  <2>2. \A m : m \in (i + 1)..k <=> m \in (i + 1)..j \/ m \in (j + 1)..k
    OBVIOUS
  <2> QED
    BY <2>1, <2>2 DEF Together
<1>3. \A k \in Nat : Together(f, k, k + 1) <=>
              /\ ~Parts(f, k) /\ ~Parts(f, k + 1)
              /\ ~Heads(f, k + 1) /\ f.lines[k + 1].form # "item"
  <2> TAKE k \in Nat
  <2>1. \A m : m \in k..(k + 1) <=> m = k \/ m = k + 1
    OBVIOUS
  <2>2. \A m : m \in (k + 1)..(k + 1) <=> m = k + 1
    OBVIOUS
  <2> QED
    BY <2>1, <2>2 DEF Together
<1>4. \A i, k \in Nat : i <= k /\ Together(f, i, k) => ~Parts(f, i) /\ ~Parts(f, k)
  <2>1. \A i, k \in Nat : i <= k => i \in i..k /\ k \in i..k
    OBVIOUS
  <2> QED
    BY <2>1 DEF Together
<1> QED
  BY <1>1, <1>2, <1>3, <1>4

\* To be of one paragraph is symmetric and transitive.
LEMMA JointIs ==
  ASSUME NEW f
  PROVE  /\ \A j, k \in Nat : Together(f, Min({j, k}), Max({j, k})) <=> Joint(f, j, k)
         /\ \A j, k \in Nat : Joint(f, j, k) <=> Joint(f, k, j)
         /\ \A j, k \in Nat : Joint(f, j, k) => ~Parts(f, j) /\ ~Parts(f, k)
         /\ \A k \in Nat : Joint(f, k, k) <=> ~Parts(f, k)
         /\ \A i, j, k \in Nat : Joint(f, i, j) /\ Joint(f, j, k) => Joint(f, i, k)
         /\ \A i, j, k \in Nat : i <= j /\ j <= k /\ Joint(f, i, k) => Joint(f, i, j) /\ Joint(f, j, k)
<1>1. \A j, k \in Nat : Together(f, Min({j, k}), Max({j, k})) <=> Joint(f, j, k)
  <2> TAKE j, k \in Nat
  <2>1. CASE j <= k
    BY <2>1, OfTwo DEF Joint
  <2>2. CASE ~(j <= k)
    BY <2>2, OfTwo DEF Joint
  <2> QED
    BY <2>1, <2>2
<1>2. \A j, k \in Nat : Joint(f, j, k) <=> Joint(f, k, j)
  BY DEF Joint
<1>3. \A j, k \in Nat : Joint(f, j, k) => ~Parts(f, j) /\ ~Parts(f, k)
  <2>1. \A i, k \in Nat : i <= k /\ Together(f, i, k) => ~Parts(f, i) /\ ~Parts(f, k)
    BY TogetherIs
  <2> QED
    BY <2>1 DEF Joint
<1>4. \A k \in Nat : Joint(f, k, k) <=> ~Parts(f, k)
  BY TogetherIs DEF Joint
<1>5. \A i, j, k \in Nat : i <= j /\ j <= k => (Together(f, i, k) <=> Together(f, i, j) /\ Together(f, j, k))
  BY TogetherIs
<1>6. \A i, j, k \in Nat : i <= j /\ j <= k /\ Joint(f, i, k) => Joint(f, i, j) /\ Joint(f, j, k)
  BY <1>5 DEF Joint
<1>7. \A i, j, k \in Nat : Joint(f, i, j) /\ Joint(f, j, k) => Joint(f, i, k)
  <2> TAKE i, j, k \in Nat
  <2>1. CASE i <= j /\ j <= k
    BY <2>1, <1>5 DEF Joint
  <2>2. CASE k <= j /\ j <= i
    BY <2>2, <1>5 DEF Joint
  <2>3. CASE i <= k /\ k <= j
    BY <2>3, <1>5 DEF Joint
  <2>4. CASE k <= i /\ i <= j
    BY <2>4, <1>5 DEF Joint
  <2>5. CASE j <= i /\ i <= k
    BY <2>5, <1>5 DEF Joint
  <2>6. CASE j <= k /\ k <= i
    BY <2>6, <1>5 DEF Joint
  <2> QED
    BY <2>1, <2>2, <2>3, <2>4, <2>5, <2>6
<1> QED
  BY <1>1, <1>2, <1>3, <1>4, <1>6, <1>7

\* No sentence ends between two lines, or one does.
LEMMA EndsIs ==
  ASSUME NEW f, NEW i \in Nat, NEW j \in Nat
  PROVE  /\ Ends(f, i, j) = 0 <=> \A m \in i..(j - 1) : RunsOn(f, m)
         /\ Ends(f, i, j) = 1 <=> \E a \in i..(j - 1) : ~RunsOn(f, a) /\ \A m \in i..(j - 1) : m # a => RunsOn(f, m)
<1> DEFINE E == {m \in i..(j - 1) : <<"runs on">> \notin f.lines[m].says}
<1>1. \A m : m \in E <=> m \in i..(j - 1) /\ ~RunsOn(f, m)
  BY DEF RunsOn
<1>2. IsFiniteSet(E)
  <2>1. IsFiniteSet(i..(j - 1))
    BY FS_Interval
  <2>2. E \subseteq i..(j - 1)
    OBVIOUS
  <2> QED
    BY <2>1, <2>2, FS_Subset
<1>3. Ends(f, i, j) = Cardinality(E)
  BY DEF Ends
<1> HIDE DEF E
<1>4. Cardinality(E) = 0 <=> E = {}
  BY <1>2, FS_EmptySet
<1>5. Cardinality(E) = 1 <=> \E x : E = {x}
  BY <1>2, FS_Singleton
<1>6. (\E x : E = {x}) <=> \E a \in i..(j - 1) : ~RunsOn(f, a) /\ \A m \in i..(j - 1) : m # a => RunsOn(f, m)
  <2>1. ASSUME NEW x, E = {x} PROVE \E a \in i..(j - 1) : ~RunsOn(f, a) /\ \A m \in i..(j - 1) : m # a => RunsOn(f, m)
    BY <1>1, <2>1
  <2>2. ASSUME NEW a \in i..(j - 1), ~RunsOn(f, a), \A m \in i..(j - 1) : m # a => RunsOn(f, m) PROVE \E x : E = {x}
    <3>1. E = {a}
      BY <1>1, <2>2
    <3> QED
      BY <3>1
  <2> QED
    BY <2>1, <2>2
<1> QED
  BY <1>1, <1>3, <1>4, <1>5, <1>6

\* Two lines are of one sentence when they are of one paragraph and each line before the later runs on.
LEMMA OneSentenceIs ==
  ASSUME NEW f
  PROVE  /\ \A i, j \in Nat : i <= j => (OneSentence(f, i, j) <=> Joint(f, i, j) /\ \A m \in i..(j - 1) : RunsOn(f, m))
         /\ \A i, j \in Nat : OneSentence(f, i, j) <=> OneSentence(f, j, i)
         /\ \A i, j \in Nat : OneSentence(f, i, j) => Joint(f, i, j)
<1>1. \A i, j \in Nat : i <= j => (OneSentence(f, i, j) <=> Joint(f, i, j) /\ \A m \in i..(j - 1) : RunsOn(f, m))
  <2> SUFFICES ASSUME NEW i \in Nat, NEW j \in Nat, i <= j
               PROVE  OneSentence(f, i, j) <=> Joint(f, i, j) /\ \A m \in i..(j - 1) : RunsOn(f, m)
    OBVIOUS
  <2>1. Min({i, j}) = i /\ Max({i, j}) = j
    BY OfTwo
  <2>2. OneSentence(f, i, j) <=> Together(f, i, j) /\ Ends(f, i, j) = 0
    BY <2>1 DEF OneSentence
  <2> QED
    BY <2>2, EndsIs DEF Joint
<1>2. \A i, j \in Nat : OneSentence(f, i, j) <=> OneSentence(f, j, i)
  <2> TAKE i, j \in Nat
  <2>1. {i, j} = {j, i}
    OBVIOUS
  <2> QED
    BY <2>1 DEF OneSentence
<1>3. \A i, j \in Nat : OneSentence(f, i, j) => Joint(f, i, j)
  <2>1. \A j, k \in Nat : Joint(f, j, k) <=> Joint(f, k, j)
    BY JointIs
  <2>2. \A i, j \in Nat : i <= j => (OneSentence(f, i, j) => Joint(f, i, j))
    BY <1>1
  <2> QED
    BY <1>2, <2>1, <2>2
<1> QED
  BY <1>1, <1>2, <1>3

\* No parting line comes before the first, and one more up to a line that is one.
LEMMA PartsNext ==
  ASSUME NEW f
  PROVE  /\ PartsTo(f, 0) = 0
         /\ \A k \in Nat : /\ PartsTo(f, k) \in Nat
                           /\ PartsTo(f, k + 1) = IF Parts(f, k + 1) THEN PartsTo(f, k) + 1 ELSE PartsTo(f, k)
<1> DEFINE F(k) == {m \in 1..k : Parts(f, m)}
<1>1. PartsTo(f, 0) = 0
  <2>1. F(0) = {}
    OBVIOUS
  <2> QED
    BY <2>1, FS_EmptySet DEF PartsTo
<1>2. ASSUME NEW k \in Nat
      PROVE /\ PartsTo(f, k) \in Nat
            /\ PartsTo(f, k + 1) = IF Parts(f, k + 1) THEN PartsTo(f, k) + 1 ELSE PartsTo(f, k)
  <2> DEFINE S == F(k + 1) T == F(k)
  <2>1. \A m \in S : m \in 1..(k + 1)
    OBVIOUS
  <2>2. \A m \in T : m \in 1..k
    OBVIOUS
  <2>3. \A m \in 1..k : m \in S <=> m \in T
    OBVIOUS
  <2>4. k + 1 \in S <=> Parts(f, k + 1)
    OBVIOUS
  <2>5. PartsTo(f, k) = Cardinality(T) /\ PartsTo(f, k + 1) = Cardinality(S)
    BY DEF PartsTo
  <2> HIDE DEF S, T
  <2>7. Cardinality(S) \in Nat /\ Cardinality(T) \in Nat /\ Cardinality(S) = IF k + 1 \in S THEN Cardinality(T) + 1 ELSE Cardinality(T)
    BY <2>1, <2>2, <2>3, CountNext
  <2> QED
    BY <2>4, <2>5, <2>7
<1> QED
  BY <1>1, <1>2

\* Between two lines the count stays when no line parts, and else grows.
LEMMA PartsGrow ==
  ASSUME NEW f, NEW i \in Nat
  PROVE  \A j \in Nat : i <= j =>
           /\ PartsTo(f, i) <= PartsTo(f, j)
           /\ PartsTo(f, j) = PartsTo(f, i) <=> \A m \in (i + 1)..j : ~Parts(f, m)
<1> DEFINE Grown(j) == /\ PartsTo(f, i) <= PartsTo(f, j)
                       /\ PartsTo(f, j) = PartsTo(f, i) <=> \A m \in (i + 1)..j : ~Parts(f, m)
           S == {d \in Nat : Grown(i + d)}
<1>1. 0 \in S
  <2>1. i + 0 = i /\ \A m \in (i + 1)..i : FALSE
    OBVIOUS
  <2>2. PartsTo(f, i) \in Nat
    BY PartsNext
  <2> QED
    BY <2>1, <2>2
<1>2. ASSUME NEW d \in Nat, d \in S PROVE d + 1 \in S
  <2> DEFINE j == i + d
  <2>1. j \in Nat /\ i + (d + 1) = j + 1 /\ Grown(j)
    BY <1>2
  <2>2. \A m : m \in (i + 1)..(j + 1) <=> m \in (i + 1)..j \/ m = j + 1
    OBVIOUS
  <2> HIDE DEF j
  <2>3. PartsTo(f, j) \in Nat /\ PartsTo(f, i) \in Nat /\ PartsTo(f, j + 1) = IF Parts(f, j + 1) THEN PartsTo(f, j) + 1 ELSE PartsTo(f, j)
    BY <2>1, PartsNext
  <2>4. Grown(j + 1)
    BY <2>1, <2>2, <2>3
  <2> QED
    BY <2>1, <2>4
<1> HIDE DEF S
<1>3. \A d \in Nat : d \in S
  BY <1>1, <1>2, ByOnes
<1>4. ASSUME NEW j \in Nat, i <= j PROVE Grown(j)
  <2>1. j - i \in Nat /\ i + (j - i) = j
    BY <1>4
  <2> QED
    BY <1>3, <2>1 DEF S
<1> QED
  BY <1>4

(* Sections by the text of their heading, as claims.py keeps them. *)

\* The heading a line stands under, or none: its text.
Under(f, k) ==
  LET above == {j \in 1..k : Heads(f, j)}
  IN IF above = {} THEN {} ELSE {h \in {f.lines[Max(above)]} : h.form = "title"}

\* What is near a line, or in the text of a section of its heading.
NearTexts(f, r, k) ==
  \/ \E j \in DOMAIN f.lines : SaysAt(f, j, <<"anchor", r>>) /\ OneSentence(f, j, k)
  \/ NoteOn(f, r, {j \in DOMAIN f.lines : Together(f, Min({j, k}), Max({j, k}))})
  \/ \E b \in (k + 1)..(Len(f.lines) - 1) :
       /\ Parts(f, b) /\ \A m \in k..(b - 1) : ~Parts(f, m)
       /\ SaysAt(f, b + 1, <<"note">>)
       /\ \E j \in (b + 1)..Len(f.lines) : SaysAt(f, j, <<"anchor", r>>) /\ Together(f, b + 1, j)
  \/ \E h \in Under(f, k) :
       <<"anchor", r>> \in h.says \/ NoteOn(f, r, {j \in DOMAIN f.lines : ~Parts(f, j) /\ Under(f, j) = {h}})

\* That text is the one of the heading's line.
LEMMA UnderIs ==
  ASSUME NEW f, NEW k
  PROVE  /\ \A h \in Heading(f, k) : Under(f, k) = {f.lines[h]}
         /\ Heading(f, k) = {} => Under(f, k) = {}
         /\ \A g, h \in Heading(f, k) : g = h
<1> DEFINE above == {j \in 1..k : Heads(f, j)}
           m == Max(above)
<1>1. CASE above = {}
  <2>1. Heading(f, k) = {} /\ Under(f, k) = {}
    BY <1>1 DEF Heading, Under
  <2> QED
    BY <2>1
<1>2. CASE above # {}
  <2>1. Heading(f, k) = {h \in {m} : f.lines[h].form = "title"}
    BY <1>2 DEF Heading
  <2>2. Under(f, k) = {h \in {f.lines[m]} : h.form = "title"}
    BY <1>2 DEF Under
  <2> HIDE DEF m
  <2> QED
    BY <2>1, <2>2
<1> QED
  BY <1>1, <1>2

\* So the code's sections are the reference's and, with them, their namesakes.
LEMMA NearIs ==
  ASSUME NEW f, NEW r, NEW k
  PROVE  NearTexts(f, r, k) <=> Near(f, r, k) \/ ByNamesake(f, r, k)
<1> DEFINE S(h) == {j \in DOMAIN f.lines : ~Parts(f, j) /\ Under(f, j) = {h}}
           own   == InSection(f, k)
           all   == InNamesakes(f, k)
           byText == \E h \in Under(f, k) : <<"anchor", r>> \in h.says \/ NoteOn(f, r, S(h))
           byLine == \E h \in Heading(f, k) : SaysAt(f, h, <<"anchor", r>>) \/ NoteOn(f, r, own)
<1>1. byText <=> byLine \/ (all # own /\ NoteOn(f, r, all))
  <2>1. CASE Heading(f, k) = {}
    <3>1. Under(f, k) = {} /\ ~byText /\ ~byLine
      BY <2>1, UnderIs
    <3>2. all = {}
      BY <2>1 DEF InNamesakes
    <3>3. ~NoteOn(f, r, {})
      BY DEF NoteOn
    <3> QED
      BY <3>1, <3>2, <3>3
  <2>2. ASSUME NEW h \in Heading(f, k) PROVE byText <=> byLine \/ (all # own /\ NoteOn(f, r, all))
    <3> DEFINE t == f.lines[h]
    <3>1. Under(f, k) = {t} /\ \A g \in Heading(f, k) : g = h
      BY <2>2, UnderIs
    <3>2. \A j : Under(f, j) = {t} <=> \E g \in Heading(f, j) : f.lines[g] = t
      <4> TAKE j
      <4>1. CASE Heading(f, j) = {}
        BY <4>1, UnderIs
      <4>2. ASSUME NEW g \in Heading(f, j) PROVE Under(f, j) = {t} <=> \E i \in Heading(f, j) : f.lines[i] = t
        <5>1. Under(f, j) = {f.lines[g]} /\ \A i \in Heading(f, j) : i = g
          BY <4>2, UnderIs
        <5> HIDE DEF t
        <5> QED
          BY <4>2, <5>1
      <4> QED
        BY <4>1, <4>2
    <3>3. \A j : j \in S(t) <=> j \in all
      <4>1. \A j : j \in all <=> j \in DOMAIN f.lines /\ ~Parts(f, j) /\ \E g \in Heading(f, j) : f.lines[g] = t
        BY <2>2, <3>1 DEF InNamesakes
      <4> QED
        BY <3>2, <4>1
    <3>4. \A j \in own : j \in all
      BY <2>2 DEF InSection, InNamesakes
    <3>5. NoteOn(f, r, own) => NoteOn(f, r, all)
      BY <3>4 DEF NoteOn
    <3>6. S(t) = all
      <4> HIDE DEF S, all, t
      <4> QED
        BY <3>3
    <3>7. byText <=> <<"anchor", r>> \in t.says \/ NoteOn(f, r, all)
      <4> HIDE DEF S, all, t
      <4> QED
        BY <3>1, <3>6
    <3>8. byLine <=> <<"anchor", r>> \in t.says \/ NoteOn(f, r, own)
      BY <2>2, <3>1 DEF SaysAt
    <3> HIDE DEF S, own, all, t, byText, byLine
    <3> QED
      BY <3>5, <3>7, <3>8
  <2> QED
    BY <2>1, <2>2
<1> HIDE DEF byText, byLine, own, all
<1>2. byText <=> \E h \in Under(f, k) : <<"anchor", r>> \in h.says \/ NoteOn(f, r, S(h))
  BY DEF byText
<1>3. byLine <=> \E h \in Heading(f, k) : SaysAt(f, h, <<"anchor", r>>) \/ NoteOn(f, r, InSection(f, k))
  BY DEF byLine, own
<1>4. ByNamesake(f, r, k) <=> all # own /\ NoteOn(f, r, all)
  BY DEF ByNamesake, all, own
<1> QED
  BY <1>1, <1>2, <1>3, <1>4 DEF NearTexts, Near

\* The heading a line stands under is the one before's, but where a heading is.
LEMMA UnderNext ==
  ASSUME NEW f
  PROVE  /\ Under(f, 0) = {}
         /\ \A k \in Nat :
              Under(f, k + 1) = IF ~Heads(f, k + 1) THEN Under(f, k)
                                ELSE IF f.lines[k + 1].form = "title" THEN {f.lines[k + 1]} ELSE {}
<1> DEFINE above(k) == {j \in 1..k : Heads(f, j)}
<1>1. \A k : Under(f, k) = IF above(k) = {} THEN {} ELSE {h \in {f.lines[Max(above(k))]} : h.form = "title"}
  BY DEF Under
<1>2. Under(f, 0) = {}
  <2>1. above(0) = {}
    OBVIOUS
  <2> QED
    BY <1>1, <2>1
<1>3. ASSUME NEW k \in Nat, ~Heads(f, k + 1) PROVE Under(f, k + 1) = Under(f, k)
  <2>1. above(k + 1) = above(k)
    BY <1>3
  <2> HIDE DEF above
  <2> QED
    BY <1>1, <2>1
<1>4. ASSUME NEW k \in Nat, Heads(f, k + 1)
      PROVE Under(f, k + 1) = IF f.lines[k + 1].form = "title" THEN {f.lines[k + 1]} ELSE {}
  <2>1. k + 1 \in above(k + 1) /\ \A y \in above(k + 1) : y \in Nat /\ k + 1 >= y
    BY <1>4
  <2>2. Max(above(k + 1)) \in above(k + 1) /\ \A y \in above(k + 1) : Max(above(k + 1)) >= y
    <3> HIDE DEF above
    <3> QED
      BY <2>1 DEF Max
  <2>3. Max(above(k + 1)) = k + 1
    <3> HIDE DEF above
    <3> QED
      BY <2>1, <2>2
  <2>4. above(k + 1) # {}
    BY <2>1
  <2> HIDE DEF above
  <2>5. Under(f, k + 1) = {h \in {f.lines[k + 1]} : h.form = "title"}
    BY <1>1, <2>3, <2>4
  <2> QED
    BY <2>5
<1> QED
  BY <1>2, <1>3, <1>4

\* Lines of one paragraph stand under one heading and after as many parting lines.
LEMMA JointUnder ==
  ASSUME NEW f, NEW i \in Nat, NEW j \in Nat, Joint(f, i, j)
  PROVE  Under(f, i) = Under(f, j) /\ PartsTo(f, i) = PartsTo(f, j)
<1>1. ASSUME NEW a \in Nat, NEW b \in Nat, a <= b, Together(f, a, b)
      PROVE  Under(f, a) = Under(f, b) /\ PartsTo(f, a) = PartsTo(f, b)
  <2>1. \A m \in (a + 1)..b : ~Parts(f, m) /\ ~Heads(f, m)
    <3>1. \A m \in (a + 1)..b : m \in a..b
      OBVIOUS
    <3> QED
      BY <1>1, <3>1 DEF Together
  <2>2. PartsTo(f, a) = PartsTo(f, b)
    BY <1>1, <2>1, PartsGrow
  <2>3. \A d \in Nat : a + d <= b => Under(f, a + d) = Under(f, a)
    <3> DEFINE S == {d \in Nat : a + d <= b => Under(f, a + d) = Under(f, a)}
    <3>1. 0 \in S
      OBVIOUS
    <3>2. ASSUME NEW d \in Nat, d \in S PROVE d + 1 \in S
      <4>1. CASE a + (d + 1) <= b
        <5> DEFINE c == a + d
        <5>1. c \in Nat /\ a + (d + 1) = c + 1 /\ c + 1 \in (a + 1)..b /\ a + d <= b
          BY <4>1
        <5>2. Under(f, c) = Under(f, a)
          BY <3>2, <5>1
        <5> HIDE DEF c
        <5>3. Under(f, c + 1) = Under(f, c)
          BY <2>1, <5>1, UnderNext
        <5> QED
          BY <5>1, <5>2, <5>3
      <4>2. CASE ~(a + (d + 1) <= b)
        BY <4>2
      <4> QED
        BY <4>1, <4>2
    <3> HIDE DEF S
    <3>3. \A d \in Nat : d \in S
      BY <3>1, <3>2, ByOnes
    <3> QED
      BY <3>3 DEF S
  <2>4. b - a \in Nat /\ a + (b - a) = b /\ a + (b - a) <= b
    BY <1>1
  <2>5. Under(f, b) = Under(f, a)
    BY <2>3, <2>4
  <2> QED
    BY <2>2, <2>5
<1> QED
  BY <1>1 DEF Joint

-----------------------------------------------------------------------------
(* The cutting of a file. *)

\* A paragraph as the reference has it: all the lines of one, its heading and its block.
ParaIs(f, p) ==
  /\ p.on # {} /\ p.on \subseteq DOMAIN f.lines
  /\ \A k \in p.on : /\ \A j \in DOMAIN f.lines : j \in p.on <=> Joint(f, j, k)
                     /\ p.head = Under(f, k) /\ p.block = PartsTo(f, k)

\* The paragraphs of the first n lines but for those of c, in their order.
CutTo(f, ps, c, n) ==
  /\ \E S : ps \in Seq(S)
  /\ \A i \in DOMAIN ps : ParaIs(f, ps[i]) /\ \A k \in ps[i].on : k <= n /\ k \notin c
  /\ \A k \in 1..n : ~Parts(f, k) => k \in c \/ \E i \in DOMAIN ps : k \in ps[i].on
  /\ \A i, j \in DOMAIN ps : i < j => \A k \in ps[i].on : \A m \in ps[j].on : k < m

\* The paragraph begun: the lines of the one that goes on to line n.
Begun(f, n) ==
  /\ \A k \in cur : k \in 1..n /\ Together(f, k, n)
  /\ \A k \in 1..n : Together(f, k, n) => k \in cur
  /\ head = Under(f, n) /\ block = PartsTo(f, n)

\* A paragraph begun is whole when the next line parts or starts one, or none follows.
LEMMA WholeIs ==
  ASSUME NEW f, AFile(f), NEW n \in 0..Len(f.lines), Begun(f, n), cur # {},
         n = Len(f.lines) \/ Parts(f, n + 1) \/ Heads(f, n + 1) \/ f.lines[n + 1].form = "item"
  PROVE  ParaIs(f, [on |-> cur, head |-> head, block |-> block])
<1>1. Len(f.lines) \in Nat /\ DOMAIN f.lines = 1..Len(f.lines) /\ n \in Nat
  BY SequenceIs DEF AFile
<1>2. cur \subseteq DOMAIN f.lines
  BY <1>1 DEF Begun
<1>3. ASSUME NEW k \in cur, NEW j \in DOMAIN f.lines
      PROVE  j \in cur <=> Joint(f, j, k)
  <2>1. k \in 1..n /\ k \in Nat /\ j \in Nat /\ j >= 1 /\ Together(f, k, n) /\ k <= n
    BY <1>1, <1>3 DEF Begun
  <2>2. \A a, b, c \in Nat : a <= b /\ b <= c => (Together(f, a, c) <=> Together(f, a, b) /\ Together(f, b, c))
    BY TogetherIs
  <2>3. CASE j <= k
    <3>1. j \in 1..n /\ (Together(f, j, n) <=> Together(f, j, k) /\ Together(f, k, n))
      BY <1>1, <2>1, <2>2, <2>3
    <3> QED
      BY <2>1, <2>3, <3>1 DEF Begun, Joint
  <2>4. CASE k < j /\ j <= n
    <3>1. j \in 1..n /\ (Together(f, k, n) <=> Together(f, k, j) /\ Together(f, j, n)) /\ ~(j <= k)
      BY <1>1, <2>1, <2>2, <2>4
    <3> QED
      BY <2>1, <3>1 DEF Begun, Joint
  <2>5. CASE n < j
    <3>1. j \notin cur
      BY <1>1, <2>5 DEF Begun
    <3>2. n + 1 \in Nat /\ k <= n + 1 /\ n + 1 <= j /\ k <= n /\ n <= n + 1 /\ n # Len(f.lines) /\ ~(j <= k)
      BY <1>1, <1>3, <2>1, <2>5
    <3>3. Together(f, k, j) => Together(f, n, n + 1)
      BY <1>1, <2>1, <2>2, <3>2
    <3>4. ~Together(f, n, n + 1)
      BY <1>1, <3>2, TogetherIs
    <3> QED
      BY <3>1, <3>2, <3>3, <3>4 DEF Joint
  <2> QED
    BY <1>1, <2>1, <2>3, <2>4, <2>5
<1>4. ASSUME NEW k \in cur PROVE head = Under(f, k) /\ block = PartsTo(f, k)
  <2>1. k \in Nat /\ k <= n /\ Together(f, k, n)
    BY <1>1 DEF Begun
  <2>2. Joint(f, k, n)
    BY <2>1 DEF Joint
  <2> QED
    BY <1>1, <2>1, <2>2, JointUnder DEF Begun
<1> QED
  BY <1>2, <1>3, <1>4 DEF ParaIs

\* Flushed, the paragraphs are those of all lines cut.
LEMMA FlushedIs ==
  ASSUME NEW f, AFile(f), NEW n \in 0..Len(f.lines), Begun(f, n), CutTo(f, paras, cur, n),
         n = Len(f.lines) \/ Parts(f, n + 1) \/ Heads(f, n + 1) \/ f.lines[n + 1].form = "item"
  PROVE  CutTo(f, Flushed, {}, n)
<1>1. Len(f.lines) \in Nat /\ DOMAIN f.lines = 1..Len(f.lines) /\ n \in Nat
  BY SequenceIs DEF AFile
<1>2. CASE cur = {}
  BY <1>2 DEF Flushed, CutTo
<1>3. CASE cur # {}
  <2> DEFINE p == [on |-> cur, head |-> head, block |-> block]
             ps == Append(paras, p)
             l == Len(paras)
  <2>1. ParaIs(f, p) /\ p.on = cur
    BY <1>3, WholeIs
  <2>2. Flushed = ps
    BY <1>3 DEF Flushed
  <2>3. PICK S : paras \in Seq(S)
    BY DEF CutTo
  <2> HIDE DEF p
  <2>4. /\ ps \in Seq(S \cup {p}) /\ l \in Nat /\ DOMAIN paras = 1..l /\ DOMAIN ps = 1..(l + 1)
        /\ \A i \in 1..l : ps[i] = paras[i]
        /\ ps[l + 1] = p
    BY <2>3, LenProperties
  <2> HIDE DEF ps, l
  <2>5. \A i \in DOMAIN ps : (i \in 1..l /\ ps[i] = paras[i]) \/ (i = l + 1 /\ ps[i] = p)
    BY <2>4
  <2>6. \A i \in DOMAIN ps : ParaIs(f, ps[i]) /\ \A k \in ps[i].on : k <= n /\ k \notin {}
    <3>1. \A k \in cur : k <= n
      BY <1>1 DEF Begun
    <3> QED
      BY <2>1, <2>4, <2>5, <3>1 DEF CutTo
  <2>7. \A k \in 1..n : ~Parts(f, k) => k \in {} \/ \E i \in DOMAIN ps : k \in ps[i].on
    <3> TAKE k \in 1..n
    <3>1. CASE k \in cur
      <4>1. l + 1 \in DOMAIN ps
        BY <2>4
      <4> QED
        BY <2>1, <2>4, <3>1, <4>1
    <3>2. CASE k \notin cur /\ ~Parts(f, k)
      <4>1. PICK i \in DOMAIN paras : k \in paras[i].on
        BY <3>2 DEF CutTo
      <4>2. i \in DOMAIN ps /\ ps[i] = paras[i]
        BY <2>4
      <4> QED
        BY <4>1, <4>2
    <3> QED
      BY <3>1, <3>2
  <2>8. ASSUME NEW i \in 1..l, NEW k \in paras[i].on, NEW m \in cur PROVE k < m
    <3>1. ParaIs(f, paras[i]) /\ k <= n /\ k \notin cur
      BY <2>4 DEF CutTo
    <3>2. k \in 1..n /\ k \in Nat /\ m \in Nat /\ m <= n /\ Together(f, m, n)
      BY <1>1, <3>1 DEF ParaIs, Begun
    <3>3. CASE m <= k
      <4>1. Together(f, k, n)
        BY <1>1, <3>1, <3>2, <3>3, TogetherIs
      <4> QED
        BY <3>1, <3>2, <4>1 DEF Begun
    <3> QED
      BY <3>2, <3>3
  <2>9. \A i, j \in DOMAIN ps : i < j => \A k \in ps[i].on : \A m \in ps[j].on : k < m
    <3> SUFFICES ASSUME NEW i \in DOMAIN ps, NEW j \in DOMAIN ps, i < j, NEW k \in ps[i].on, NEW m \in ps[j].on
                 PROVE  k < m
      OBVIOUS
    <3>1. i \in 1..l /\ ps[i] = paras[i]
      BY <2>4, <2>5
    <3>2. CASE j \in 1..l /\ ps[j] = paras[j]
      BY <2>4, <3>1, <3>2 DEF CutTo
    <3>3. CASE j = l + 1 /\ ps[j] = p
      BY <2>1, <2>8, <3>1, <3>3
    <3> QED
      BY <2>5, <3>2, <3>3
  <2> QED
    BY <2>2, <2>4, <2>6, <2>7, <2>9 DEF CutTo
<1> QED
  BY <1>2, <1>3

\* What the lines cut are: parting where the reference has it, and else the file's own.
LEMMA LineIs ==
  ASSUME NEW f, AFile(f), File = f, lines = Prose(f), NEW k \in 1..Len(lines)
  PROVE  /\ Blank(lines[k]) <=> Parts(f, k)
         /\ ~Parts(f, k) => /\ lines[k] = f.lines[k]
                            /\ Starts(lines[k]) <=> Heads(f, k) \/ f.lines[k].form = "item"
<1>1. lines[k] = (IF Fenced(f, k) THEN BlankLine ELSE f.lines[k]) /\ ~Recorded(f, k)
  BY ProseIs
<1>2. CASE Fenced(f, k)
  <2>1. lines[k].form = "blank"
    BY <1>1, <1>2 DEF BlankLine
  <2> QED
    BY <1>2, <2>1 DEF Blank, Parts
<1>3. CASE ~Fenced(f, k)
  <2>1. lines[k] = f.lines[k]
    BY <1>1, <1>3
  <2>2. Blank(lines[k]) <=> Parts(f, k)
    BY <1>1, <1>3, <2>1 DEF Blank, Parts
  <2>3. ~Parts(f, k) => (Starts(lines[k]) <=> Heads(f, k) \/ f.lines[k].form = "item")
    BY <2>1 DEF Starts, Heads
  <2> QED
    BY <2>1, <2>2, <2>3
<1> QED
  BY <1>2, <1>3

\* Each step of the cutting keeps the paragraph begun and those cut as the reference has them.
LEMMA CutStep ==
  ASSUME NEW f, AFile(f), File = f, lines = Prose(f), NEW n \in 0..Len(lines), n = at,
         Begun(f, n), CutTo(f, paras, cur, n), EndBlock \/ StartParagraph \/ GoOn
  PROVE  at' = n + 1 /\ at' \in 0..Len(lines) /\ Begun(f, n + 1)' /\ CutTo(f, paras', cur', n + 1)
<1>1. /\ Len(f.lines) \in Nat /\ DOMAIN f.lines = 1..Len(f.lines)
      /\ Len(lines) \in 0..Len(f.lines)
  BY SequenceIs, ProseIs DEF AFile
<1>2. /\ n \in Nat /\ n + 1 \in 1..Len(lines) /\ n \in 0..Len(f.lines) /\ n + 1 \in 1..Len(f.lines)
      /\ at' = n + 1 /\ at' \in 0..Len(lines)
  <2>1. n < Len(lines) /\ at' = n + 1
    BY DEF EndBlock, StartParagraph, GoOn, CutOn
  <2> QED
    BY <1>1, <2>1
<1>3. /\ Line = lines[n + 1]
      /\ Blank(Line) <=> Parts(f, n + 1)
      /\ ~Parts(f, n + 1) => /\ lines[n + 1] = f.lines[n + 1]
                             /\ Starts(Line) <=> Heads(f, n + 1) \/ f.lines[n + 1].form = "item"
  BY <1>2, LineIs DEF Line
<1>4. \A a, b, c \in Nat : a <= b /\ b <= c => (Together(f, a, c) <=> Together(f, a, b) /\ Together(f, b, c))
  BY TogetherIs
<1>5. \A k : k \in 1..(n + 1) <=> k \in 1..n \/ k = n + 1
  BY <1>2
<1>6. \A k \in 1..n : k \in Nat /\ k <= n /\ n <= n + 1 /\ (Together(f, k, n + 1) <=> Together(f, k, n) /\ Together(f, n, n + 1))
  BY <1>2, <1>4
<1>7. Together(f, n, n + 1) <=> ~Parts(f, n) /\ ~Parts(f, n + 1) /\ ~Heads(f, n + 1) /\ f.lines[n + 1].form # "item"
  BY <1>2, TogetherIs
<1>8. Together(f, n + 1, n + 1) <=> ~Parts(f, n + 1)
  <2>1. n + 1 \in Nat
    BY <1>2
  <2> DEFINE m == n + 1
  <2> HIDE DEF m
  <2>2. m \in Nat => (Together(f, m, m) <=> ~Parts(f, m))
    BY TogetherIs
  <2> QED
    BY <2>1, <2>2 DEF m
<1>9. /\ PartsTo(f, n + 1) = IF Parts(f, n + 1) THEN PartsTo(f, n) + 1 ELSE PartsTo(f, n)
      /\ Under(f, n + 1) = IF ~Heads(f, n + 1) THEN Under(f, n)
                           ELSE IF f.lines[n + 1].form = "title" THEN {f.lines[n + 1]} ELSE {}
  BY <1>2, PartsNext, UnderNext
<1>10. CASE EndBlock
  <2>1. Parts(f, n + 1) /\ ~Heads(f, n + 1) /\ cur' = {} /\ block' = block + 1 /\ head' = head /\ paras' = Flushed
    <3>1. Blank(Line) /\ cur' = {} /\ block' = block + 1 /\ head' = head /\ paras' = Flushed
      BY <1>10 DEF EndBlock
    <3>2. Parts(f, n + 1)
      BY <1>3, <3>1
    <3>3. ~Heads(f, n + 1)
      BY <3>2 DEF Heads
    <3> QED
      BY <3>1, <3>2, <3>3
  <2>2. Begun(f, n + 1)'
    <3>1. head' = Under(f, n + 1) /\ block' = PartsTo(f, n + 1)
      BY <1>9, <2>1 DEF Begun
    <3>2. \A k \in 1..(n + 1) : ~Together(f, k, n + 1)
      BY <1>5, <1>6, <1>7, <1>8, <2>1
    <3> QED
      BY <2>1, <3>1, <3>2 DEF Begun
  <2>3. CutTo(f, Flushed, {}, n)
    BY <1>2, <2>1, FlushedIs
  <2>4. CutTo(f, Flushed, {}, n + 1)
    <3>1. \A i \in DOMAIN Flushed : \A k \in Flushed[i].on : k <= n + 1
      <4>1. \A i \in DOMAIN Flushed : \A k \in Flushed[i].on : k <= n /\ k \in DOMAIN f.lines
        BY <2>3 DEF CutTo, ParaIs
      <4> QED
        BY <1>1, <1>2, <4>1
    <3>2. \A k \in 1..(n + 1) : ~Parts(f, k) => k \in 1..n
      BY <1>5, <2>1
    <3> QED
      BY <2>3, <3>1, <3>2 DEF CutTo
  <2> QED
    BY <1>2, <2>1, <2>2, <2>4
<1>11. CASE StartParagraph
  <2>1. /\ ~Parts(f, n + 1)
        /\ Heads(f, n + 1) \/ f.lines[n + 1].form = "item"
        /\ lines[n + 1] = f.lines[n + 1]
        /\ cur' = {n + 1} /\ block' = block /\ head' = HeadNext /\ paras' = Flushed
    <3>1. at + 1 = n + 1
      OBVIOUS
    <3> QED
      BY <1>3, <1>11, <3>1 DEF StartParagraph
  <2>2. Begun(f, n + 1)'
    <3>1. block' = PartsTo(f, n + 1)
      <4>1. block = PartsTo(f, n)
        BY DEF Begun
      <4> QED
        BY <1>9, <2>1, <4>1
    <3>2. HeadNext = Under(f, n + 1)
      <4>1. head = Under(f, n)
        BY DEF Begun
      <4>2. Line = f.lines[n + 1] /\ File.md = f.md
        <5>1. File.md = f.md
          OBVIOUS
        <5> QED
          BY <1>3, <2>1, <5>1
      <4>3. Heads(f, n + 1) <=> f.md /\ f.lines[n + 1].form \in {"title", "part", "record"}
        BY <2>1 DEF Heads
      <4>4. CASE f.md /\ f.lines[n + 1].form = "title"
        BY <1>9, <4>2, <4>3, <4>4 DEF HeadNext
      <4>5. CASE f.md /\ f.lines[n + 1].form \in {"part", "record"}
        <5>1. f.lines[n + 1].form # "title"
          BY <4>5
        <5> QED
          BY <1>9, <4>2, <4>3, <4>5, <5>1 DEF HeadNext
      <4>6. CASE ~(f.md /\ f.lines[n + 1].form \in {"title", "part", "record"})
        <5>1. ~(f.md /\ f.lines[n + 1].form = "title") /\ ~(f.md /\ f.lines[n + 1].form \in {"part", "record"})
          BY <4>6
        <5> QED
          BY <1>9, <4>1, <4>2, <4>3, <4>6, <5>1 DEF HeadNext
      <4> QED
        BY <4>4, <4>5, <4>6
    <3>3. \A k \in 1..(n + 1) : Together(f, k, n + 1) <=> k = n + 1
      <4>1. \A k \in 1..n : ~Together(f, k, n + 1)
        BY <1>6, <1>7, <2>1
      <4>2. Together(f, n + 1, n + 1) /\ n + 1 \notin 1..n
        BY <1>2, <1>8, <2>1
      <4> QED
        BY <1>5, <4>1, <4>2
    <3>4. n + 1 \in 1..(n + 1)
      BY <1>5
    <3> QED
      BY <2>1, <3>1, <3>2, <3>3, <3>4 DEF Begun
  <2>3. CutTo(f, Flushed, {}, n)
    BY <1>2, <2>1, FlushedIs
  <2>4. CutTo(f, Flushed, {n + 1}, n + 1)
    <3>1. \A i \in DOMAIN Flushed : \A k \in Flushed[i].on : k <= n + 1 /\ k \notin {n + 1}
      <4>1. \A i \in DOMAIN Flushed : \A k \in Flushed[i].on : k <= n /\ k \in DOMAIN f.lines
        BY <2>3 DEF CutTo, ParaIs
      <4> QED
        BY <1>1, <1>2, <4>1
    <3>2. \A k \in 1..(n + 1) : k \in 1..n \/ k \in {n + 1}
      BY <1>5
    <3> QED
      BY <2>3, <3>1, <3>2 DEF CutTo
  <2> QED
    BY <1>2, <2>1, <2>2, <2>4
<1>12. CASE GoOn
  <2>1. /\ ~Parts(f, n + 1) /\ ~Heads(f, n + 1) /\ f.lines[n + 1].form # "item"
        /\ cur' = cur \cup {n + 1} /\ block' = block /\ head' = head /\ paras' = paras
    <3>1. at + 1 = n + 1
      OBVIOUS
    <3> QED
      BY <1>3, <1>12, <3>1 DEF GoOn
  <2>2. \A k \in 1..n : Together(f, k, n + 1) <=> Together(f, k, n)
    <3>1. \A k \in 1..n : Together(f, k, n) => ~Parts(f, n)
      BY <1>2, <1>6, TogetherIs
    <3> QED
      BY <1>6, <1>7, <2>1, <3>1
  <2>3. Begun(f, n + 1)'
    <3>1. block' = PartsTo(f, n + 1) /\ head' = Under(f, n + 1)
      BY <1>9, <2>1 DEF Begun
    <3>2. \A k : k \in cur' <=> k \in cur \/ k = n + 1
      BY <2>1
    <3>3. (\A k \in cur : k \in 1..n /\ Together(f, k, n)) /\ \A k \in 1..n : Together(f, k, n) => k \in cur
      BY DEF Begun
    <3>4. \A k \in cur' : k \in 1..(n + 1) /\ Together(f, k, n + 1)
      BY <1>5, <1>8, <2>1, <2>2, <3>2, <3>3
    <3>5. \A k \in 1..(n + 1) : Together(f, k, n + 1) => k \in cur'
      BY <1>5, <2>2, <3>2, <3>3
    <3> QED
      BY <3>1, <3>4, <3>5 DEF Begun
  <2>4. CutTo(f, paras, cur', n + 1)
    <3>1. \A i \in DOMAIN paras : \A k \in paras[i].on : k <= n + 1 /\ k \notin cur'
      <4>1. \A i \in DOMAIN paras : \A k \in paras[i].on : k <= n /\ k \in DOMAIN f.lines /\ k \notin cur
        BY DEF CutTo, ParaIs
      <4> QED
        BY <1>1, <1>2, <2>1, <4>1
    <3>2. \A k \in 1..(n + 1) : k \in 1..n \/ k \in cur'
      BY <1>5, <2>1
    <3>3. \A k \in cur : k \in cur'
      BY <2>1
    <3> QED
      BY <3>1, <3>2, <3>3 DEF CutTo
  <2> QED
    BY <1>2, <2>1, <2>3, <2>4
<1> QED
  BY <1>10, <1>11, <1>12

-----------------------------------------------------------------------------
(* The sentences of a paragraph. *)

\* The lines that part no paragraph are the file's own.
Agrees(f) == \A k \in DOMAIN f.lines : ~Parts(f, k) => lines[k] = f.lines[k]

\* The lines of one paragraph.
OnIs(f, on) ==
  /\ on # {} /\ on \subseteq DOMAIN f.lines
  /\ \A k \in on : \A j \in DOMAIN f.lines : j \in on <=> Joint(f, j, k)

\* Of a paragraph's lines: each is the file's own, those between two are in it, and which end a sentence.
LEMMA OnFacts ==
  ASSUME NEW f, AFile(f), Agrees(f), NEW on, OnIs(f, on)
  PROVE  /\ \A k \in on : k \in Nat /\ k \in DOMAIN f.lines /\ ~Parts(f, k) /\ lines[k] = f.lines[k]
         /\ \A i, k \in on : Joint(f, i, k) /\ \A m \in i..k : m \in on
         /\ \A e : e \in SentenceEnds(on) <=> e \in on /\ (~RunsOn(f, e) \/ \A k \in on : k <= e)
<1>1. Len(f.lines) \in Nat /\ DOMAIN f.lines = 1..Len(f.lines)
  BY SequenceIs DEF AFile
<1>2. \A k \in on : k \in Nat /\ k \in DOMAIN f.lines /\ Joint(f, k, k)
  BY <1>1 DEF OnIs
<1>3. \A k \in on : k \in Nat /\ k \in DOMAIN f.lines /\ ~Parts(f, k) /\ lines[k] = f.lines[k]
  <2>1. \A k \in Nat : Joint(f, k, k) => ~Parts(f, k)
    BY JointIs
  <2> QED
    BY <1>2, <2>1 DEF Agrees
<1>4. \A i, k \in on : Joint(f, i, k)
  BY <1>2 DEF OnIs
<1>5. ASSUME NEW i \in on, NEW k \in on, NEW m \in i..k PROVE m \in on
  <2>1. i \in Nat /\ k \in Nat /\ m \in Nat /\ i <= m /\ m <= k /\ m \in DOMAIN f.lines
    BY <1>1, <1>2
  <2>2. Joint(f, m, k)
    BY <1>4, <2>1, JointIs
  <2> QED
    BY <2>1, <2>2 DEF OnIs
<1>6. \A e : e \in SentenceEnds(on) <=> e \in on /\ (~RunsOn(f, e) \/ \A k \in on : k <= e)
  BY <1>3 DEF SentenceEnds, RunsOn
<1> QED
  BY <1>3, <1>4, <1>5, <1>6

\* A sentence is all the lines that are of one with any of its lines.
LEMMA SentenceIs ==
  ASSUME NEW f, AFile(f), Agrees(f), NEW on, OnIs(f, on), NEW e \in SentenceEnds(on)
  PROVE  /\ e \in SentenceTo(on, e) /\ SentenceTo(on, e) \subseteq on
         /\ \A k \in SentenceTo(on, e) : \A j \in DOMAIN f.lines : j \in SentenceTo(on, e) <=> OneSentence(f, j, k)
<1> DEFINE s == SentenceTo(on, e)
<1>1. \A k : k \in s <=> k \in on /\ k <= e /\ \A d \in SentenceEnds(on) : d < k \/ e <= d
  BY DEF SentenceTo
<1>2. /\ \A k \in on : k \in Nat /\ k \in DOMAIN f.lines
      /\ \A i, k \in on : Joint(f, i, k) /\ \A m \in i..k : m \in on
      /\ \A d : d \in SentenceEnds(on) <=> d \in on /\ (~RunsOn(f, d) \/ \A k \in on : k <= d)
  BY OnFacts
<1> HIDE DEF s
<1>3. e \in s /\ s \subseteq on
  <2>1. e \in on /\ e \in Nat /\ e <= e
    BY <1>2
  <2>2. \A d \in SentenceEnds(on) : d < e \/ e <= d
    BY <1>2, <2>1
  <2> QED
    BY <1>1, <2>1, <2>2
<1>4. ASSUME NEW j \in s, NEW k \in s, j <= k PROVE OneSentence(f, j, k)
  <2>1. j \in Nat /\ k \in Nat /\ e \in Nat /\ k <= e /\ j \in on /\ k \in on /\ Joint(f, j, k)
    BY <1>1, <1>2, <1>3
  <2>2. ASSUME NEW m \in j..(k - 1) PROVE RunsOn(f, m)
    <3>1. m \in on /\ m \in Nat /\ j <= m /\ m < e
      <4>1. m \in j..k
        BY <2>1
      <4> QED
        BY <1>2, <2>1, <4>1
    <3>2. m \notin SentenceEnds(on)
      BY <1>1, <2>1, <3>1
    <3> QED
      BY <1>2, <3>1, <3>2
  <2> QED
    BY <1>4, <2>1, <2>2, OneSentenceIs
<1>5. ASSUME NEW k \in s, NEW j \in DOMAIN f.lines, OneSentence(f, j, k) PROVE j \in s
  <2>1. j \in Nat /\ k \in Nat /\ e \in Nat /\ k <= e /\ k \in on
    <3>1. Len(f.lines) \in Nat /\ DOMAIN f.lines = 1..Len(f.lines)
      BY SequenceIs DEF AFile
    <3> QED
      BY <1>1, <1>2, <1>3, <3>1
  <2>2. Joint(f, j, k) /\ j \in on
    <3>1. Joint(f, j, k)
      BY <1>5, <2>1, OneSentenceIs
    <3> QED
      BY <2>1, <3>1 DEF OnIs
  <2>3. CASE j <= k
    <3>1. \A m \in j..(k - 1) : RunsOn(f, m)
      BY <1>5, <2>1, <2>3, OneSentenceIs
    <3>2. ASSUME NEW d \in SentenceEnds(on) PROVE d < j \/ e <= d
      <4>1. d \in Nat /\ (~RunsOn(f, d) \/ k <= d) /\ (d < k \/ e <= d)
        BY <1>1, <1>2, <2>1
      <4>2. CASE j <= d /\ d < k
        <5>1. d \in j..(k - 1)
          BY <2>1, <4>1, <4>2
        <5> QED
          BY <2>1, <3>1, <4>1, <4>2, <5>1
      <4> QED
        BY <2>1, <4>1, <4>2
    <3> QED
      BY <1>1, <2>1, <2>2, <2>3, <3>2
  <2>4. CASE k < j
    <3>1. \A m \in k..(j - 1) : RunsOn(f, m)
      <4>1. OneSentence(f, k, j) /\ k <= j
        BY <1>5, <2>1, <2>4, OneSentenceIs
      <4> QED
        BY <2>1, <4>1, OneSentenceIs
    <3>2. j <= e
      <4>1. CASE e < j
        <5>1. e \in k..(j - 1)
          BY <2>1, <4>1
        <5>2. ~RunsOn(f, e) \/ j <= e
          BY <1>2, <2>2
        <5> QED
          BY <2>1, <3>1, <4>1, <5>1, <5>2
      <4> QED
        BY <2>1, <4>1
    <3>3. \A d \in SentenceEnds(on) : d < j \/ e <= d
      <4>1. \A d \in SentenceEnds(on) : d \in Nat /\ (d < k \/ e <= d)
        BY <1>1, <1>2
      <4> QED
        BY <2>1, <2>4, <4>1
    <3> QED
      BY <1>1, <2>2, <3>2, <3>3
  <2> QED
    BY <2>1, <2>3, <2>4
<1>6. ASSUME NEW k \in s, NEW j \in s PROVE OneSentence(f, j, k)
  <2>1. j \in Nat /\ k \in Nat
    BY <1>2, <1>3
  <2> QED
    BY <1>4, <2>1, OneSentenceIs
<1> QED
  BY <1>3, <1>5, <1>6 DEF s

\* Every line of a paragraph is in a sentence of it.
LEMMA SentenceOf ==
  ASSUME NEW f, AFile(f), Agrees(f), NEW on, OnIs(f, on), NEW k \in on
  PROVE  \E e \in SentenceEnds(on) : k \in SentenceTo(on, e)
<1>1. /\ \A i \in on : i \in Nat /\ i \in DOMAIN f.lines
      /\ \A d : d \in SentenceEnds(on) <=> d \in on /\ (~RunsOn(f, d) \/ \A i \in on : i <= d)
  BY OnFacts
<1>2. PICK g \in on : \A i \in on : i <= g
  <2>1. Len(f.lines) \in Nat /\ DOMAIN f.lines = 1..Len(f.lines)
    BY SequenceIs DEF AFile
  <2>2. \A i \in on : i \in 0..Len(f.lines)
    BY <1>1, <2>1
  <2> QED
    BY <2>1, <2>2, GreatestNat
<1> DEFINE D == {d \in SentenceEnds(on) : k <= d}
<1>3. g \in D
  BY <1>1, <1>2
<1>4. PICK e \in D : \A d \in D : e <= d
  <2>1. D \subseteq Nat
    BY <1>1
  <2> HIDE DEF D
  <2> QED
    BY <1>3, <2>1, LeastNat
<1>5. e \in SentenceEnds(on) /\ k <= e /\ k \in Nat /\ e \in Nat
  BY <1>1, <1>4
<1>6. \A d \in SentenceEnds(on) : d < k \/ e <= d
  <2>1. \A d \in SentenceEnds(on) : d \in Nat /\ (k <= d => d \in D)
    BY <1>1
  <2> QED
    BY <1>4, <1>5, <2>1
<1> QED
  BY <1>5, <1>6 DEF SentenceTo

\* The sentence before is the lines one sentence's end above.
LEMMA BeforeIs ==
  ASSUME NEW f, AFile(f), Agrees(f), NEW on, OnIs(f, on), NEW e \in SentenceEnds(on),
         NEW k \in SentenceTo(on, e), NEW j \in DOMAIN f.lines
  PROVE  j \in Before(SentenceTo(on, e), on) <=> j < k /\ Together(f, j, k) /\ Ends(f, j, k) = 1
<1> DEFINE s == SentenceTo(on, e)
<1>1. /\ \A i \in on : i \in Nat /\ i \in DOMAIN f.lines
      /\ \A a, i \in on : Joint(f, a, i) /\ \A m \in a..i : m \in on
  BY OnFacts
<1>2. s \subseteq on /\ \A i \in s : \A m \in DOMAIN f.lines : m \in s <=> OneSentence(f, m, i)
  BY SentenceIs
<1>3. \A d \in SentenceEnds(on) : \A i \in SentenceTo(on, d) : i \in on /\ \A m \in DOMAIN f.lines : m \in SentenceTo(on, d) <=> OneSentence(f, m, i)
  <2> TAKE d \in SentenceEnds(on)
  <2> QED
    BY SentenceIs
<1>4. j \in Before(s, on) <=> \E d \in SentenceEnds(on) : j \in SentenceTo(on, d) /\ \E a \in SentenceTo(on, d) : a \notin s /\ a + 1 \in s
  BY DEF Before, Sentences
<1>5. k \in s /\ k \in on /\ k \in Nat
  BY <1>1, <1>2
<1> HIDE DEF s
<1>6. \A a, b \in Nat : a <= b => (OneSentence(f, a, b) <=> Joint(f, a, b) /\ \A m \in a..(b - 1) : RunsOn(f, m))
  BY OneSentenceIs
<1>7. ASSUME j \in Before(s, on) PROVE j < k /\ Together(f, j, k) /\ Ends(f, j, k) = 1
  <2>1. PICK d \in SentenceEnds(on) : j \in SentenceTo(on, d) /\ \E a \in SentenceTo(on, d) : a \notin s /\ a + 1 \in s
    BY <1>4, <1>7
  <2>2. PICK a \in SentenceTo(on, d) : a \notin s /\ a + 1 \in s
    BY <2>1
  <2>3. j \in on /\ a \in on /\ a + 1 \in on /\ j \in Nat /\ a \in Nat /\ OneSentence(f, j, a) /\ OneSentence(f, a, j)
    BY <1>1, <1>2, <1>3, <2>1, <2>2
  <2>4. OneSentence(f, k, a + 1) /\ OneSentence(f, a + 1, k) /\ ~OneSentence(f, a, a + 1)
    BY <1>1, <1>2, <1>5, <2>2, <2>3
  <2>5. ~RunsOn(f, a)
    <3>1. \A m \in a..((a + 1) - 1) : m = a
      BY <2>3
    <3>2. a <= a + 1 /\ a + 1 \in Nat /\ Joint(f, a, a + 1)
      BY <1>1, <2>3
    <3> QED
      BY <1>6, <2>3, <2>4, <3>1, <3>2
  <2>6. j <= a
    <3>1. CASE a < j
      <4>1. a <= j /\ a \in a..(j - 1)
        BY <2>3, <3>1
      <4> QED
        BY <1>6, <2>3, <2>5, <4>1
    <3> QED
      BY <2>3, <3>1
  <2>7. a < k
    <3>1. CASE k <= a
      <4>1. k <= a + 1 /\ a \in k..((a + 1) - 1) /\ a + 1 \in Nat
        BY <1>5, <2>3, <3>1
      <4> QED
        BY <1>5, <1>6, <2>4, <2>5, <4>1
    <3> QED
      BY <1>5, <2>3, <3>1
  <2>8. j < k /\ a + 1 <= k /\ a + 1 \in Nat /\ a \in j..(k - 1)
    BY <1>5, <2>3, <2>6, <2>7
  <2>9. \A m \in j..(k - 1) : m # a => RunsOn(f, m)
    <3>1. (\A m \in j..(a - 1) : RunsOn(f, m)) /\ \A m \in (a + 1)..(k - 1) : RunsOn(f, m)
      BY <1>5, <1>6, <2>3, <2>4, <2>6, <2>8
    <3>2. \A m \in j..(k - 1) : m # a => m \in j..(a - 1) \/ m \in (a + 1)..(k - 1)
      BY <1>5, <2>3
    <3> QED
      BY <3>1, <3>2
  <2>10. Ends(f, j, k) = 1
    BY <1>5, <2>3, <2>5, <2>8, <2>9, EndsIs
  <2>11. Joint(f, j, k) /\ j <= k
    BY <1>1, <1>5, <2>3, <2>8
  <2> QED
    BY <2>8, <2>10, <2>11 DEF Joint
<1>8. ASSUME j < k, Together(f, j, k), Ends(f, j, k) = 1 PROVE j \in Before(s, on)
  <2>1. j \in Nat /\ j <= k
    <3>1. Len(f.lines) \in Nat /\ DOMAIN f.lines = 1..Len(f.lines)
      BY SequenceIs DEF AFile
    <3> QED
      BY <1>5, <1>8, <3>1
  <2>2. j \in on
    BY <1>5, <1>8, <2>1 DEF OnIs, Joint
  <2>3. PICK a \in j..(k - 1) : ~RunsOn(f, a) /\ \A m \in j..(k - 1) : m # a => RunsOn(f, m)
    BY <1>5, <1>8, <2>1, EndsIs
  <2>4. a \in Nat /\ a + 1 \in Nat /\ j <= a /\ a + 1 <= k /\ a \in on /\ a + 1 \in on
    <3>1. a \in Nat /\ a + 1 \in Nat /\ j <= a /\ a + 1 <= k /\ a \in j..k /\ a + 1 \in j..k
      BY <1>5, <2>1, <2>3
    <3> QED
      BY <1>1, <1>5, <2>2, <3>1
  <2>5. OneSentence(f, a + 1, k)
    <3>1. \A m \in (a + 1)..(k - 1) : m \in j..(k - 1) /\ m # a
      BY <1>5, <2>1, <2>4
    <3> QED
      BY <1>1, <1>5, <1>6, <2>3, <2>4, <3>1
  <2>6. OneSentence(f, j, a)
    <3>1. \A m \in j..(a - 1) : m \in j..(k - 1) /\ m # a
      BY <1>5, <2>1, <2>4
    <3> QED
      BY <1>1, <1>6, <2>1, <2>2, <2>3, <2>4, <3>1
  <2>7. ~OneSentence(f, a, k)
    <3>1. a <= k /\ a \in a..(k - 1)
      BY <1>5, <2>3, <2>4
    <3> QED
      BY <1>5, <1>6, <2>3, <2>4, <3>1
  <2>8. a + 1 \in s /\ a \notin s
    BY <1>1, <1>2, <1>5, <2>4, <2>5, <2>7
  <2>9. PICK d \in SentenceEnds(on) : a \in SentenceTo(on, d)
    BY <2>4, SentenceOf
  <2>10. j \in SentenceTo(on, d)
    BY <1>3, <2>6, <2>9
  <2> QED
    BY <1>4, <2>8, <2>9, <2>10
<1> QED
  BY <1>7, <1>8 DEF s

-----------------------------------------------------------------------------
(* The candidates of a file. *)

\* What is said on lines of a paragraph, and the least of a set of them.
LEMMA SaidIs ==
  ASSUME NEW f, AFile(f), Agrees(f), NEW on, OnIs(f, on), NEW s, s \subseteq on
  PROVE  /\ \A w : w \in SaidOn(s) <=> \E k \in s : SaysAt(f, k, w)
         /\ \A w : \A k \in s : w \in lines[k].says <=> SaysAt(f, k, w)
<1>1. \A k \in s : lines[k] = f.lines[k]
  BY OnFacts
<1> QED
  BY <1>1 DEF SaidOn, SaysAt

\* A set of natural numbers that is not empty holds its least.
LEMMA MinIs ==
  ASSUME NEW T, T \subseteq Nat, T # {}
  PROVE  Min(T) \in T /\ \A y \in T : Min(T) <= y
<1>1. PICK x \in T : \A y \in T : x <= y
  BY LeastNat
<1> QED
  BY <1>1 DEF Min

\* A sentence makes a claim when the reference has one on a line of it, and on that line.
LEMMA ClaimIs ==
  ASSUME NEW f, AFile(f), Agrees(f), NEW on, OnIs(f, on), NEW e \in SentenceEnds(on), NEW r
  PROVE  /\ IsClaim(SentenceTo(on, e), on, r) =>
              /\ ClaimLine(SentenceTo(on, e), r) \in SentenceTo(on, e)
              /\ ClaimAt(f, r, ClaimLine(SentenceTo(on, e), r))
         /\ \A k \in SentenceTo(on, e) : ClaimAt(f, r, k) =>
              IsClaim(SentenceTo(on, e), on, r) /\ ClaimLine(SentenceTo(on, e), r) = k
<1> DEFINE s == SentenceTo(on, e)
           T == {k \in s : <<"claim", r>> \in lines[k].says}
<1>1. \A k \in on : k \in Nat /\ k \in DOMAIN f.lines
  BY OnFacts
<1>2. s \subseteq on /\ \A i \in s : \A m \in DOMAIN f.lines : m \in s <=> OneSentence(f, m, i)
  BY SentenceIs
<1>3. \A k \in s : \A j \in DOMAIN f.lines : j \in Before(s, on) <=> j < k /\ Together(f, j, k) /\ Ends(f, j, k) = 1
  <2> TAKE k \in s
  <2> QED
    BY BeforeIs
<1>4. Before(s, on) \subseteq on
  BY DEF Before, Sentences, SentenceTo, SentenceEnds
<1>5. ClaimLine(s, r) = Min(T)
  BY DEF ClaimLine
<1>6. DOMAIN f.lines = 1..Len(f.lines) /\ Len(f.lines) \in Nat
  BY SequenceIs DEF AFile
<1> HIDE DEF s
<1>7. /\ \A w : w \in SaidOn(s) <=> \E k \in s : SaysAt(f, k, w)
      /\ \A w : \A k \in s : w \in lines[k].says <=> SaysAt(f, k, w)
  BY <1>2, SaidIs
<1>8. \A w : w \in SaidOn(Before(s, on)) <=> \E k \in Before(s, on) : SaysAt(f, k, w)
  BY <1>4, SaidIs
<1>9. \A k : k \in T <=> k \in s /\ SaysAt(f, k, <<"claim", r>>)
  BY <1>7
<1>10. IsClaim(s, on, r) <=> T # {} /\ \E j \in DOMAIN f.lines : SaysAt(f, j, <<"subject", r>>) /\ (j \in s \/ j \in Before(s, on))
  <2>1. T # {} <=> <<"claim", r>> \in SaidOn(s)
    BY <1>7, <1>9
  <2>2. <<"subject", r>> \in SaidOn(s) \cup SaidOn(Before(s, on))
          <=> \E j \in DOMAIN f.lines : SaysAt(f, j, <<"subject", r>>) /\ (j \in s \/ j \in Before(s, on))
    BY <1>1, <1>2, <1>4, <1>7, <1>8
  <2> QED
    BY <2>1, <2>2 DEF IsClaim
<1> HIDE DEF T
<1>11. T # {} => Min(T) \in T /\ \A y \in T : Min(T) <= y
  <2>1. T \subseteq Nat
    BY <1>1, <1>2, <1>9
  <2> QED
    BY <2>1, MinIs
<1>12. ASSUME NEW k \in s
       PROVE  \A j \in DOMAIN f.lines :
                (OneSentence(f, j, k) \/ (j < k /\ Together(f, j, k) /\ Ends(f, j, k) = 1)) <=> (j \in s \/ j \in Before(s, on))
  BY <1>2, <1>3
<1>13. ASSUME IsClaim(s, on, r) PROVE Min(T) \in s /\ ClaimAt(f, r, Min(T))
  <2> DEFINE k == Min(T)
  <2>1. k \in T /\ (\A y \in T : k <= y)
    BY <1>10, <1>11, <1>13
  <2> HIDE DEF k
  <2>2. k \in s /\ SaysAt(f, k, <<"claim", r>>) /\ k \in Nat /\ k \in DOMAIN f.lines
    BY <1>1, <1>2, <1>9, <2>1
  <2>3. \A j \in 1..(k - 1) : OneSentence(f, j, k) => ~SaysAt(f, j, <<"claim", r>>)
    <3> TAKE j \in 1..(k - 1)
    <3>1. j \in DOMAIN f.lines /\ j \in Nat /\ ~(k <= j)
      BY <1>6, <2>2
    <3> QED
      BY <1>2, <1>9, <2>1, <2>2, <3>1
  <2>4. \E j \in DOMAIN f.lines : /\ SaysAt(f, j, <<"subject", r>>)
                                  /\ OneSentence(f, j, k) \/ (j < k /\ Together(f, j, k) /\ Ends(f, j, k) = 1)
    BY <1>10, <1>12, <1>13, <2>2
  <2>5. ClaimAt(f, r, k)
    BY <2>2, <2>3, <2>4 DEF ClaimAt
  <2> QED
    BY <2>2, <2>5 DEF k
<1>14. ASSUME NEW k \in s, ClaimAt(f, r, k) PROVE IsClaim(s, on, r) /\ Min(T) = k
  <2>1. k \in T
    BY <1>9, <1>14 DEF ClaimAt
  <2>2. IsClaim(s, on, r)
    <3>1. \E j \in DOMAIN f.lines : /\ SaysAt(f, j, <<"subject", r>>)
                                    /\ OneSentence(f, j, k) \/ (j < k /\ Together(f, j, k) /\ Ends(f, j, k) = 1)
      BY <1>14 DEF ClaimAt
    <3> QED
      BY <1>10, <1>12, <2>1, <3>1
  <2> DEFINE m == Min(T)
  <2>3. m \in T /\ m <= k
    BY <1>11, <2>1
  <2> HIDE DEF m
  <2>4. m \in s /\ SaysAt(f, m, <<"claim", r>>) /\ m \in DOMAIN f.lines /\ m \in Nat /\ k \in Nat /\ k \in DOMAIN f.lines
    BY <1>1, <1>2, <1>9, <2>3
  <2>5. ASSUME m < k PROVE FALSE
    <3>1. m \in 1..(k - 1) /\ OneSentence(f, m, k)
      BY <1>2, <1>6, <2>4, <2>5
    <3> QED
      BY <1>14, <2>4, <3>1 DEF ClaimAt
  <2>6. m = k
    BY <2>3, <2>4, <2>5
  <2> QED
    BY <2>2, <2>6 DEF m
<1>15. IsClaim(s, on, r) => ClaimLine(s, r) \in s /\ ClaimAt(f, r, ClaimLine(s, r))
  BY <1>5, <1>13
<1>16. \A k \in s : ClaimAt(f, r, k) => IsClaim(s, on, r) /\ ClaimLine(s, r) = k
  BY <1>5, <1>14
<1> QED
  BY <1>15, <1>16 DEF s

\* The listed lines that hold a sentence are those the reference has for a line of it.
LEMMA HeldIs ==
  ASSUME NEW f, AFile(f), File = f, Agrees(f), NEW on, OnIs(f, on), NEW e \in SentenceEnds(on), NEW k \in SentenceTo(on, e),
         NEW r, NEW c, c.says = SaidOn(SentenceTo(on, e))
  PROVE  ListedFor(c, r) = Held(f, r, k)
<1> DEFINE s == SentenceTo(on, e)
<1>1. s \subseteq on /\ \A m \in DOMAIN f.lines : m \in s <=> OneSentence(f, m, k)
  BY SentenceIs
<1>2. \A w : w \in SaidOn(s) <=> \E m \in s : SaysAt(f, m, w)
  BY <1>1, SaidIs
<1>3. \A m \in s : m \in DOMAIN f.lines
  BY <1>1 DEF OnIs
<1>4. c.says = SaidOn(s)
  OBVIOUS
<1> HIDE DEF s
<1>5. \A w : w \in c.says <=> \E m \in DOMAIN f.lines : OneSentence(f, m, k) /\ SaysAt(f, m, w)
  BY <1>1, <1>2, <1>3, <1>4
<1>6. \A n : n \in ListedFor(c, r) <=> n \in Held(f, r, k)
  BY <1>5 DEF ListedFor, Held
<1> QED
  BY <1>6 DEF ListedFor, Held

\* Cut whole, a file's paragraphs have the reference's lines, headings and blocks.
LEMMA WholeFacts ==
  ASSUME NEW f, AFile(f), NEW ps, CutTo(f, ps, {}, Len(f.lines))
  PROVE  /\ Len(ps) \in Nat /\ DOMAIN ps = 1..Len(ps)
         /\ \A p : p \in ToSet(ps) <=> \E i \in DOMAIN ps : p = ps[i]
         /\ \A p \in ToSet(ps) : OnIs(f, p.on) /\ \A k \in p.on : p.head = Under(f, k) /\ p.block = PartsTo(f, k)
         /\ \A k \in DOMAIN f.lines : ~Parts(f, k) => \E i \in DOMAIN ps : k \in ps[i].on
<1>1. Len(ps) \in Nat /\ DOMAIN ps = 1..Len(ps)
  BY LenProperties DEF CutTo
<1>2. \A p : p \in ToSet(ps) <=> \E i \in DOMAIN ps : p = ps[i]
  BY DEF ToSet
<1>3. \A i \in DOMAIN ps : ParaIs(f, ps[i])
  BY DEF CutTo
<1>4. \A p \in ToSet(ps) : OnIs(f, p.on) /\ \A k \in p.on : p.head = Under(f, k) /\ p.block = PartsTo(f, k)
  BY <1>2, <1>3 DEF ParaIs, OnIs
<1>5. DOMAIN f.lines = 1..Len(f.lines)
  BY SequenceIs DEF AFile
<1> QED
  BY <1>1, <1>2, <1>4, <1>5 DEF CutTo

\* A dated note with its anchor stands on lines of a paragraph, or of a section, as the reference has it.
LEMMA NoteIs ==
  ASSUME NEW f, NEW on, NEW r, \A k \in on : lines[k] = f.lines[k]
  PROVE  CarriedByNote(on, r) <=> NoteOn(f, r, on)
BY DEF CarriedByNote, NoteOn, SaysAt

\* A paragraph opens its block, after line k's, when the line above it parts and is the first to since k.
LEMMA OpensIs ==
  ASSUME NEW f, AFile(f), NEW ps, CutTo(f, ps, {}, Len(f.lines)),
         NEW i \in DOMAIN ps, NEW q \in ps[i].on, \A m \in ps[i].on : q <= m,
         NEW k \in DOMAIN f.lines, ~Parts(f, k)
  PROVE  ((i = 1 \/ ps[i - 1].block # ps[i].block) /\ ps[i].block - 1 = PartsTo(f, k))
           <=> \E b \in (k + 1)..(Len(f.lines) - 1) : Parts(f, b) /\ (\A m \in k..(b - 1) : ~Parts(f, m)) /\ q = b + 1
<1>1. /\ Len(ps) \in Nat /\ DOMAIN ps = 1..Len(ps)
      /\ \A p : p \in ToSet(ps) <=> \E j \in DOMAIN ps : p = ps[j]
      /\ \A p \in ToSet(ps) : OnIs(f, p.on) /\ \A m \in p.on : p.head = Under(f, m) /\ p.block = PartsTo(f, m)
      /\ \A m \in DOMAIN f.lines : ~Parts(f, m) => \E j \in DOMAIN ps : m \in ps[j].on
  BY WholeFacts
<1>2. \A j \in DOMAIN ps : OnIs(f, ps[j].on) /\ \A m \in ps[j].on : ps[j].block = PartsTo(f, m)
  BY <1>1
<1>3. Len(f.lines) \in Nat /\ DOMAIN f.lines = 1..Len(f.lines)
  BY SequenceIs DEF AFile
<1>4. \A j \in DOMAIN ps : \A m \in ps[j].on : m \in DOMAIN f.lines /\ m \in Nat /\ m >= 1 /\ m <= Len(f.lines) /\ ~Parts(f, m)
  <2>1. \A m \in Nat : Joint(f, m, m) => ~Parts(f, m)
    BY JointIs
  <2> QED
    BY <1>2, <1>3, <2>1 DEF OnIs
<1>5. \A j, l \in DOMAIN ps : j < l => \A a \in ps[j].on : \A m \in ps[l].on : a < m
  BY DEF CutTo
<1>6. q \in Nat /\ q >= 1 /\ q <= Len(f.lines) /\ ~Parts(f, q) /\ ps[i].block = PartsTo(f, q) /\ k \in Nat /\ k >= 1 /\ k <= Len(f.lines)
  BY <1>2, <1>3, <1>4
<1>7. \A m \in Nat : PartsTo(f, m) \in Nat
  BY PartsNext
<1>8. \A a, c \in Nat : a <= c => /\ PartsTo(f, a) <= PartsTo(f, c)
                                  /\ PartsTo(f, c) = PartsTo(f, a) <=> \A m \in (a + 1)..c : ~Parts(f, m)
  BY PartsGrow
<1>9. \A m \in Nat : PartsTo(f, m + 1) = IF Parts(f, m + 1) THEN PartsTo(f, m) + 1 ELSE PartsTo(f, m)
  BY PartsNext
<1>10. ASSUME i = 1 \/ ps[i - 1].block # ps[i].block, ps[i].block - 1 = PartsTo(f, k)
       PROVE  \E b \in (k + 1)..(Len(f.lines) - 1) : Parts(f, b) /\ (\A m \in k..(b - 1) : ~Parts(f, m)) /\ q = b + 1
  <2> DEFINE b == q - 1
  <2>1. PartsTo(f, q) = PartsTo(f, k) + 1 /\ PartsTo(f, k) \in Nat
    BY <1>6, <1>7, <1>10
  <2>2. k < q
    <3>1. ~(q <= k)
      BY <1>6, <1>7, <1>8, <2>1
    <3> QED
      BY <1>6, <3>1
  <2>3. b \in Nat /\ b + 1 = q /\ k <= b /\ b >= 1 /\ b \in DOMAIN f.lines
    BY <1>3, <1>6, <2>2
  <2> HIDE DEF b
  <2>4. PartsTo(f, b) = PartsTo(f, q)
    BY <1>6, <1>9, <2>3
  <2>5. Parts(f, b)
    <3>1. ASSUME ~Parts(f, b) PROVE FALSE
      <4>1. PICK j \in DOMAIN ps : b \in ps[j].on
        BY <1>1, <2>3, <3>1
      <4>2. j \in Nat /\ i \in Nat /\ i >= 1 /\ i <= Len(ps) /\ j >= 1
        BY <1>1
      <4>3. j < i
        <5>1. j # i
          BY <2>3, <4>1
        <5>2. ~(i < j)
          BY <1>5, <2>3, <4>1
        <5> QED
          BY <4>2, <5>1, <5>2
      <4>4. i - 1 \in DOMAIN ps /\ i - 1 < i /\ i # 1
        BY <1>1, <4>2, <4>3
      <4>5. i - 1 = j
        <5>1. ASSUME j < i - 1 PROVE FALSE
          <6>1. PICK m : m \in ps[i - 1].on
            BY <1>2, <4>4 DEF OnIs
          <6>2. b < m /\ m < q /\ m \in Nat
            BY <1>4, <1>5, <4>1, <4>4, <5>1, <6>1
          <6> QED
            BY <2>3, <6>2
        <5> QED
          BY <4>2, <4>3, <5>1
      <4>6. ps[j].block = PartsTo(f, b)
        BY <1>2, <4>1
      <4> QED
        BY <1>6, <1>10, <2>4, <4>4, <4>5, <4>6
    <3> QED
      BY <3>1
  <2>6. b # k /\ b \in (k + 1)..(Len(f.lines) - 1)
    BY <1>6, <2>3, <2>5
  <2>7. \A m \in k..(b - 1) : ~Parts(f, m)
    <3> DEFINE c == b - 1
    <3>1. c \in Nat /\ c + 1 = b /\ k <= c
      BY <1>6, <2>3, <2>6
    <3> HIDE DEF c
    <3>2. PartsTo(f, c) = PartsTo(f, k)
      <4>1. PartsTo(f, b) = PartsTo(f, c) + 1 /\ PartsTo(f, c) \in Nat
        BY <1>7, <1>9, <2>5, <3>1
      <4> QED
        BY <2>1, <2>4, <4>1
    <3>3. \A m \in (k + 1)..c : ~Parts(f, m)
      BY <1>6, <1>8, <3>1, <3>2
    <3>4. \A m \in k..(b - 1) : m = k \/ m \in (k + 1)..c
      BY <1>6, <3>1, <2>3
    <3> QED
      BY <3>3, <3>4
  <2> QED
    BY <2>3, <2>5, <2>6, <2>7
<1>11. ASSUME NEW b \in (k + 1)..(Len(f.lines) - 1), Parts(f, b), \A m \in k..(b - 1) : ~Parts(f, m), q = b + 1
       PROVE  (i = 1 \/ ps[i - 1].block # ps[i].block) /\ ps[i].block - 1 = PartsTo(f, k)
  <2> DEFINE c == b - 1
  <2>1. c \in Nat /\ c + 1 = b /\ b \in Nat /\ b + 1 = q /\ k <= c
    BY <1>6, <1>11
  <2>2. \A m \in (k + 1)..c : ~Parts(f, m)
    BY <1>6, <1>11
  <2> HIDE DEF c
  <2>3. PartsTo(f, c) = PartsTo(f, k) /\ PartsTo(f, b) = PartsTo(f, c) + 1 /\ PartsTo(f, q) = PartsTo(f, b) /\ PartsTo(f, c) \in Nat
    BY <1>6, <1>7, <1>8, <1>9, <1>11, <2>1, <2>2
  <2>4. ASSUME i # 1 PROVE ps[i - 1].block # ps[i].block
    <3>1. i - 1 \in DOMAIN ps /\ i - 1 < i
      BY <1>1, <2>4
    <3>2. PICK m : m \in ps[i - 1].on
      BY <1>2, <3>1 DEF OnIs
    <3>3. m < q /\ m \in Nat /\ ~Parts(f, m) /\ ps[i - 1].block = PartsTo(f, m)
      BY <1>2, <1>4, <1>5, <3>1, <3>2
    <3>4. m # b /\ m <= c
      BY <1>11, <2>1, <3>3
    <3>5. PartsTo(f, m) <= PartsTo(f, c) /\ PartsTo(f, m) \in Nat
      BY <1>7, <1>8, <2>1, <3>3, <3>4
    <3> QED
      BY <1>6, <2>3, <3>3, <3>5
  <2>5. ps[i].block - 1 = PartsTo(f, k)
    BY <1>6, <2>3
  <2> QED
    BY <2>4, <2>5
<1> QED
  BY <1>10, <1>11

\* A note opens the block beneath a line, in the paragraphs cut, where the reference has one.
LEMMA BeneathIs ==
  ASSUME NEW f, AFile(f), Agrees(f), NEW ps, CutTo(f, ps, {}, Len(f.lines)), NEW r,
         NEW k \in DOMAIN f.lines, ~Parts(f, k)
  PROVE  PartsTo(f, k) \in Beneath(ps, r) <=>
           \E b \in (k + 1)..(Len(f.lines) - 1) :
             /\ Parts(f, b) /\ \A m \in k..(b - 1) : ~Parts(f, m)
             /\ SaysAt(f, b + 1, <<"note">>)
             /\ \E j \in (b + 1)..Len(f.lines) : SaysAt(f, j, <<"anchor", r>>) /\ Together(f, b + 1, j)
<1>1. /\ \A p : p \in ToSet(ps) <=> \E j \in DOMAIN ps : p = ps[j]
      /\ \A p \in ToSet(ps) : OnIs(f, p.on) /\ \A m \in p.on : p.head = Under(f, m) /\ p.block = PartsTo(f, m)
      /\ \A m \in DOMAIN f.lines : ~Parts(f, m) => \E j \in DOMAIN ps : m \in ps[j].on
  BY WholeFacts
<1>2. \A j \in DOMAIN ps : OnIs(f, ps[j].on) /\ \A m \in ps[j].on : ps[j].block = PartsTo(f, m)
  BY <1>1
<1>3. Len(f.lines) \in Nat /\ DOMAIN f.lines = 1..Len(f.lines) /\ k \in Nat
  BY SequenceIs DEF AFile
<1>4. \A i \in DOMAIN ps : /\ \A m \in ps[i].on : m \in Nat /\ m \in DOMAIN f.lines /\ lines[m] = f.lines[m]
                           /\ \A a, m \in ps[i].on : Joint(f, a, m)
                           /\ \A m \in ps[i].on : \A j \in DOMAIN f.lines : j \in ps[i].on <=> Joint(f, j, m)
                           /\ ps[i].on # {}
  <2> TAKE i \in DOMAIN ps
  <2>1. OnIs(f, ps[i].on)
    BY <1>2
  <2>2. \A m \in ps[i].on : m \in Nat /\ m \in DOMAIN f.lines /\ lines[m] = f.lines[m]
    BY <2>1, OnFacts
  <2>3. \A a, m \in ps[i].on : Joint(f, a, m)
    BY <2>1, OnFacts
  <2> QED
    BY <2>1, <2>2, <2>3 DEF OnIs
<1>5. \A i \in DOMAIN ps : Min(ps[i].on) \in ps[i].on /\ \A m \in ps[i].on : Min(ps[i].on) <= m
  <2> TAKE i \in DOMAIN ps
  <2>1. ps[i].on \subseteq Nat /\ ps[i].on # {}
    BY <1>4
  <2> QED
    BY <2>1, MinIs
<1>6. \A i \in DOMAIN ps : <<"anchor", r>> \in SaidOn(ps[i].on) <=> \E j \in ps[i].on : SaysAt(f, j, <<"anchor", r>>)
  BY <1>4 DEF SaidOn, SaysAt
<1>7. \A i \in DOMAIN ps : <<"note">> \in lines[Min(ps[i].on)].says <=> SaysAt(f, Min(ps[i].on), <<"note">>)
  BY <1>4, <1>5 DEF SaysAt
<1> DEFINE Opens(i) == (i = 1 \/ ps[i - 1].block # ps[i].block) /\ ps[i].block - 1 = PartsTo(f, k)
           Below(q) == \E b \in (k + 1)..(Len(f.lines) - 1) : Parts(f, b) /\ (\A m \in k..(b - 1) : ~Parts(f, m)) /\ q = b + 1
<1>8. \A i \in DOMAIN ps : Opens(i) <=> Below(Min(ps[i].on))
  <2> TAKE i \in DOMAIN ps
  <2> QED
    BY <1>5, OpensIs
<1>9. PartsTo(f, k) \in Beneath(ps, r) <=>
        \E i \in DOMAIN ps : Opens(i) /\ SaysAt(f, Min(ps[i].on), <<"note">>) /\ \E j \in ps[i].on : SaysAt(f, j, <<"anchor", r>>)
  <2>1. PartsTo(f, k) \in Beneath(ps, r) <=>
          \E i \in DOMAIN ps : /\ i = 1 \/ ps[i - 1].block # ps[i].block
                               /\ <<"note">> \in lines[Min(ps[i].on)].says
                               /\ <<"anchor", r>> \in SaidOn(ps[i].on)
                               /\ PartsTo(f, k) = ps[i].block - 1
    BY DEF Beneath
  <2> QED
    BY <1>6, <1>7, <2>1
<1> HIDE DEF Opens
<1>10. ASSUME NEW i \in DOMAIN ps, Opens(i), SaysAt(f, Min(ps[i].on), <<"note">>), NEW j \in ps[i].on, SaysAt(f, j, <<"anchor", r>>)
       PROVE  \E b \in (k + 1)..(Len(f.lines) - 1) :
                /\ Parts(f, b) /\ \A m \in k..(b - 1) : ~Parts(f, m)
                /\ SaysAt(f, b + 1, <<"note">>)
                /\ \E l \in (b + 1)..Len(f.lines) : SaysAt(f, l, <<"anchor", r>>) /\ Together(f, b + 1, l)
  <2> DEFINE q == Min(ps[i].on)
  <2>1. q \in ps[i].on /\ q <= j /\ q \in Nat /\ j \in Nat /\ j \in DOMAIN f.lines /\ Joint(f, q, j) /\ SaysAt(f, q, <<"note">>)
    BY <1>4, <1>5, <1>10
  <2>2. Below(q)
    BY <1>8, <1>10
  <2> HIDE DEF q
  <2>3. PICK b \in (k + 1)..(Len(f.lines) - 1) : Parts(f, b) /\ (\A m \in k..(b - 1) : ~Parts(f, m)) /\ q = b + 1
    BY <2>2
  <2>4. Together(f, b + 1, j) /\ SaysAt(f, b + 1, <<"note">>)
    BY <2>1, <2>3 DEF Joint
  <2>5. j \in (b + 1)..Len(f.lines)
    BY <1>3, <2>1, <2>3
  <2> QED
    BY <1>10, <2>3, <2>4, <2>5
<1>11. ASSUME NEW b \in (k + 1)..(Len(f.lines) - 1), Parts(f, b), \A m \in k..(b - 1) : ~Parts(f, m), SaysAt(f, b + 1, <<"note">>),
              NEW j \in (b + 1)..Len(f.lines), SaysAt(f, j, <<"anchor", r>>), Together(f, b + 1, j)
       PROVE  \E i \in DOMAIN ps : Opens(i) /\ SaysAt(f, Min(ps[i].on), <<"note">>) /\ \E l \in ps[i].on : SaysAt(f, l, <<"anchor", r>>)
  <2> DEFINE q == b + 1
  <2>1. b \in Nat /\ q \in Nat /\ q \in DOMAIN f.lines /\ j \in Nat /\ j \in DOMAIN f.lines /\ q <= j /\ b <= q
    BY <1>3
  <2>2. SaysAt(f, q, <<"note">>) /\ Together(f, q, j) /\ Below(q)
    BY <1>11
  <2>3. \A m \in Nat : m < q => m <= b
    BY <2>1
  <2> HIDE DEF q
  <2>4. ~Parts(f, q)
    BY <2>1, <2>2, TogetherIs
  <2>5. PICK i \in DOMAIN ps : q \in ps[i].on
    BY <1>1, <2>1, <2>4
  <2>6. \A m \in ps[i].on : q <= m
    <3> TAKE m \in ps[i].on
    <3>1. m \in Nat /\ Joint(f, m, q)
      BY <1>4, <2>5
    <3>2. ASSUME m < q PROVE FALSE
      <4>1. m <= b /\ Together(f, m, q)
        BY <2>1, <2>3, <3>1, <3>2 DEF Joint
      <4>2. Together(f, m, b)
        BY <2>1, <3>1, <4>1, TogetherIs
      <4>3. ~Parts(f, b)
        BY <2>1, <3>1, <4>1, <4>2, TogetherIs
      <4> QED
        BY <1>11, <4>3
    <3> QED
      BY <2>1, <3>1, <3>2
  <2>7. Min(ps[i].on) = q
    <3>1. Min(ps[i].on) \in ps[i].on /\ Min(ps[i].on) <= q
      BY <1>5, <2>5
    <3>2. q <= Min(ps[i].on) /\ Min(ps[i].on) \in Nat
      BY <1>4, <2>6, <3>1
    <3> QED
      BY <2>1, <3>1, <3>2
  <2>8. Opens(i)
    BY <1>8, <2>2, <2>7
  <2>9. j \in ps[i].on
    <3>1. Joint(f, q, j)
      BY <2>1, <2>2 DEF Joint
    <3>2. Joint(f, j, q)
      BY <2>1, <3>1, JointIs
    <3> QED
      BY <1>4, <2>1, <2>5, <3>2
  <2> QED
    BY <1>11, <2>2, <2>7, <2>8, <2>9
<1> QED
  BY <1>9, <1>10, <1>11

\* A sentence is carried when the reference has its correction near a line of it.
LEMMA CarriedIs ==
  ASSUME NEW f, AFile(f), Agrees(f), NEW ps, CutTo(f, ps, {}, Len(f.lines)), NEW r,
         NEW p \in ToSet(ps), NEW e \in SentenceEnds(p.on), NEW k \in SentenceTo(p.on, e)
  PROVE  Carried(SentenceTo(p.on, e), p, ps, r) <=> NearTexts(f, r, k)
<1> DEFINE s == SentenceTo(p.on, e)
<1>1. /\ \A o : o \in ToSet(ps) <=> \E j \in DOMAIN ps : o = ps[j]
      /\ \A o \in ToSet(ps) : OnIs(f, o.on) /\ \A m \in o.on : o.head = Under(f, m) /\ o.block = PartsTo(f, m)
      /\ \A m \in DOMAIN f.lines : ~Parts(f, m) => \E j \in DOMAIN ps : m \in ps[j].on
  BY WholeFacts
<1>2. OnIs(f, p.on) /\ \A m \in p.on : p.head = Under(f, m) /\ p.block = PartsTo(f, m)
  BY <1>1
<1>3. \A o \in ToSet(ps) : \A m \in o.on : m \in Nat /\ m \in DOMAIN f.lines /\ ~Parts(f, m) /\ lines[m] = f.lines[m]
  <2> TAKE o \in ToSet(ps)
  <2>1. OnIs(f, o.on)
    BY <1>1
  <2> QED
    BY <2>1, OnFacts
<1>4. s \subseteq p.on /\ \A m \in DOMAIN f.lines : m \in s <=> OneSentence(f, m, k)
  BY <1>2, SentenceIs
<1>5. Len(f.lines) \in Nat /\ DOMAIN f.lines = 1..Len(f.lines)
  BY SequenceIs DEF AFile
<1>6. k \in p.on /\ k \in Nat /\ k \in DOMAIN f.lines /\ ~Parts(f, k) /\ p.head = Under(f, k) /\ p.block = PartsTo(f, k)
  BY <1>2, <1>3, <1>4
<1>7. <<"anchor", r>> \in SaidOn(s) <=> \E j \in DOMAIN f.lines : SaysAt(f, j, <<"anchor", r>>) /\ OneSentence(f, j, k)
  <2> HIDE DEF s
  <2>1. \A w : w \in SaidOn(s) <=> \E m \in s : SaysAt(f, m, w)
    BY <1>2, <1>4, SaidIs
  <2> QED
    BY <1>3, <1>4, <2>1
<1>8. CarriedByNote(p.on, r) <=> NoteOn(f, r, {j \in DOMAIN f.lines : Together(f, Min({j, k}), Max({j, k}))})
  <2> DEFINE on == {j \in DOMAIN f.lines : Together(f, Min({j, k}), Max({j, k}))}
  <2>1. \A j \in DOMAIN f.lines : j \in Nat /\ (j \in p.on <=> Joint(f, j, k))
    BY <1>2, <1>5, <1>6 DEF OnIs
  <2>2. \A j \in DOMAIN f.lines : j \in on <=> j \in p.on
    <3>1. \A j, l \in Nat : Together(f, Min({j, l}), Max({j, l})) <=> Joint(f, j, l)
      BY JointIs
    <3> QED
      BY <1>6, <2>1, <3>1
  <2>3. on = p.on
    <3>1. \A j \in p.on : j \in DOMAIN f.lines
      BY <1>3
    <3>2. \A j \in on : j \in DOMAIN f.lines
      OBVIOUS
    <3> HIDE DEF on
    <3> QED
      BY <2>2, <3>1, <3>2
  <2> HIDE DEF on
  <2>4. \A j \in on : lines[j] = f.lines[j]
    BY <1>3, <2>3
  <2>5. CarriedByNote(on, r) <=> NoteOn(f, r, on)
    BY <2>4, NoteIs
  <2> QED
    BY <2>3, <2>5 DEF on
<1>9. p.block \in Beneath(ps, r) <=>
        \E b \in (k + 1)..(Len(f.lines) - 1) :
          /\ Parts(f, b) /\ \A m \in k..(b - 1) : ~Parts(f, m)
          /\ SaysAt(f, b + 1, <<"note">>)
          /\ \E j \in (b + 1)..Len(f.lines) : SaysAt(f, j, <<"anchor", r>>) /\ Together(f, b + 1, j)
  <2>1. k \in DOMAIN f.lines /\ ~Parts(f, k) /\ p.block = PartsTo(f, k)
    BY <1>6
  <2> DEFINE c == PartsTo(f, k)
  <2>2. c \in Beneath(ps, r) <=>
          \E b \in (k + 1)..(Len(f.lines) - 1) :
            /\ Parts(f, b) /\ \A m \in k..(b - 1) : ~Parts(f, m)
            /\ SaysAt(f, b + 1, <<"note">>)
            /\ \E j \in (b + 1)..Len(f.lines) : SaysAt(f, j, <<"anchor", r>>) /\ Together(f, b + 1, j)
    BY <2>1, BeneathIs
  <2>3. p.block = c
    BY <2>1
  <2> HIDE DEF c
  <2> QED
    BY <2>2, <2>3
<1>10. ASSUME NEW h \in Under(f, k)
       PROVE  CarriedByNote(Section(ps, p.head), r) <=> NoteOn(f, r, {j \in DOMAIN f.lines : ~Parts(f, j) /\ Under(f, j) = {h}})
  <2>1. p.head = {h}
    <3>1. Under(f, k) = {h}
      BY <1>10 DEF Under
    <3> QED
      BY <1>6, <3>1
  <2> DEFINE on == {j \in DOMAIN f.lines : ~Parts(f, j) /\ Under(f, j) = {h}}
             S == Section(ps, p.head)
  <2>2. \A j : j \in S <=> \E o \in ToSet(ps) : o.head = {h} /\ j \in o.on
    BY <2>1 DEF Section
  <2>3. \A j \in on : j \in S
    <3> TAKE j \in on
    <3>1. PICK i \in DOMAIN ps : j \in ps[i].on
      BY <1>1
    <3>2. ps[i] \in ToSet(ps)
      BY <1>1
    <3>3. ps[i].head = {h}
      BY <1>1, <3>1, <3>2
    <3> QED
      BY <2>2, <3>1, <3>2, <3>3
  <2>4. \A j \in S : j \in on /\ lines[j] = f.lines[j]
    <3> TAKE j \in S
    <3>1. PICK o \in ToSet(ps) : o.head = {h} /\ j \in o.on
      BY <2>2
    <3> QED
      BY <1>1, <1>3, <3>1
  <2> HIDE DEF on, S
  <2>5. on = S
    BY <2>3, <2>4
  <2>6. CarriedByNote(S, r) <=> NoteOn(f, r, S)
    BY <2>4, NoteIs
  <2> QED
    BY <2>5, <2>6 DEF on, S
<1>11. (\E h \in p.head : <<"anchor", r>> \in h.says \/ CarriedByNote(Section(ps, p.head), r)) <=>
         \E h \in Under(f, k) : \/ <<"anchor", r>> \in h.says
                                \/ NoteOn(f, r, {j \in DOMAIN f.lines : ~Parts(f, j) /\ Under(f, j) = {h}})
  BY <1>6, <1>10
<1> QED
  BY <1>7, <1>8, <1>9, <1>11 DEF Carried, NearTexts

\* The candidates of a file cut whole are the reference's claims, carried and held as it has them.
LEMMA CandidatesAre ==
  ASSUME NEW f, AFile(f), File = f, Agrees(f), NEW ps, CutTo(f, ps, {}, Len(f.lines)), NEW r
  PROVE  /\ \A c \in Candidates(ps, r) :
              /\ c.line \in DOMAIN f.lines /\ ClaimAt(f, r, c.line)
              /\ c.carried <=> NearTexts(f, r, c.line)
              /\ ListedFor(c, r) = Held(f, r, c.line)
         /\ \A k \in DOMAIN f.lines : ClaimAt(f, r, k) => \E c \in Candidates(ps, r) : c.line = k
<1> DEFINE Of(p, e) == [line |-> ClaimLine(SentenceTo(p.on, e), r), says |-> SaidOn(SentenceTo(p.on, e)),
                        carried |-> Carried(SentenceTo(p.on, e), p, ps, r)]
<1>1. \A c : c \in Candidates(ps, r) <=>
        \E p \in ToSet(ps) : \E e \in SentenceEnds(p.on) : IsClaim(SentenceTo(p.on, e), p.on, r) /\ c = Of(p, e)
  <2> DEFINE Q(p) == {[line |-> ClaimLine(s, r), says |-> SaidOn(s), carried |-> Carried(s, p, ps, r)] :
                        s \in {s \in Sentences(p.on) : IsClaim(s, p.on, r)}}
  <2>1. Candidates(ps, r) = UNION {Q(p) : p \in ToSet(ps)}
    BY DEF Candidates
  <2>2. \A p, c : c \in Q(p) <=> \E e \in SentenceEnds(p.on) : IsClaim(SentenceTo(p.on, e), p.on, r) /\ c = Of(p, e)
    <3> TAKE p, c
    <3>1. c \in Q(p) <=> \E s \in Sentences(p.on) :
            IsClaim(s, p.on, r) /\ c = [line |-> ClaimLine(s, r), says |-> SaidOn(s), carried |-> Carried(s, p, ps, r)]
      OBVIOUS
    <3> QED
      BY <3>1 DEF Sentences
  <2> HIDE DEF Q, Of
  <2> QED
    BY <2>1, <2>2
<1>2. /\ \A p : p \in ToSet(ps) <=> \E j \in DOMAIN ps : p = ps[j]
      /\ \A p \in ToSet(ps) : OnIs(f, p.on)
      /\ \A m \in DOMAIN f.lines : ~Parts(f, m) => \E j \in DOMAIN ps : m \in ps[j].on
  BY WholeFacts
<1>3. \A p, e : /\ Of(p, e).line = ClaimLine(SentenceTo(p.on, e), r)
                /\ Of(p, e).says = SaidOn(SentenceTo(p.on, e))
                /\ Of(p, e).carried = Carried(SentenceTo(p.on, e), p, ps, r)
  OBVIOUS
<1> HIDE DEF Of
<1>4. ASSUME NEW c \in Candidates(ps, r)
      PROVE  /\ c.line \in DOMAIN f.lines /\ ClaimAt(f, r, c.line)
             /\ c.carried <=> NearTexts(f, r, c.line)
             /\ ListedFor(c, r) = Held(f, r, c.line)
  <2>1. PICK p \in ToSet(ps) : \E e \in SentenceEnds(p.on) : IsClaim(SentenceTo(p.on, e), p.on, r) /\ c = Of(p, e)
    BY <1>1
  <2>2. PICK e \in SentenceEnds(p.on) : IsClaim(SentenceTo(p.on, e), p.on, r) /\ c = Of(p, e)
    BY <2>1
  <2>3. OnIs(f, p.on)
    BY <1>2
  <2>4. c.line = ClaimLine(SentenceTo(p.on, e), r) /\ c.says = SaidOn(SentenceTo(p.on, e)) /\ c.carried = Carried(SentenceTo(p.on, e), p, ps, r)
    BY <1>3, <2>2
  <2> DEFINE k == c.line on == p.on
  <2>5. k \in SentenceTo(on, e) /\ ClaimAt(f, r, k)
    BY <2>2, <2>3, <2>4, ClaimIs
  <2>6. k \in DOMAIN f.lines
    <3>1. SentenceTo(on, e) \subseteq on
      BY <2>3, SentenceIs
    <3> QED
      BY <2>3, <2>5, <3>1 DEF OnIs
  <2>7. Carried(SentenceTo(p.on, e), p, ps, r) <=> NearTexts(f, r, k)
    BY <2>5, CarriedIs
  <2>8. ListedFor(c, r) = Held(f, r, k)
    BY <2>3, <2>4, <2>5, HeldIs
  <2> QED
    BY <2>4, <2>5, <2>6, <2>7, <2>8
<1>5. ASSUME NEW k \in DOMAIN f.lines, ClaimAt(f, r, k) PROVE \E c \in Candidates(ps, r) : c.line = k
  <2>1. k \in Nat
    BY SequenceIs DEF AFile
  <2>2. ~Parts(f, k)
    <3>1. \E j \in DOMAIN f.lines : OneSentence(f, j, k) \/ (j < k /\ Together(f, j, k))
      BY <1>5 DEF ClaimAt
    <3>2. PICK j \in DOMAIN f.lines : OneSentence(f, j, k) \/ (j < k /\ Together(f, j, k))
      BY <3>1
    <3>3. j \in Nat
      BY SequenceIs DEF AFile
    <3>4. Joint(f, j, k)
      <4>1. CASE OneSentence(f, j, k)
        BY <2>1, <3>3, <4>1, OneSentenceIs
      <4>2. CASE j < k /\ Together(f, j, k)
        BY <2>1, <3>3, <4>2 DEF Joint
      <4> QED
        BY <3>2, <4>1, <4>2
    <3> QED
      BY <2>1, <3>3, <3>4, JointIs
  <2>3. PICK i \in DOMAIN ps : k \in ps[i].on
    BY <1>2, <2>2
  <2> DEFINE p == ps[i]
  <2>4. p \in ToSet(ps) /\ OnIs(f, p.on) /\ k \in p.on
    BY <1>2, <2>3
  <2> HIDE DEF p
  <2>5. PICK e \in SentenceEnds(p.on) : k \in SentenceTo(p.on, e)
    BY <2>4, SentenceOf
  <2>6. IsClaim(SentenceTo(p.on, e), p.on, r) /\ ClaimLine(SentenceTo(p.on, e), r) = k
    BY <1>5, <2>4, <2>5, ClaimIs
  <2>7. Of(p, e) \in Candidates(ps, r) /\ Of(p, e).line = k
    BY <1>1, <1>3, <2>4, <2>6
  <2> QED
    BY <2>7
<1> QED
  BY <1>4, <1>5

-----------------------------------------------------------------------------
(* The check of the rows.  The inductive invariant, in named parts. *)

\* The rows are taken; and none of a run that ends before that.
Started == rows # {} \/ (exit \in {"0", "1"} /\ task.asked \subseteq DOMAIN PathsOf)

\* A file is judged for a row.
Judged(r, i) ==
  /\ Started /\ r \in Asked /\ i \in DOMAIN task.files /\ ReadsFile(r, i)
  /\ r \in rows => r = Row /\ i <= file /\ (doing = "cut" => i # file)

\* A claim of a row is at a line of a file judged for it.
ClaimJudged(r, i, k) == Judged(r, i) /\ k \in DOMAIN task.files[i].lines /\ ClaimAt(task.files[i], r, k)

\* Where the run is.
PhaseIs ==
  /\ doing \in {"idle", "cut"} /\ exit \in {"running", "0", "1", "2"}
  /\ file \in 0..Len(task.files)
  /\ rows # {} => exit = "running" /\ rows \subseteq Asked
  /\ rows = {} => doing = "idle" /\ file = 0
  /\ Started => task.git /\ There # {} /\ task.asked \subseteq DOMAIN PathsOf
  /\ exit = "0" => Started
  /\ exit = "2" => ~task.git \/ There = {}

\* The file at hand, cut to line `at`, is cut as the reference has it.
CutIs ==
  doing = "cut" =>
    /\ rows # {} /\ file \in DOMAIN task.files /\ ReadsFile(Row, file)
    /\ lines = Prose(File) /\ at \in 0..Len(lines)
    /\ Begun(File, at) /\ CutTo(File, paras, cur, at)

\* The candidates are the claims of the files judged, each in the state the reference gives it.
FoundIs ==
  /\ \A c \in found :
       /\ ClaimJudged(c.row, c.file, c.line)
       /\ c.state = "carried" <=> NearTexts(task.files[c.file], c.row, c.line)
       /\ c.state = "bare" <=> ~NearTexts(task.files[c.file], c.row, c.line) /\ Held(task.files[c.file], c.row, c.line) = {}
  /\ \A r, i, k : ClaimJudged(r, i, k) => \E c \in found : c.row = r /\ c.file = i /\ c.line = k

\* The listed lines used are, each, the first that holds some bare claim judged.
UsedIs ==
  \A n : n \in used <=>
    \E r, i, k : /\ ClaimJudged(r, i, k) /\ ~NearTexts(task.files[i], r, k)
                 /\ Held(task.files[i], r, k) # {} /\ n = Min(Held(task.files[i], r, k))

\* The faults are the bare candidates of the rows ended, and their listed lines that are not used.
FaultsAre ==
  /\ exit = "running" /\ rows = {} => faults = {}
  /\ Started =>
       \A x : x \in faults <=>
         \/ \E c \in found : c.state = "bare" /\ c.row \notin rows /\ x = <<"bare", c>>
         \/ \E n \in DOMAIN task.listed : task.listed[n].row \in Asked \ rows /\ n \notin used /\ x = <<"stale", n>>
  /\ Started /\ exit # "running" => (exit = "0" <=> faults = {})

ClaimsInv ==
  /\ task \in Tasks \cup {NoTask}
  /\ doing # "decls" => PhaseIs /\ CutIs /\ FoundIs /\ UsedIs /\ FaultsAre

\* A task's files are files, and its listed lines a sequence.
LEMMA TaskIs ==
  ASSUME task \in Tasks \cup {NoTask}
  PROVE  /\ Len(task.files) \in Nat /\ DOMAIN task.files = 1..Len(task.files)
         /\ \A n \in DOMAIN task.listed : n \in Nat
         /\ \A i \in DOMAIN task.files : AFile(task.files[i])
<1>1. IsSequence(<<>>)
  BY DEF IsSequence
<1>2. IsSequence(task.files) /\ IsSequence(task.listed)
  BY <1>1, TasksAssumption DEF NoTask
<1>3. \A i \in DOMAIN task.files : AFile(task.files[i])
  <2>1. CASE task \in Tasks
    BY <2>1, TasksAssumption DEF AFile
  <2>2. CASE task = NoTask
    <3>1. task.files = <<>> /\ Len(<<>>) = 0 /\ DOMAIN task.files = 1..Len(task.files)
      BY <1>2, <2>2, SequenceIs DEF NoTask
    <3> QED
      BY <3>1
  <2> QED
    BY <2>1, <2>2
<1>4. Len(task.files) \in Nat /\ DOMAIN task.files = 1..Len(task.files)
  BY <1>2, SequenceIs
<1>5. \A n \in DOMAIN task.listed : n \in Nat
  BY <1>2, SequenceIs
<1> QED
  BY <1>3, <1>4, <1>5

\* What is read off the task stays with it.
LEMMA TaskSame ==
  ASSUME task' = task
  PROVE  /\ \A f, r, k : Held(f, r, k)' = Held(f, r, k)
         /\ Asked' = Asked /\ There' = There
         /\ \A r, i : ReadsFile(r, i)' <=> ReadsFile(r, i)
<1>1. \A f, r, k : Held(f, r, k)' = Held(f, r, k)
  BY DEF Held
<1>2. Asked' = Asked /\ There' = There
  BY DEF Asked, There
<1>3. \A r, i : ReadsFile(r, i)' <=> ReadsFile(r, i)
  BY <1>2 DEF ReadsFile
<1> QED
  BY <1>1, <1>2, <1>3

\* Steps that leave the place of the run leave the files judged.
LEMMA JudgedSame ==
  ASSUME UNCHANGED <<task, rows, file, doing, exit>>
  PROVE  /\ Started' <=> Started
         /\ Row' = Row
         /\ \A r, i, k : ClaimJudged(r, i, k)' <=> ClaimJudged(r, i, k)
<1>1. /\ Asked' = Asked /\ There' = There
      /\ \A r, i : ReadsFile(r, i)' <=> ReadsFile(r, i)
  BY TaskSame
<1>2. Started' <=> Started
  BY DEF Started
<1>3. Row' = Row
  BY DEF Row
<1>4. \A r, i : Judged(r, i)' <=> Judged(r, i)
  BY <1>1, <1>2, <1>3 DEF Judged
<1> QED
  BY <1>2, <1>3, <1>4 DEF ClaimJudged

\* With the files judged and what is found and used the same, both stay the reference's.
LEMMA FoundSame ==
  ASSUME FoundIs, UsedIs, UNCHANGED <<task, found, used>>, \A r, i, k : ClaimJudged(r, i, k)' <=> ClaimJudged(r, i, k)
  PROVE  FoundIs' /\ UsedIs'
<1>1. \A f, r, k : Held(f, r, k)' = Held(f, r, k)
  BY TaskSame
<1>2. FoundIs'
  BY <1>1 DEF FoundIs
<1>3. UsedIs'
  BY <1>1 DEF UsedIs
<1> QED
  BY <1>2, <1>3

\* Steps that end no row and find nothing leave the faults the reference's.
LEMMA FaultsSame ==
  ASSUME FaultsAre, UNCHANGED <<task, rows, found, used, faults, exit>>
  PROVE  FaultsAre'
<1>1. (Started' <=> Started) /\ Asked' = Asked
  BY TaskSame DEF Started
<1> QED
  BY <1>1 DEF FaultsAre

\* A run begins before any row, with nothing found.
LEMMA ClaimsInvInit == ClaimsInit => ClaimsInv
<1> SUFFICES ASSUME ClaimsInit PROVE ClaimsInv
  OBVIOUS
<1>1. task \in Tasks \cup {NoTask}
  BY DEF ClaimsInit
<1>2. ASSUME doing # "decls" PROVE PhaseIs /\ CutIs /\ FoundIs /\ UsedIs /\ FaultsAre
  <2>1. /\ doing = "idle" /\ rows = {} /\ file = 0 /\ found = {} /\ used = {} /\ faults = {} /\ exit = "running"
    BY <1>2 DEF ClaimsInit
  <2>2. ~Started
    BY <2>1 DEF Started
  <2>3. PhaseIs
    BY <1>1, <2>1, <2>2, TaskIs DEF PhaseIs
  <2>4. \A r, i, k : ~ClaimJudged(r, i, k)
    BY <2>2 DEF ClaimJudged, Judged
  <2>5. CutIs
    BY <2>1 DEF CutIs
  <2>6. FoundIs /\ UsedIs
    BY <2>1, <2>4 DEF FoundIs, UsedIs
  <2>7. FaultsAre
    BY <2>1, <2>2 DEF FaultsAre
  <2> QED
    BY <2>3, <2>5, <2>6, <2>7
<1> QED
  BY <1>1, <1>2 DEF ClaimsInv

\* A run that ends before its rows has none to judge.
LEMMA ClaimsInvEarly ==
  ASSUME ClaimsInv, ClaimsUnreadable \/ NoSuchRow
  PROVE  ClaimsInv'
<1>1. doing = "idle" /\ exit = "running" /\ rows = {} /\ UNCHANGED <<task, rows, file, doing, found, used>>
  BY DEF ClaimsUnreadable, NoSuchRow
<1>2. task \in Tasks \cup {NoTask} /\ PhaseIs /\ CutIs /\ FoundIs /\ UsedIs /\ FaultsAre
  BY <1>1 DEF ClaimsInv
<1>3. Asked' = Asked /\ There' = There
  BY <1>1, TaskSame
<1>4. ~Started
  BY <1>1 DEF Started
<1>5. exit' \in {"1", "2"} /\ (exit' = "2" => ~task.git \/ There = {}) /\ (exit' = "1" => ~(task.asked \subseteq DOMAIN PathsOf))
  BY DEF ClaimsUnreadable, NoSuchRow
<1>6. ~Started'
  BY <1>1, <1>5 DEF Started
<1>7. PhaseIs'
  <2>1. task' = task /\ rows' = {} /\ file' = file /\ doing' = "idle"
    BY <1>1
  <2> QED
    BY <1>1, <1>2, <1>3, <1>5, <1>6, <2>1 DEF PhaseIs
<1>8. \A r, i, k : ~ClaimJudged(r, i, k)' /\ ~ClaimJudged(r, i, k)
  BY <1>4, <1>6 DEF ClaimJudged, Judged
<1>9. FoundIs' /\ UsedIs'
  BY <1>1, <1>2, <1>8, FoundSame
<1>10. CutIs'
  BY <1>1 DEF CutIs
<1>11. FaultsAre'
  BY <1>5, <1>6 DEF FaultsAre
<1> QED
  BY <1>1, <1>2, <1>7, <1>9, <1>10, <1>11 DEF ClaimsInv

\* Taken, the rows are all still to be judged.
LEMMA ClaimsInvTake ==
  ASSUME ClaimsInv, TakeRows
  PROVE  ClaimsInv'
<1>1. /\ doing = "idle" /\ exit = "running" /\ rows = {} /\ UNCHANGED <<task, file, doing, found, used, faults, exit>>
      /\ task.git /\ There # {} /\ task.asked \subseteq DOMAIN PathsOf /\ rows' = Asked
  BY DEF TakeRows, declsVars
<1>2. task \in Tasks \cup {NoTask} /\ PhaseIs /\ CutIs /\ FoundIs /\ UsedIs /\ FaultsAre
  BY <1>1 DEF ClaimsInv
<1>3. Asked' = Asked /\ There' = There
  BY <1>1, TaskSame
<1>4. ~Started /\ file = 0
  BY <1>1, <1>2 DEF Started, PhaseIs
<1>5. PhaseIs'
  <2>1. task' = task /\ file' = 0 /\ doing' = "idle" /\ exit' = "running"
    BY <1>1, <1>4
  <2> QED
    BY <1>1, <1>2, <1>3, <2>1 DEF PhaseIs
<1>6. \A r, i, k : ~ClaimJudged(r, i, k)' /\ ~ClaimJudged(r, i, k)
  <2>1. ASSUME NEW r, NEW i PROVE ~Judged(r, i)'
    <3>1. \A j \in DOMAIN task.files : ~(j <= 0)
      BY <1>2, TaskIs
    <3>2. file' = 0 /\ task' = task
      BY <1>1, <1>4
    <3> QED
      BY <1>1, <1>3, <3>1, <3>2 DEF Judged
  <2> QED
    BY <1>4, <2>1 DEF ClaimJudged, Judged
<1>7. FoundIs' /\ UsedIs'
  BY <1>1, <1>2, <1>6, FoundSame
<1>8. CutIs'
  BY <1>1 DEF CutIs
<1>9. FaultsAre'
  <2>1. faults = {} /\ faults' = {} /\ exit' = "running" /\ \A c \in found : FALSE
    BY <1>1, <1>2, <1>6 DEF FaultsAre, FoundIs
  <2>2. found' = {} /\ \A r : r \notin Asked' \ rows'
    BY <1>1, <1>3, <2>1
  <2> QED
    BY <2>1, <2>2 DEF FaultsAre
<1> QED
  BY <1>1, <1>2, <1>5, <1>7, <1>8, <1>9 DEF ClaimsInv

\* The row at hand is one of those left.
LEMMA RowIs ==
  ASSUME rows # {}
  PROVE  Row \in rows
BY DEF Row

\* The next file: passed over when the row does not read it, and else still to be cut.
LEMMA ClaimsInvOpen ==
  ASSUME ClaimsInv, OpenFile
  PROVE  ClaimsInv'
<1>1. /\ doing = "idle" /\ rows # {} /\ file < Len(task.files) /\ file' = file + 1
      /\ UNCHANGED <<task, rows, found, used, faults, exit>>
      /\ doing' = IF ReadsFile(Row, file + 1) THEN "cut" ELSE "idle"
  BY DEF OpenFile, declsVars
<1>2. task \in Tasks \cup {NoTask} /\ PhaseIs /\ CutIs /\ FoundIs /\ UsedIs /\ FaultsAre
  BY <1>1 DEF ClaimsInv
<1>3. /\ Asked' = Asked /\ There' = There
      /\ \A r, i : ReadsFile(r, i)' <=> ReadsFile(r, i)
  BY <1>1, TaskSame
<1>4. Row' = Row /\ (Started' <=> Started)
  BY <1>1 DEF Row, Started
<1>5. /\ Len(task.files) \in Nat /\ DOMAIN task.files = 1..Len(task.files) /\ file \in Nat /\ file + 1 \in DOMAIN task.files
      /\ \A i \in DOMAIN task.files : i \in Nat
  <2>1. Len(task.files) \in Nat /\ DOMAIN task.files = 1..Len(task.files)
    BY <1>2, TaskIs
  <2>2. file \in 0..Len(task.files)
    BY <1>2 DEF PhaseIs
  <2> QED
    BY <1>1, <2>1, <2>2
<1>6. PhaseIs'
  <2>1. file' \in 0..Len(task'.files) /\ rows' = rows /\ doing' \in {"idle", "cut"}
    BY <1>1, <1>5
  <2> QED
    BY <1>1, <1>2, <1>3, <1>4, <2>1 DEF PhaseIs
<1>7. \A r, i, k : ClaimJudged(r, i, k)' <=> ClaimJudged(r, i, k)
  <2>1. ASSUME NEW r, NEW i PROVE Judged(r, i)' <=> Judged(r, i)
    <3>1. CASE i \in DOMAIN task.files /\ ReadsFile(r, i) /\ r = Row
      <4>1. i \in Nat
        BY <1>5, <3>1
      <4>2. (i <= file /\ (doing = "cut" => i # file)) <=> i <= file
        BY <1>1
      <4>3. (i <= file + 1 /\ (doing' = "cut" => i # file + 1)) <=> i <= file
        <5>1. CASE i = file + 1
          <6>1. doing' = "cut" /\ ~(i <= file)
            BY <1>1, <1>5, <3>1, <5>1
          <6> QED
            BY <5>1, <6>1
        <5>2. CASE i # file + 1
          BY <1>5, <4>1, <5>2
        <5> QED
          BY <5>1, <5>2
      <4> QED
        BY <1>1, <1>3, <1>4, <4>2, <4>3 DEF Judged
    <3>2. CASE ~(i \in DOMAIN task.files /\ ReadsFile(r, i) /\ r = Row)
      BY <1>1, <1>3, <1>4, <3>2 DEF Judged
    <3> QED
      BY <3>1, <3>2
  <2> QED
    BY <1>1, <2>1 DEF ClaimJudged
<1>8. FoundIs' /\ UsedIs'
  BY <1>1, <1>2, <1>7, FoundSame
<1>9. CutIs'
  <2>1. CASE ReadsFile(Row, file + 1)
    <3> DEFINE i == file + 1
    <3>1. PICK f : f = task.files[i]
      OBVIOUS
    <3>2. AFile(f)
      BY <1>2, <1>5, <3>1, TaskIs
    <3>3. lines' = Prose(f) /\ at' = 0 /\ cur' = {} /\ head' = {} /\ block' = 0 /\ paras' = <<>>
      BY <2>1, <3>1 DEF OpenFile
    <3>4. File' = f
      BY <1>1, <3>1 DEF File
    <3>5. at' \in 0..Len(lines')
      BY <3>2, <3>3, SequenceIs, ProseIs DEF AFile
    <3>6. Begun(f, 0)'
      <4>1. Under(f, 0) = {} /\ PartsTo(f, 0) = 0 /\ \A k \in 1..0 : FALSE
        BY UnderNext, PartsNext
      <4> QED
        BY <3>3, <4>1 DEF Begun
    <3>7. CutTo(f, <<>>, {}, 0)
      <4>1. <<>> \in Seq({}) /\ DOMAIN <<>> = {} /\ \A k \in 1..0 : FALSE
        OBVIOUS
      <4> QED
        BY <4>1 DEF CutTo
    <3>8. rows' # {} /\ file' \in DOMAIN task'.files /\ ReadsFile(Row, file)'
      <4>2. (task.files)' = task.files /\ file' = file + 1
        BY <1>1
      <4>3. ReadsFile(Row, file)' <=> ReadsFile(Row, file + 1)
        BY <1>3, <1>4, <4>2 DEF ReadsFile
      <4> QED
        BY <1>1, <1>5, <2>1, <4>2, <4>3
    <3>9. Begun(File, at)' /\ CutTo(File, paras, cur, at)'
      BY <3>3, <3>4, <3>6, <3>7 DEF Begun, CutTo
    <3> QED
      BY <3>3, <3>4, <3>5, <3>8, <3>9 DEF CutIs
  <2>2. CASE ~ReadsFile(Row, file + 1)
    BY <1>1, <2>2 DEF CutIs
  <2> QED
    BY <2>1, <2>2
<1>10. FaultsAre'
  BY <1>1, <1>2, FaultsSame
<1> QED
  BY <1>1, <1>2, <1>6, <1>8, <1>9, <1>10 DEF ClaimsInv

\* A line cut leaves the place of the run, and the cut as the reference has it.
LEMMA ClaimsInvCut ==
  ASSUME ClaimsInv, EndBlock \/ StartParagraph \/ GoOn
  PROVE  ClaimsInv'
<1>1. doing = "cut" /\ UNCHANGED <<lines, task, rows, file, found, used, doing, faults, exit>>
  BY DEF EndBlock, StartParagraph, GoOn, CutOn, declsVars
<1>2. task \in Tasks \cup {NoTask} /\ PhaseIs /\ CutIs /\ FoundIs /\ UsedIs /\ FaultsAre
  BY <1>1 DEF ClaimsInv
<1>3. /\ Asked' = Asked /\ There' = There
      /\ \A r, i : ReadsFile(r, i)' <=> ReadsFile(r, i)
  BY <1>1, TaskSame
<1>4. /\ (Started' <=> Started) /\ Row' = Row
      /\ \A r, i, k : ClaimJudged(r, i, k)' <=> ClaimJudged(r, i, k)
  BY <1>1, JudgedSame
<1>5. PhaseIs'
  BY <1>1, <1>2, <1>3, <1>4 DEF PhaseIs
<1>6. FoundIs' /\ UsedIs'
  BY <1>1, <1>2, <1>4, FoundSame
<1>7. FaultsAre'
  BY <1>1, <1>2, FaultsSame
<1>8. CutIs'
  <2>1. /\ rows # {} /\ file \in DOMAIN task.files /\ ReadsFile(Row, file)
        /\ lines = Prose(File) /\ at \in 0..Len(lines)
        /\ Begun(File, at) /\ CutTo(File, paras, cur, at)
    BY <1>1, <1>2 DEF CutIs
  <2>2. PICK f : f = File
    OBVIOUS
  <2>3. PICK n \in 0..Len(lines) : n = at
    BY <2>1
  <2>4. AFile(f)
    BY <1>2, <2>1, <2>2, TaskIs DEF File
  <2>5. at' = n + 1 /\ at' \in 0..Len(lines) /\ Begun(f, n + 1)' /\ CutTo(f, paras', cur', n + 1)
    <3>1. Begun(f, n) /\ CutTo(f, paras, cur, n) /\ lines = Prose(f)
      BY <2>1, <2>2, <2>3
    <3> QED
      BY <2>2, <2>3, <2>4, <3>1, CutStep
  <2>6. File' = f /\ lines' = Prose(f)
    BY <1>1, <2>1, <2>2 DEF File
  <2>7. Begun(File, at)' /\ CutTo(File, paras, cur, at)'
    BY <2>5, <2>6 DEF Begun, CutTo
  <2>8. ReadsFile(Row, file)'
    <3>1. (task.files)' = task.files /\ file' = file
      BY <1>1
    <3> QED
      BY <1>3, <1>4, <2>1, <3>1 DEF ReadsFile
  <2>9. rows' # {} /\ file' \in DOMAIN task'.files /\ lines' = Prose(File') /\ at' \in 0..Len(lines')
    BY <1>1, <2>1, <2>5, <2>6
  <2> QED
    BY <2>6, <2>7, <2>8, <2>9 DEF CutIs
<1> QED
  BY <1>1, <1>2, <1>5, <1>6, <1>7, <1>8 DEF ClaimsInv

\* A file at its end is cut whole.
LEMMA CutWhole ==
  ASSUME NEW f, AFile(f), File = f, lines = Prose(f), at = Len(lines), Begun(f, at), CutTo(f, paras, cur, at)
  PROVE  Agrees(f) /\ CutTo(f, Flushed, {}, Len(f.lines))
<1>1. /\ Len(f.lines) \in Nat /\ DOMAIN f.lines = 1..Len(f.lines)
      /\ Len(lines) \in 0..Len(f.lines) /\ \A k \in 1..Len(f.lines) : k > Len(lines) => Parts(f, k)
  BY SequenceIs, ProseIs DEF AFile, Parts
<1>2. Agrees(f)
  <2> SUFFICES ASSUME NEW k \in DOMAIN f.lines, ~Parts(f, k) PROVE lines[k] = f.lines[k]
    BY DEF Agrees
  <2>1. k \in 1..Len(lines)
    BY <1>1
  <2> QED
    BY <2>1, LineIs
<1>3. PICK n \in 0..Len(f.lines) : n = at
  BY <1>1
<1>4. n = Len(f.lines) \/ Parts(f, n + 1)
  <2>1. CASE n < Len(f.lines)
    <3>1. n + 1 \in 1..Len(f.lines) /\ n + 1 > Len(lines)
      BY <1>1, <1>3, <2>1
    <3> QED
      BY <1>1, <3>1
  <2> QED
    BY <1>1, <1>3, <2>1
<1>5. CutTo(f, Flushed, {}, n)
  <2>1. Begun(f, n) /\ CutTo(f, paras, cur, n)
    BY <1>3
  <2> QED
    BY <1>4, <2>1, FlushedIs
<1>6. CutTo(f, Flushed, {}, Len(f.lines))
  <2>1. \A i \in DOMAIN Flushed : \A k \in Flushed[i].on : k <= Len(f.lines) /\ k \notin {}
    <3>1. \A i \in DOMAIN Flushed : \A k \in Flushed[i].on : k \in DOMAIN f.lines
      BY <1>5 DEF CutTo, ParaIs
    <3> QED
      BY <1>1, <3>1
  <2>2. \A k \in 1..Len(f.lines) : ~Parts(f, k) => k \in 1..n
    BY <1>1, <1>3
  <2> QED
    BY <1>5, <2>1, <2>2 DEF CutTo
<1> QED
  BY <1>2, <1>6

\* A file judged has its claims found, in their states, and the listed lines of its bare ones used.
LEMMA ClaimsInvJudge ==
  ASSUME ClaimsInv, JudgeFile
  PROVE  ClaimsInv'
<1> DEFINE cs == Candidates(Flushed, Row)
           State(c) == IF c.carried THEN "carried" ELSE IF Takes(c) # {} THEN "classed" ELSE "bare"
           F(c) == [row |-> Row, file |-> file, line |-> c.line, state |-> State(c)]
<1>1. /\ doing = "cut" /\ doing' = "idle" /\ at = Len(lines)
      /\ UNCHANGED <<task, rows, file, faults, exit>>
      /\ found' = found \cup {F(c) : c \in cs}
      /\ used' = used \cup {Min(Takes(c)) : c \in {c \in cs : Takes(c) # {}}}
  BY DEF JudgeFile, declsVars
<1>2. task \in Tasks \cup {NoTask} /\ PhaseIs /\ CutIs /\ FoundIs /\ UsedIs /\ FaultsAre
  BY <1>1 DEF ClaimsInv
<1>3. /\ Asked' = Asked /\ There' = There
      /\ \A r, i : ReadsFile(r, i)' <=> ReadsFile(r, i)
      /\ \A g, r, k : Held(g, r, k)' = Held(g, r, k)
  BY <1>1, TaskSame
<1>4. /\ rows # {} /\ file \in DOMAIN task.files /\ ReadsFile(Row, file) /\ lines = Prose(File)
      /\ Begun(File, at) /\ CutTo(File, paras, cur, at)
  BY <1>1, <1>2 DEF CutIs
<1>5. PICK f : f = task.files[file]
  OBVIOUS
<1>6. AFile(f) /\ File = f
  BY <1>2, <1>4, <1>5, TaskIs DEF File
<1>7. Agrees(f) /\ CutTo(f, Flushed, {}, Len(f.lines))
  BY <1>1, <1>4, <1>6, CutWhole
<1>8. /\ \A c \in cs : /\ c.line \in DOMAIN f.lines /\ ClaimAt(f, Row, c.line)
                       /\ c.carried <=> NearTexts(f, Row, c.line)
                       /\ ListedFor(c, Row) = Held(f, Row, c.line)
      /\ \A k \in DOMAIN f.lines : ClaimAt(f, Row, k) => \E c \in cs : c.line = k
  BY <1>6, <1>7, CandidatesAre
<1> HIDE DEF cs
<1>9. \A c \in cs : /\ Takes(c) # {} <=> ~NearTexts(f, Row, c.line) /\ Held(f, Row, c.line) # {}
                    /\ Takes(c) # {} => Takes(c) = Held(f, Row, c.line)
                    /\ F(c).row = Row /\ F(c).file = file /\ F(c).line = c.line
                    /\ F(c).state = "carried" <=> NearTexts(f, Row, c.line)
                    /\ F(c).state = "bare" <=> ~NearTexts(f, Row, c.line) /\ Held(f, Row, c.line) = {}
  <2> SUFFICES ASSUME NEW c \in cs
               PROVE /\ Takes(c) # {} <=> ~NearTexts(f, Row, c.line) /\ Held(f, Row, c.line) # {}
                     /\ Takes(c) # {} => Takes(c) = Held(f, Row, c.line)
                     /\ F(c).row = Row /\ F(c).file = file /\ F(c).line = c.line
                     /\ F(c).state = "carried" <=> NearTexts(f, Row, c.line)
                     /\ F(c).state = "bare" <=> ~NearTexts(f, Row, c.line) /\ Held(f, Row, c.line) = {}
    OBVIOUS
  <2>1. Takes(c) = IF NearTexts(f, Row, c.line) THEN {} ELSE Held(f, Row, c.line)
    BY <1>8 DEF Takes
  <2>2. F(c).row = Row /\ F(c).file = file /\ F(c).line = c.line /\ F(c).state = State(c)
    OBVIOUS
  <2>3. State(c) = IF NearTexts(f, Row, c.line) THEN "carried" ELSE IF Held(f, Row, c.line) # {} THEN "classed" ELSE "bare"
    BY <1>8, <2>1
  <2> HIDE DEF F, State
  <2> QED
    BY <2>1, <2>2, <2>3
<1> HIDE DEF F, State
<1>10. (Started' <=> Started) /\ Started /\ Row' = Row /\ Row \in rows /\ rows' = rows /\ rows \subseteq Asked /\ Row \in Asked
  <2>1. (Started' <=> Started) /\ Started /\ Row' = Row
    BY <1>1, <1>4 DEF Started, Row
  <2>2. Row \in rows
    BY <1>4, RowIs
  <2> QED
    BY <1>1, <1>2, <1>4, <2>1, <2>2 DEF PhaseIs
<1>11. \A r, i : Judged(r, i)' <=> Judged(r, i) \/ (r = Row /\ i = file)
  <2> TAKE r, i
  <2>1. file \in Nat /\ file <= file
    BY <1>2, <1>4, TaskIs
  <2>2. CASE r = Row /\ i = file
    <3>1. (i \in DOMAIN task.files) /\ ReadsFile(r, i) /\ i <= file
      BY <1>4, <2>1, <2>2
    <3>2. Judged(r, i)'
      BY <1>1, <1>3, <1>10, <2>2, <3>1 DEF Judged
    <3> QED
      BY <2>2, <3>2
  <2>3. CASE ~(r = Row /\ i = file)
    <3>1. (r \in rows => r = Row /\ i <= file /\ (doing = "cut" => i # file)) <=> (r \in rows => r = Row /\ i <= file)
      BY <2>3
    <3>2. (r \in rows => r = Row /\ i <= file /\ (doing' = "cut" => i # file)) <=> (r \in rows => r = Row /\ i <= file)
      BY <1>1
    <3> QED
      BY <1>1, <1>3, <1>10, <2>3, <3>1, <3>2 DEF Judged
  <2> QED
    BY <2>2, <2>3
<1>12. \A r, i, k : ClaimJudged(r, i, k)' <=>
         ClaimJudged(r, i, k) \/ (r = Row /\ i = file /\ k \in DOMAIN f.lines /\ ClaimAt(f, Row, k))
  <2>1. \A r, i, k : ClaimJudged(r, i, k)' <=> Judged(r, i)' /\ k \in DOMAIN task.files[i].lines /\ ClaimAt(task.files[i], r, k)
    BY <1>1 DEF ClaimJudged
  <2> QED
    BY <1>5, <1>11, <2>1 DEF ClaimJudged
<1>13. PhaseIs'
  BY <1>1, <1>2, <1>3, <1>4, <1>10 DEF PhaseIs
<1>14. FoundIs'
  <2>1. ASSUME NEW c \in found'
        PROVE  /\ ClaimJudged(c.row, c.file, c.line)'
               /\ c.state = "carried" <=> NearTexts(task.files[c.file], c.row, c.line)
               /\ c.state = "bare" <=> ~NearTexts(task.files[c.file], c.row, c.line) /\ Held(task.files[c.file], c.row, c.line) = {}
    <3>1. CASE c \in found
      <4>1. /\ ClaimJudged(c.row, c.file, c.line)
            /\ c.state = "carried" <=> NearTexts(task.files[c.file], c.row, c.line)
            /\ c.state = "bare" <=> ~NearTexts(task.files[c.file], c.row, c.line) /\ Held(task.files[c.file], c.row, c.line) = {}
        BY <1>2, <3>1 DEF FoundIs
      <4> QED
        BY <1>12, <4>1
    <3>2. CASE c \notin found
      <4>1. PICK d \in cs : c = F(d)
        BY <1>1, <3>2
      <4>2. /\ c.row = Row /\ c.file = file /\ c.line = d.line
            /\ c.state = "carried" <=> NearTexts(f, Row, d.line)
            /\ c.state = "bare" <=> ~NearTexts(f, Row, d.line) /\ Held(f, Row, d.line) = {}
        BY <1>9, <4>1
      <4>3. task.files[c.file] = f
        BY <1>5, <4>2
      <4>4. ClaimJudged(c.row, c.file, c.line)'
        BY <1>8, <1>12, <4>1, <4>2
      <4> QED
        BY <4>2, <4>3, <4>4
    <3> QED
      BY <3>1, <3>2
  <2>2. ASSUME NEW r, NEW i, NEW k, ClaimJudged(r, i, k)'
        PROVE  \E c \in found' : c.row = r /\ c.file = i /\ c.line = k
    <3>1. CASE ClaimJudged(r, i, k)
      <4>1. PICK c \in found : c.row = r /\ c.file = i /\ c.line = k
        BY <1>2, <3>1 DEF FoundIs
      <4> QED
        BY <1>1, <4>1
    <3>2. CASE r = Row /\ i = file /\ k \in DOMAIN f.lines /\ ClaimAt(f, Row, k)
      <4>1. PICK c \in cs : c.line = k
        BY <1>8, <3>2
      <4>2. F(c) \in found'
        BY <1>1
      <4> QED
        BY <1>9, <3>2, <4>1, <4>2
    <3> QED
      BY <1>12, <2>2, <3>1, <3>2
  <2>4. task' = task
    BY <1>1
  <2> QED
    BY <1>3, <2>1, <2>2, <2>4 DEF FoundIs
<1>15. \A n : n \in used' <=> n \in used \/ \E k \in DOMAIN f.lines : /\ ClaimAt(f, Row, k) /\ ~NearTexts(f, Row, k)
                                                                      /\ Held(f, Row, k) # {} /\ n = Min(Held(f, Row, k))
  <2> TAKE n
  <2>1. n \in used' <=> n \in used \/ \E c \in cs : Takes(c) # {} /\ n = Min(Takes(c))
    BY <1>1
  <2>2. ASSUME NEW c \in cs, Takes(c) # {}, n = Min(Takes(c))
        PROVE  \E k \in DOMAIN f.lines : /\ ClaimAt(f, Row, k) /\ ~NearTexts(f, Row, k)
                                         /\ Held(f, Row, k) # {} /\ n = Min(Held(f, Row, k))
    <3>1. c.line \in DOMAIN f.lines /\ ClaimAt(f, Row, c.line) /\ ~NearTexts(f, Row, c.line) /\ Held(f, Row, c.line) # {} /\ Takes(c) = Held(f, Row, c.line)
      BY <1>8, <1>9, <2>2
    <3> QED
      BY <2>2, <3>1
  <2>3. ASSUME NEW k \in DOMAIN f.lines, ClaimAt(f, Row, k), ~NearTexts(f, Row, k), Held(f, Row, k) # {}, n = Min(Held(f, Row, k))
        PROVE  \E c \in cs : Takes(c) # {} /\ n = Min(Takes(c))
    <3>1. PICK c \in cs : c.line = k
      BY <1>8, <2>3
    <3>2. Takes(c) # {} /\ Takes(c) = Held(f, Row, k)
      BY <1>9, <2>3, <3>1
    <3> QED
      BY <2>3, <3>1, <3>2
  <2> QED
    BY <2>1, <2>2, <2>3
<1>16. UsedIs'
  <2>1. ASSUME NEW n
        PROVE n \in used' <=> \E r, i, k : /\ ClaimJudged(r, i, k)' /\ ~NearTexts(task.files[i], r, k)
                                           /\ Held(task.files[i], r, k) # {} /\ n = Min(Held(task.files[i], r, k))
    <3>1. n \in used <=> \E r, i, k : /\ ClaimJudged(r, i, k) /\ ~NearTexts(task.files[i], r, k)
                                      /\ Held(task.files[i], r, k) # {} /\ n = Min(Held(task.files[i], r, k))
      BY <1>2 DEF UsedIs
    <3> DEFINE Holds(r, i, k) == ~NearTexts(task.files[i], r, k) /\ Held(task.files[i], r, k) # {} /\ n = Min(Held(task.files[i], r, k))
    <3>2. n \in used' <=> n \in used \/ \E k \in DOMAIN f.lines : ClaimAt(f, Row, k) /\ Holds(Row, file, k)
      BY <1>5, <1>15
    <3>3. n \in used <=> \E r, i, k : ClaimJudged(r, i, k) /\ Holds(r, i, k)
      BY <3>1
    <3> HIDE DEF Holds
    <3>4. n \in used' <=> \E r, i, k : ClaimJudged(r, i, k)' /\ Holds(r, i, k)
      BY <1>12, <3>2, <3>3
    <3> QED
      BY <3>4 DEF Holds
  <2>2. task' = task
    BY <1>1
  <2> QED
    BY <1>3, <2>1, <2>2 DEF UsedIs
<1>17. FaultsAre'
  <2>1. exit = "running"
    BY <1>2, <1>4 DEF PhaseIs
  <2>2. \A c : (c \in found' /\ c.row \notin rows) <=> (c \in found /\ c.row \notin rows)
    BY <1>1, <1>9, <1>10
  <2>3. \A n \in DOMAIN task.listed : task.listed[n].row \notin rows => (n \in used' <=> n \in used)
    <3> SUFFICES ASSUME NEW n \in DOMAIN task.listed, task.listed[n].row \notin rows, n \in used' PROVE n \in used
      BY <1>15
    <3>1. ASSUME NEW k \in DOMAIN f.lines, Held(f, Row, k) # {}, n = Min(Held(f, Row, k)) PROVE FALSE
      <4> DEFINE T == Held(f, Row, k)
      <4>1. T \subseteq Nat /\ \A m \in T : task.listed[m].row = Row
        BY <1>2, TaskIs DEF Held
      <4> HIDE DEF T
      <4>2. T # {} /\ n = Min(T)
        BY <3>1 DEF T
      <4>3. n \in T
        BY <4>1, <4>2, MinIs
      <4> QED
        BY <1>10, <4>1, <4>3
    <3> QED
      BY <1>15, <3>1
  <2>4. \A x : x \in faults' <=>
          \/ \E c \in found' : c.state = "bare" /\ c.row \notin rows /\ x = <<"bare", c>>
          \/ \E n \in DOMAIN task.listed : task.listed[n].row \in Asked \ rows /\ n \notin used' /\ x = <<"stale", n>>
    <3>1. \A x : x \in faults <=>
            \/ \E c \in found : c.state = "bare" /\ c.row \notin rows /\ x = <<"bare", c>>
            \/ \E n \in DOMAIN task.listed : task.listed[n].row \in Asked \ rows /\ n \notin used /\ x = <<"stale", n>>
      BY <1>2, <1>10 DEF FaultsAre
    <3>2. faults' = faults
      BY <1>1
    <3> TAKE x
    <3>3. (\E c \in found' : c.state = "bare" /\ c.row \notin rows /\ x = <<"bare", c>>)
            <=> \E c \in found : c.state = "bare" /\ c.row \notin rows /\ x = <<"bare", c>>
      BY <2>2
    <3>4. (\E n \in DOMAIN task.listed : task.listed[n].row \in Asked \ rows /\ n \notin used' /\ x = <<"stale", n>>)
            <=> \E n \in DOMAIN task.listed : task.listed[n].row \in Asked \ rows /\ n \notin used /\ x = <<"stale", n>>
      BY <2>3
    <3> QED
      BY <3>1, <3>2, <3>3, <3>4
  <2>5. (task.listed)' = task.listed /\ exit' = "running" /\ rows' = rows /\ rows # {}
    BY <1>1, <1>4, <2>1
  <2> QED
    BY <1>3, <1>10, <2>4, <2>5 DEF FaultsAre
<1>18. CutIs'
  BY <1>1 DEF CutIs
<1> QED
  BY <1>1, <1>2, <1>13, <1>14, <1>16, <1>17, <1>18 DEF ClaimsInv

\* A row ended has its bare candidates and its unused listed lines for faults; the last gives the status.
LEMMA ClaimsInvEnd ==
  ASSUME ClaimsInv, EndRow
  PROVE  ClaimsInv'
<1>1. /\ doing = "idle" /\ rows # {} /\ file = Len(task.files) /\ rows' = rows \ {Row} /\ file' = 0
      /\ UNCHANGED <<task, found, used, doing>>
      /\ faults' = faults \cup {<<"bare", c>> : c \in {c \in found : c.row = Row /\ c.state = "bare"}}
                          \cup {<<"stale", k>> : k \in {k \in DOMAIN task.listed : task.listed[k].row = Row} \ used}
      /\ exit' = IF rows' # {} THEN "running" ELSE IF faults' = {} THEN "0" ELSE "1"
  BY DEF EndRow
<1>2. task \in Tasks \cup {NoTask} /\ PhaseIs /\ CutIs /\ FoundIs /\ UsedIs /\ FaultsAre
  BY <1>1 DEF ClaimsInv
<1>3. /\ Asked' = Asked /\ There' = There
      /\ \A r, i : ReadsFile(r, i)' <=> ReadsFile(r, i)
  BY <1>1, TaskSame
<1>4. Started /\ Row \in rows /\ Row \in Asked /\ task.git /\ There # {} /\ task.asked \subseteq DOMAIN PathsOf /\ rows \subseteq Asked
  <2>1. Started
    BY <1>1 DEF Started
  <2> QED
    BY <1>1, <1>2, <2>1, RowIs DEF PhaseIs
<1>5. rows' # {} => exit' = "running"
  BY <1>1
<1>6. rows' = {} => exit' \in {"0", "1"} /\ (exit' = "0" <=> faults' = {})
  BY <1>1
<1>7. Started'
  <2>1. (task.asked)' = task.asked
    BY <1>1
  <2> QED
    BY <1>4, <1>6, <2>1 DEF Started
<1>8. PhaseIs'
  <2>1. Len(task.files) \in Nat
    BY <1>2, TaskIs
  <2>2. /\ task' = task /\ doing' = "idle" /\ file' = 0 /\ exit' \in {"running", "0", "1"}
        /\ rows' # {} => exit' = "running" /\ rows' \subseteq Asked
    BY <1>1, <1>4, <1>5, <1>6
  <2>3. 0 \in 0..Len(task.files)
    BY <2>1
  <2> QED
    BY <1>3, <1>4, <1>7, <2>2, <2>3 DEF PhaseIs
<1>9. \A r, i : Judged(r, i)' <=> Judged(r, i)
  <2> TAKE r, i
  <2>1. i \in DOMAIN task.files => ~(i <= 0) /\ i <= file
    BY <1>1, <1>2, TaskIs
  <2>2. task' = task /\ file' = 0 /\ doing' = "idle" /\ (r \in rows' <=> r \in rows /\ r # Row)
    BY <1>1
  <2> QED
    BY <1>1, <1>3, <1>4, <1>7, <2>1, <2>2 DEF Judged
<1>10. \A r, i, k : ClaimJudged(r, i, k)' <=> ClaimJudged(r, i, k)
  BY <1>1, <1>9 DEF ClaimJudged
<1>11. FoundIs' /\ UsedIs'
  BY <1>1, <1>2, <1>10, FoundSame
<1>12. CutIs'
  BY <1>1 DEF CutIs
<1>13. FaultsAre'
  <2>1. \A x : x \in faults <=>
          \/ \E c \in found : c.state = "bare" /\ c.row \notin rows /\ x = <<"bare", c>>
          \/ \E n \in DOMAIN task.listed : task.listed[n].row \in Asked \ rows /\ n \notin used /\ x = <<"stale", n>>
    BY <1>2, <1>4 DEF FaultsAre
  <2>2. \A x : x \in faults' <=>
          \/ x \in faults
          \/ \E c \in found : c.row = Row /\ c.state = "bare" /\ x = <<"bare", c>>
          \/ \E n \in DOMAIN task.listed : task.listed[n].row = Row /\ n \notin used /\ x = <<"stale", n>>
    BY <1>1
  <2>3. \A r : r \notin rows' <=> r \notin rows \/ r = Row
    BY <1>1
  <2>4. \A x : x \in faults' <=>
          \/ \E c \in found : c.state = "bare" /\ c.row \notin rows' /\ x = <<"bare", c>>
          \/ \E n \in DOMAIN task.listed : task.listed[n].row \in Asked \ rows' /\ n \notin used /\ x = <<"stale", n>>
    <3> TAKE x
    <3>1. (\E c \in found : c.state = "bare" /\ c.row \notin rows' /\ x = <<"bare", c>>) <=>
            \/ \E c \in found : c.state = "bare" /\ c.row \notin rows /\ x = <<"bare", c>>
            \/ \E c \in found : c.row = Row /\ c.state = "bare" /\ x = <<"bare", c>>
      BY <2>3
    <3>2. (\E n \in DOMAIN task.listed : task.listed[n].row \in Asked \ rows' /\ n \notin used /\ x = <<"stale", n>>) <=>
            \/ \E n \in DOMAIN task.listed : task.listed[n].row \in Asked \ rows /\ n \notin used /\ x = <<"stale", n>>
            \/ \E n \in DOMAIN task.listed : task.listed[n].row = Row /\ n \notin used /\ x = <<"stale", n>>
      BY <1>4, <2>3
    <3> QED
      BY <2>1, <2>2, <3>1, <3>2
  <2>5. task' = task /\ found' = found /\ used' = used
    BY <1>1
  <2> QED
    BY <1>3, <1>5, <1>6, <2>4, <2>5 DEF FaultsAre
<1> QED
  BY <1>1, <1>2, <1>8, <1>11, <1>12, <1>13 DEF ClaimsInv

\* The command decls leaves the claims alone, and so does a step that changes nothing.
LEMMA ClaimsInvIdle ==
  ASSUME ClaimsInv, RunDecls \/ UNCHANGED claimsVars
  PROVE  ClaimsInv'
<1>1. task \in Tasks \cup {NoTask} /\ task' = task
  BY DEF ClaimsInv, RunDecls, claimsVars
<1>2. CASE RunDecls
  <2>1. doing' = "decls"
    BY <1>2 DEF RunDecls
  <2> QED
    BY <1>1, <2>1 DEF ClaimsInv
<1>3. CASE UNCHANGED claimsVars
  <2>1. UNCHANGED <<task, rows, file, lines, at, cur, head, block, paras, found, used, doing, faults, exit>>
    BY <1>3 DEF claimsVars, cutVars, declsVars
  <2>2. ASSUME doing # "decls" PROVE PhaseIs' /\ CutIs' /\ FoundIs' /\ UsedIs' /\ FaultsAre'
    <3>1. PhaseIs /\ CutIs /\ FoundIs /\ UsedIs /\ FaultsAre
      BY <2>2 DEF ClaimsInv
    <3>2. /\ Asked' = Asked /\ There' = There
          /\ \A r, i : ReadsFile(r, i)' <=> ReadsFile(r, i)
      BY <2>1, TaskSame
    <3>3. /\ (Started' <=> Started) /\ Row' = Row
          /\ \A r, i, k : ClaimJudged(r, i, k)' <=> ClaimJudged(r, i, k)
      BY <2>1, JudgedSame
    <3>4. PhaseIs'
      BY <2>1, <3>1, <3>2, <3>3 DEF PhaseIs
    <3>5. FoundIs' /\ UsedIs'
      BY <2>1, <3>1, <3>3, FoundSame
    <3>6. FaultsAre'
      BY <2>1, <3>1, FaultsSame
    <3>7. CutIs'
      <4>1. File' = File
        BY <2>1 DEF File
      <4>2. PICK f : f = File
        OBVIOUS
      <4>3. CASE doing = "cut"
        <5>1. /\ rows # {} /\ file \in DOMAIN task.files /\ ReadsFile(Row, file)
              /\ lines = Prose(f) /\ at \in 0..Len(lines)
              /\ Begun(f, at) /\ CutTo(f, paras, cur, at)
          BY <3>1, <4>2, <4>3 DEF CutIs
        <5>2. Begun(File, at)' /\ CutTo(File, paras, cur, at)'
          BY <2>1, <4>1, <4>2, <5>1 DEF Begun, CutTo
        <5>3. ReadsFile(Row, file)'
          <6>1. (task.files)' = task.files /\ file' = file
            BY <2>1
          <6> QED
            BY <3>2, <3>3, <5>1, <6>1 DEF ReadsFile
        <5>4. rows' # {} /\ file' \in DOMAIN task'.files /\ lines' = Prose(File') /\ at' \in 0..Len(lines')
          BY <2>1, <4>1, <4>2, <5>1
        <5> QED
          BY <4>1, <5>2, <5>3, <5>4 DEF CutIs
      <4>4. CASE doing # "cut"
        BY <2>1, <4>4 DEF CutIs
      <4> QED
        BY <4>3, <4>4
    <3> QED
      BY <3>4, <3>5, <3>6, <3>7
  <2> QED
    BY <1>1, <2>1, <2>2 DEF ClaimsInv
<1> QED
  BY <1>2, <1>3

\* The inductive invariant of the check of claims: whatever the files, the listed lines and the rows
\* asked for, what is found, used and at fault is what the reference has for the files judged.
THEOREM ClaimsInvariant == ClaimsSpec => []ClaimsInv
<1>1. ClaimsInit => ClaimsInv
  BY ClaimsInvInit
<1>2. ClaimsInv /\ [ClaimsNext]_claimsVars => ClaimsInv'
  <2> SUFFICES ASSUME ClaimsInv, [ClaimsNext]_claimsVars PROVE ClaimsInv'
    OBVIOUS
  <2>1. CASE ClaimsUnreadable \/ NoSuchRow
    BY <2>1, ClaimsInvEarly
  <2>2. CASE TakeRows
    BY <2>2, ClaimsInvTake
  <2>3. CASE OpenFile
    BY <2>3, ClaimsInvOpen
  <2>4. CASE EndBlock \/ StartParagraph \/ GoOn
    BY <2>4, ClaimsInvCut
  <2>5. CASE JudgeFile
    BY <2>5, ClaimsInvJudge
  <2>6. CASE EndRow
    BY <2>6, ClaimsInvEnd
  <2>7. CASE RunDecls \/ UNCHANGED claimsVars
    BY <2>7, ClaimsInvIdle
  <2> QED
    BY <2>1, <2>2, <2>3, <2>4, <2>5, <2>6, <2>7 DEF ClaimsNext
<1> QED
  BY <1>1, <1>2, PTL DEF ClaimsSpec


\* A claim of the rows asked for is one in a file that its row reads.
LEMMA AllClaimsIs ==
  /\ \A c : c \in AllClaims <=>
       \E r, i, k : /\ r \in Asked /\ i \in DOMAIN task.files /\ ReadsFile(r, i)
                    /\ k \in DOMAIN task.files[i].lines /\ ClaimAt(task.files[i], r, k) /\ c = <<r, i, k>>
  /\ \A r, i, k : /\ IsBare(<<r, i, k>>) <=> ~NearTexts(task.files[i], r, k)
                  /\ HeldBy(<<r, i, k>>) = Held(task.files[i], r, k)
<1> DEFINE Q == {q \in Asked \X DOMAIN task.files : ReadsFile(q[1], q[2])}
           K(q) == {<<q[1], q[2], k>> : k \in {k \in DOMAIN task.files[q[2]].lines : ClaimAt(task.files[q[2]], q[1], k)}}
<1>1. \A c : c \in AllClaims <=> \E q \in Q : c \in K(q)
  BY DEF AllClaims
<1>2. \A q : q \in Q <=> \E r, i : r \in Asked /\ i \in DOMAIN task.files /\ ReadsFile(r, i) /\ q = <<r, i>>
  OBVIOUS
<1>3. \A c, r, i : c \in K(<<r, i>>) <=> \E k : k \in DOMAIN task.files[i].lines /\ ClaimAt(task.files[i], r, k) /\ c = <<r, i, k>>
  OBVIOUS
<1> HIDE DEF Q, K
<1>4. \A c : c \in AllClaims <=>
        \E r, i, k : /\ r \in Asked /\ i \in DOMAIN task.files /\ ReadsFile(r, i)
                     /\ k \in DOMAIN task.files[i].lines /\ ClaimAt(task.files[i], r, k) /\ c = <<r, i, k>>
  <2>1. ASSUME NEW c \in AllClaims
        PROVE  \E r, i, k : /\ r \in Asked /\ i \in DOMAIN task.files /\ ReadsFile(r, i)
                            /\ k \in DOMAIN task.files[i].lines /\ ClaimAt(task.files[i], r, k) /\ c = <<r, i, k>>
    <3>1. PICK q \in Q : c \in K(q)
      BY <1>1
    <3>2. PICK r, i : r \in Asked /\ i \in DOMAIN task.files /\ ReadsFile(r, i) /\ q = <<r, i>>
      BY <1>2
    <3>3. PICK k : k \in DOMAIN task.files[i].lines /\ ClaimAt(task.files[i], r, k) /\ c = <<r, i, k>>
      BY <1>3, <3>1, <3>2
    <3> QED
      BY <3>2, <3>3
  <2>2. ASSUME NEW r \in Asked, NEW i \in DOMAIN task.files, ReadsFile(r, i),
               NEW k \in DOMAIN task.files[i].lines, ClaimAt(task.files[i], r, k)
        PROVE  <<r, i, k>> \in AllClaims
    <3>1. <<r, i>> \in Q
      BY <1>2, <2>2
    <3>2. <<r, i, k>> \in K(<<r, i>>)
      BY <1>3, <2>2
    <3> QED
      BY <1>1, <3>1, <3>2
  <2> QED
    BY <2>1, <2>2
<1>5. \A r, i, k : /\ IsBare(<<r, i, k>>) <=> ~NearTexts(task.files[i], r, k)
                   /\ HeldBy(<<r, i, k>>) = Held(task.files[i], r, k)
  BY NearIs DEF IsBare, HeldBy
<1> QED
  BY <1>4, <1>5

\* At a check's end each row is ended: a claim is judged when it is one of those asked for.
LEMMA ClaimsEnded ==
  ASSUME ClaimsInv, Checked
  PROVE  /\ Started /\ rows = {} /\ PhaseIs /\ FoundIs /\ UsedIs /\ FaultsAre
         /\ \A r, i, k : ClaimJudged(r, i, k) <=> <<r, i, k>> \in AllClaims
<1>1. doing = "idle" /\ exit \in {"0", "1"} /\ task.asked \subseteq DOMAIN PathsOf
  BY DEF Checked
<1>2. PhaseIs /\ FoundIs /\ UsedIs /\ FaultsAre
  BY <1>1 DEF ClaimsInv
<1>3. rows = {} /\ Started
  BY <1>1, <1>2 DEF PhaseIs, Started
<1>4. \A r, i : Judged(r, i) <=> r \in Asked /\ i \in DOMAIN task.files /\ ReadsFile(r, i)
  BY <1>3 DEF Judged
<1>5. \A r, i, k : ClaimJudged(r, i, k) <=> <<r, i, k>> \in AllClaims
  <2> TAKE r, i, k
  <2>1. <<r, i, k>> \in AllClaims <=>
          /\ r \in Asked /\ i \in DOMAIN task.files /\ ReadsFile(r, i)
          /\ k \in DOMAIN task.files[i].lines /\ ClaimAt(task.files[i], r, k)
    <3>1. \A s, j, l : <<r, i, k>> = <<s, j, l>> <=> r = s /\ i = j /\ k = l
      OBVIOUS
    <3> QED
      BY <3>1, AllClaimsIs
  <2> QED
    BY <1>4, <2>1 DEF ClaimJudged
<1> QED
  BY <1>2, <1>3, <1>5

\* The candidates of a check are the claims its header describes, and each is carried when a correction
\* is near it as the header says, or in a namesake of its section, and only then: the paragraphs,
\* sentences, fences and records that claims.py cuts a file into are those of the file, whatever the file.
THEOREM CandidatesAreTheClaims == ClaimsSpec => []ClaimsAsWritten
<1>1. ClaimsInv => ClaimsAsWritten
  <2> SUFFICES ASSUME ClaimsInv, Checked PROVE EveryClaimJudged /\ CorrectionIsNear
    BY DEF ClaimsAsWritten
  <2>1. /\ FoundIs
        /\ \A r, i, k : ClaimJudged(r, i, k) <=> <<r, i, k>> \in AllClaims
    BY ClaimsEnded
  <2>2. \A c \in AllClaims : \E r, i, k : c = <<r, i, k>>
    BY AllClaimsIs
  <2>3. EveryClaimJudged
    <3> DEFINE S == {<<c.row, c.file, c.line>> : c \in found}
    <3>1. ASSUME NEW q \in S PROVE q \in AllClaims
      <4>1. PICK c \in found : q = <<c.row, c.file, c.line>>
        OBVIOUS
      <4> QED
        BY <2>1, <4>1 DEF FoundIs
    <3>2. ASSUME NEW q \in AllClaims PROVE q \in S
      <4>1. PICK r, i, k : q = <<r, i, k>>
        BY <2>2
      <4>2. PICK c \in found : c.row = r /\ c.file = i /\ c.line = k
        BY <2>1, <4>1 DEF FoundIs
      <4> QED
        BY <4>1, <4>2
    <3> HIDE DEF S
    <3>3. S = AllClaims
      BY <3>1, <3>2
    <3> QED
      BY <3>3 DEF S, EveryClaimJudged
  <2>4. CorrectionIsNear
    BY <2>1, AllClaimsIs DEF FoundIs, CorrectionIsNear
  <2> QED
    BY <2>3, <2>4
<1> QED
  BY <1>1, ClaimsInvariant, PTL

\* A listed line is called stale exactly when no bare claim holds it but those an earlier line takes:
\* a line that goes on excusing a claim is never called stale, and one that excuses none always is.
THEOREM StaleLinesExcuseNothing == ClaimsSpec => []StaleIsUnheld
<1>1. ClaimsInv => StaleIsUnheld
  <2> SUFFICES ASSUME ClaimsInv, Checked, NEW n \in DOMAIN task.listed, task.listed[n].row \in Asked
               PROVE  <<"stale", n>> \in faults <=>
                        \A c \in AllClaims : IsBare(c) /\ n \in HeldBy(c) => \E j \in HeldBy(c) : j < n
    BY DEF StaleIsUnheld
  <2>1. /\ Started /\ rows = {} /\ UsedIs /\ FaultsAre
        /\ \A r, i, k : ClaimJudged(r, i, k) <=> <<r, i, k>> \in AllClaims
    BY ClaimsEnded
  <2>2. <<"stale", n>> \in faults <=> n \notin used
    <3>1. <<"stale", n>> \in faults <=>
            \/ \E c \in found : c.state = "bare" /\ c.row \notin rows /\ <<"stale", n>> = <<"bare", c>>
            \/ \E m \in DOMAIN task.listed : task.listed[m].row \in Asked \ rows /\ m \notin used /\ <<"stale", n>> = <<"stale", m>>
      BY <2>1 DEF FaultsAre
    <3>2. (\A c : <<"stale", n>> # <<"bare", c>>) /\ \A m : <<"stale", n>> = <<"stale", m>> <=> n = m
      OBVIOUS
    <3> QED
      BY <2>1, <3>1, <3>2
  <2>3. n \in used <=> \E c \in AllClaims : IsBare(c) /\ HeldBy(c) # {} /\ n = Min(HeldBy(c))
    <3>1. \A r, i, k : /\ IsBare(<<r, i, k>>) <=> ~NearTexts(task.files[i], r, k)
                       /\ HeldBy(<<r, i, k>>) = Held(task.files[i], r, k)
      BY AllClaimsIs
    <3>2. ASSUME n \in used PROVE \E c \in AllClaims : IsBare(c) /\ HeldBy(c) # {} /\ n = Min(HeldBy(c))
      <4>1. PICK r, i, k : /\ ClaimJudged(r, i, k) /\ ~NearTexts(task.files[i], r, k)
                           /\ Held(task.files[i], r, k) # {} /\ n = Min(Held(task.files[i], r, k))
        BY <2>1, <3>2 DEF UsedIs
      <4> DEFINE c == <<r, i, k>>
      <4>2. c \in AllClaims /\ IsBare(c) /\ HeldBy(c) = Held(task.files[i], r, k)
        BY <2>1, <3>1, <4>1
      <4> HIDE DEF c
      <4> QED
        BY <4>1, <4>2
    <3>3. ASSUME NEW c \in AllClaims, IsBare(c), HeldBy(c) # {}, n = Min(HeldBy(c)) PROVE n \in used
      <4>1. PICK r, i, k : c = <<r, i, k>>
        BY AllClaimsIs
      <4>2. /\ ClaimJudged(r, i, k) /\ ~NearTexts(task.files[i], r, k)
            /\ Held(task.files[i], r, k) # {} /\ n = Min(Held(task.files[i], r, k))
        BY <2>1, <3>1, <3>3, <4>1
      <4> QED
        BY <2>1, <4>2 DEF UsedIs
    <3> QED
      BY <3>2, <3>3
  <2>4. \A c : HeldBy(c) \subseteq Nat
    BY TaskIs DEF ClaimsInv, HeldBy, Held
  <2>5. ASSUME NEW c PROVE (HeldBy(c) # {} /\ n = Min(HeldBy(c))) <=> (n \in HeldBy(c) /\ ~\E j \in HeldBy(c) : j < n)
    <3> DEFINE T == HeldBy(c)
    <3>1. T \subseteq Nat
      BY <2>4
    <3> HIDE DEF T
    <3>2. T # {} => Min(T) \in T /\ \A y \in T : Min(T) <= y
      BY <3>1, MinIs
    <3>3. ASSUME T # {}, n = Min(T) PROVE n \in T /\ ~\E j \in T : j < n
      BY <3>1, <3>2, <3>3
    <3>4. ASSUME n \in T, ~\E j \in T : j < n PROVE T # {} /\ n = Min(T)
      <4>1. Min(T) \in T /\ Min(T) <= n /\ ~(Min(T) < n)
        BY <3>2, <3>4
      <4>2. Min(T) \in Nat /\ n \in Nat
        BY <3>1, <3>4, <4>1
      <4> QED
        BY <3>4, <4>1, <4>2
    <3> QED
      BY <3>3, <3>4 DEF T
  <2> QED
    BY <2>2, <2>3, <2>5
<1> QED
  BY <1>1, ClaimsInvariant, PTL

\* The status of the check is true: 0 when files were read and each bare claim of theirs is listed,
\* 1 when some row is unknown, some bare claim is not listed or some listed line is stale, 2 when the
\* tree cannot be read.
THEOREM StatusOfClaimsIsTrue == ClaimsSpec => []ExitIsTrue
<1>1. ClaimsInv => ExitIsTrue
  <2> SUFFICES ASSUME ClaimsInv, doing = "idle"
               PROVE  /\ exit = "0" => There # {} /\ \A c \in AllClaims : IsBare(c) => HeldBy(c) # {}
                      /\ exit = "1" => \/ task.asked \ DOMAIN PathsOf # {}
                                       \/ \E c \in AllClaims : IsBare(c) /\ HeldBy(c) = {}
                                       \/ \E k \in DOMAIN task.listed : task.listed[k].row \in Asked /\ <<"stale", k>> \in faults
                      /\ exit = "2" => ~task.git \/ There = {}
    BY DEF ExitIsTrue
  <2>1. PhaseIs
    BY DEF ClaimsInv
  <2>2. /\ \A r, i, k : /\ IsBare(<<r, i, k>>) <=> ~NearTexts(task.files[i], r, k)
                        /\ HeldBy(<<r, i, k>>) = Held(task.files[i], r, k)
        /\ \A c \in AllClaims : \E r, i, k : c = <<r, i, k>>
    BY AllClaimsIs
  <2>3. CASE Checked
    <3>1. /\ Started /\ rows = {} /\ FoundIs /\ FaultsAre /\ exit # "running" /\ exit # "2"
          /\ \A r, i, k : ClaimJudged(r, i, k) <=> <<r, i, k>> \in AllClaims
      BY <2>3, ClaimsEnded DEF Checked
    <3>2. exit = "0" <=> faults = {}
      BY <3>1 DEF FaultsAre
    <3>3. \A x : x \in faults <=>
            \/ \E c \in found : c.state = "bare" /\ x = <<"bare", c>>
            \/ \E n \in DOMAIN task.listed : task.listed[n].row \in Asked /\ n \notin used /\ x = <<"stale", n>>
      <4>1. \A x : x \in faults <=>
              \/ \E c \in found : c.state = "bare" /\ c.row \notin rows /\ x = <<"bare", c>>
              \/ \E n \in DOMAIN task.listed : task.listed[n].row \in Asked \ rows /\ n \notin used /\ x = <<"stale", n>>
        BY <3>1 DEF FaultsAre
      <4>2. \A r : r \notin rows /\ Asked \ rows = Asked
        BY <3>1
      <4> QED
        BY <4>1, <4>2
    <3>4. ASSUME exit = "0" PROVE There # {} /\ \A c \in AllClaims : IsBare(c) => HeldBy(c) # {}
      <4>1. There # {}
        BY <2>1, <3>1 DEF PhaseIs
      <4>2. ASSUME NEW c \in AllClaims, IsBare(c), HeldBy(c) = {} PROVE FALSE
        <5>1. PICK r, i, k : c = <<r, i, k>>
          BY <2>2
        <5>2. PICK d \in found : d.row = r /\ d.file = i /\ d.line = k
          BY <3>1, <5>1 DEF FoundIs
        <5>3. ~NearTexts(task.files[i], r, k) /\ Held(task.files[i], r, k) = {}
          BY <2>2, <4>2, <5>1
        <5>4. d.state = "bare"
          BY <3>1, <5>2, <5>3 DEF FoundIs
        <5>5. <<"bare", d>> \in faults
          BY <3>3, <5>4
        <5> QED
          BY <3>2, <3>4, <5>5
      <4> QED
        BY <4>1, <4>2
    <3>5. ASSUME exit = "1"
          PROVE  \/ \E c \in AllClaims : IsBare(c) /\ HeldBy(c) = {}
                 \/ \E k \in DOMAIN task.listed : task.listed[k].row \in Asked /\ <<"stale", k>> \in faults
      <4>1. PICK x : x \in faults
        BY <3>2, <3>5
      <4>2. CASE \E c \in found : c.state = "bare" /\ x = <<"bare", c>>
        <5>1. PICK c \in found : c.state = "bare"
          BY <4>2
        <5>2. ClaimJudged(c.row, c.file, c.line) /\ ~NearTexts(task.files[c.file], c.row, c.line) /\ Held(task.files[c.file], c.row, c.line) = {}
          BY <3>1, <5>1 DEF FoundIs
        <5> DEFINE q == <<c.row, c.file, c.line>>
        <5>3. q \in AllClaims /\ IsBare(q) /\ HeldBy(q) = {}
          BY <2>2, <3>1, <5>2
        <5> HIDE DEF q
        <5> QED
          BY <5>3
      <4>3. CASE \E n \in DOMAIN task.listed : task.listed[n].row \in Asked /\ n \notin used /\ x = <<"stale", n>>
        BY <4>1, <4>3
      <4> QED
        BY <3>3, <4>1, <4>2, <4>3
    <3> QED
      BY <3>1, <3>4, <3>5
  <2>4. CASE ~Checked
    <3>1. exit = "0" => FALSE
      BY <2>1, <2>4 DEF PhaseIs, Checked, Started
    <3>2. exit = "1" => task.asked \ DOMAIN PathsOf # {}
      BY <2>4 DEF Checked
    <3>3. exit = "2" => ~task.git \/ There = {}
      BY <2>1 DEF PhaseIs
    <3> QED
      BY <3>1, <3>2, <3>3
  <2> QED
    BY <2>3, <2>4
<1> QED
  BY <1>1, ClaimsInvariant, PTL
=============================================================================
