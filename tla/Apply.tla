------------------------------- MODULE Apply -------------------------------
(***************************************************************************)
(* meta/roadmap/0.0/tools/apply.py: one run of the tool applies one step   *)
(* of the plan, all or nothing, and says ALREADY, APPLY or STOP.  A worker *)
(* runs it for the steps in their order, and again for a step already in.  *)
(*                                                                         *)
(* A plan is the sequence of the cycle's steps (plan_order).  Of a patch   *)
(* it keeps the subcycle, whether its added lines hold @@DATE@@, the       *)
(* earlier steps whose dated lines are in its context and those of whose   *)
(* hunks it rewrites a line, the decisions it declares and cites, and      *)
(* whether an added line misuses a label.                                  *)
(***************************************************************************)
EXTENDS Integers, Sequences, FiniteSets

CONSTANTS
  Plans,      \* sequences of [sub, dated, sees, rewrites, declares, cites, misused]
  Accepted,   \* the decisions that decisions.txt lists
  MaxDay,     \* bound: the days a run may span
  MaxCrashes  \* bound: the times the tool is killed

\* A patch's context holds dates of its own subcycle's earlier steps only, as the docstring asks of a plan.
Patches ==
  [sub : Nat, dated : BOOLEAN, sees : SUBSET Nat, rewrites : SUBSET Nat, declares : SUBSET Nat,
   cites : SUBSET Nat, misused : BOOLEAN]
WellCut(p) ==
  \A k \in DOMAIN p :
    /\ \A j \in p[k].sees : j \in DOMAIN p /\ j < k /\ p[j].sub = p[k].sub /\ p[j].dated
    /\ \A j \in p[k].rewrites : j \in DOMAIN p /\ j < k

ASSUME ApplyAssumption ==
  /\ Plans \subseteq Seq(Patches) /\ \A p \in Plans : p # <<>> /\ WellCut(p)
  /\ MaxDay \in Nat \ {0} /\ MaxCrashes \in Nat

VARIABLES
  plan,
  stamp,    \* the day each step wrote into the tree: Out when it is not in, Undated when it wrote none
  date,     \* .internal/w00/<subcycle>.date: a day, NoFile, or Torn
  today,
  pc,       \* where the tool is; "idle" when none runs
  step, day, recorded,   \* its locals
  said,     \* what its last run said
  crashes,
  lost      \* history: the subcycles whose date was not recorded with the step that wrote it, or was removed

applyVars == <<plan, stamp, date, today, pc, step, day, recorded, said, crashes, lost>>
tool == <<step, day, recorded>>

Out == -1
Undated == 0
NoFile == 0
Torn == -1

Steps == DOMAIN plan
InTree(k) == stamp[k] # Out
Sub(k) == plan[k].sub
Subs == {Sub(k) : k \in Steps}

\* The placeholder is anywhere in the patch.
Dated(k) == plan[k].dated \/ plan[k].sees # {}

Init ==
  /\ plan \in Plans
  /\ stamp = [k \in Steps |-> Out]
  /\ date = [s \in Subs |-> NoFile]
  /\ today = 1 /\ pc = "idle"
  /\ step = 1 /\ day = 0 /\ recorded = FALSE /\ said = "nothing"
  /\ crashes = 0 /\ lost = {}

\* External: the worker takes the steps in order, and may run one again.
StartRun(k) ==
  /\ pc = "idle"
  /\ \A j \in Steps : j < k => InTree(j)
  /\ pc' = "text" /\ step' = k /\ day' = 0 /\ recorded' = FALSE
  /\ UNCHANGED <<plan, stamp, date, today, said, crashes, lost>>

\* External: the subcycle's last step removes the file of the run's date.
RemoveDate(s) ==
  /\ pc = "idle" /\ date[s] # NoFile
  /\ \A k \in Steps : Sub(k) = s => InTree(k)
  /\ date' = [date EXCEPT ![s] = NoFile] /\ lost' = lost \cup {s}
  /\ UNCHANGED <<plan, stamp, today, pc, tool, said, crashes>>

Midnight ==
  /\ today < MaxDay
  /\ today' = today + 1
  /\ UNCHANGED <<plan, stamp, date, pc, tool, said, crashes, lost>>

Say(verdict) == said' = verdict /\ pc' = "idle"

Labels(k) == plan[k].declares \cup plan[k].cites

\* Mutant: a label that some step declares will do, whichever.
DeclaredSomewhere(pd, k) == \E j \in Steps : pd \in plan[j].declares

\* A decision is declared by this step or an earlier one.
DeclaredBy(pd, k) == \E j \in 1..k : pd \in plan[j].declares

\* label_findings and numbers: the step's added lines use labels as they should, and each has its number.
LabelsFine(k) ==
  /\ ~plan[k].misused
  /\ \A pd \in Labels(k) : DeclaredBy(pd, k) /\ pd \in Accepted

\* Mutant: each step's own day.
RunDateToday(k) == day' = today /\ recorded' = FALSE

\* run_date: the recorded day, or today's when none is recorded yet.
RunDate(k) ==
  IF date[Sub(k)] = NoFile THEN day' = today /\ recorded' = FALSE
  ELSE day' = date[Sub(k)] /\ recorded' = TRUE

ReadText ==
  /\ pc = "text" /\ LabelsFine(step)
  /\ Dated(step) => date[Sub(step)] # Torn
  /\ IF Dated(step) THEN RunDate(step) ELSE UNCHANGED <<day, recorded>>
  /\ pc' = "reverse"
  /\ UNCHANGED <<plan, stamp, date, today, step, said, crashes, lost>>

RefuseText ==
  /\ pc = "text"
  /\ LabelsFine(step) => Dated(step) /\ date[Sub(step)] = Torn
  /\ Say("STOP")
  /\ UNCHANGED <<plan, stamp, date, today, tool, crashes, lost>>

\* The lines of a step's hunks, its own and those around them, are as the step has them: no step in the
\* tree has rewritten one.
LinesStand(k) == \A j \in Steps : InTree(j) => k \notin plan[j].rewrites

\* What the patch writes, and its context, under the tool's day.
Wrote == IF plan[step].dated THEN day ELSE Undated
ContextHolds == LinesStand(step) /\ \A j \in plan[step].sees : stamp[j] = day

\* External: git apply --reverse --check, the step is in the tree as this text has it.
Reverses == stamp[step] = Wrote /\ ContextHolds

\* External: git apply --check.
Applies == stamp[step] = Out /\ ContextHolds

\* Mutant: the reverse check is left out.
ReverseCheckNever ==
  /\ pc = "reverse" /\ pc' = "check"
  /\ UNCHANGED <<plan, stamp, date, today, tool, said, crashes, lost>>

ReverseCheck ==
  /\ pc = "reverse"
  /\ IF Reverses THEN Say("ALREADY") ELSE pc' = "check" /\ UNCHANGED said
  /\ UNCHANGED <<plan, stamp, date, today, tool, crashes, lost>>

Check ==
  /\ pc = "check"
  /\ IF Applies THEN pc' = "apply" /\ UNCHANGED said ELSE Say("STOP")
  /\ UNCHANGED <<plan, stamp, date, today, tool, crashes, lost>>

\* The day is recorded by the first dated step that applies.
Record ==
  /\ date' = IF Dated(step) /\ ~recorded THEN [date EXCEPT ![Sub(step)] = day] ELSE date
  /\ Say("APPLY")

\* git apply --index writes the tree; the file of the date is not written yet.
GitApply ==
  /\ pc = "apply"
  /\ stamp' = [stamp EXCEPT ![step] = Wrote]
  /\ pc' = "record"
  /\ UNCHANGED <<plan, date, today, tool, said, crashes, lost>>

\* git fails after its check passed (the index is locked, the disk is full): nothing is written.
GitFails ==
  /\ pc = "apply" /\ Say("STOP")
  /\ UNCHANGED <<plan, stamp, date, today, tool, crashes, lost>>

EndRun ==
  /\ pc = "record" /\ Record
  /\ UNCHANGED <<plan, stamp, today, tool, crashes, lost>>

\* The tool is killed, or the file cannot be written; opening it for writing empties it first.
Crash ==
  /\ pc # "idle" /\ crashes < MaxCrashes
  /\ pc' = "idle" /\ said' = "nothing" /\ crashes' = crashes + 1
  /\ IF pc = "record" /\ Dated(step) /\ ~recorded
     THEN /\ lost' = lost \cup {Sub(step)}
          /\ \E left \in {NoFile, Torn} : date' = [date EXCEPT ![Sub(step)] = left]
     ELSE UNCHANGED <<date, lost>>
  /\ UNCHANGED <<plan, stamp, today, tool>>

Next ==
  \/ \E k \in Steps : StartRun(k)
  \/ \E s \in Subs : RemoveDate(s)
  \/ Midnight \/ ReadText \/ RefuseText \/ ReverseCheck \/ Check \/ GitApply \/ GitFails \/ EndRun \/ Crash

Spec == Init /\ [][Next]_applyVars

-----------------------------------------------------------------------------
(* Properties. *)

Days == 1..MaxDay

TypeOK ==
  /\ plan \in Plans
  /\ stamp \in [Steps -> Days \cup {Out, Undated}]
  /\ date \in [Subs -> Days \cup {NoFile, Torn}]
  /\ today \in Days /\ step \in Steps /\ day \in Days \cup {0} /\ recorded \in BOOLEAN
  /\ pc \in {"idle", "text", "reverse", "check", "apply", "record"}
  /\ said \in {"nothing", "ALREADY", "APPLY", "STOP"}
  /\ crashes \in 0..MaxCrashes /\ lost \subseteq Subs

DatedIn(s) == {k \in Steps : Sub(k) = s /\ plan[k].dated /\ InTree(k)}

\* The docstring's "ONE date for the whole run of its subcycle".
OneDate == \A s \in Subs : \A j, k \in DatedIn(s) : stamp[j] = stamp[k]

\* However many days the run spans, and wherever it is killed, the steps of a subcycle carry one date, the
\* one its file records, as long as the file was written with the first of them.
OneDateWhileRecorded ==
  \A s \in Subs \ lost : \A j, k \in DatedIn(s) :
    /\ stamp[j] = stamp[k]
    /\ pc # "record" => date[s] = stamp[k]

\* At every commit the decision log holds each decision the tree names, and each has its number.
LabelsHeld ==
  \A k \in Steps : InTree(k) =>
    /\ ~plan[k].misused
    /\ \A pd \in Labels(k) : pd \in Accepted /\ \E j \in Steps : InTree(j) /\ pd \in plan[j].declares

\* While the date of its run is on record, a step whose labels are fine is refused, on whatever day and
\* however often it is run, for one cause alone: it is in the tree, and a step in the tree after it has
\* rewritten a line of its hunks.  A step that is not in applies.  (git itself may fail.)
RefusedForCause ==
  pc = "check" /\ Sub(step) \notin lost => Applies \/ (InTree(step) /\ ~LinesStand(step))

\* The docstring's "A re-run reports ALREADY on any day while the file holds the run's date".
RerunIsAlready == pc = "check" /\ InTree(step) => date[Sub(step)] \notin Days
=============================================================================
