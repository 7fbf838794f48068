----------------------------- MODULE Judgement -----------------------------
(***************************************************************************)
(* What the suites promise run.py, with nothing of how a unit is built,    *)
(* run or compiled: every unit the manifest names and --only selects gets  *)
(* one verdict, in manifest order; a verdict that lets a red unit leave    *)
(* the count is covered by a line of the reviewed list, and that line is   *)
(* marked seen.  Stages.tla implements this module; Harness.tla uses it.   *)
(***************************************************************************)
EXTENDS Sequences, Naturals

CONSTANTS
  Tests,        \* the manifest's entries: [stage, units], in order
  KeyOf,        \* each file's pending key, NoKey when it has no marker
  NoKey,
  PendingList,  \* the keys of the reviewed list
  NoFilter,     \* no --only
  NoUnit        \* what the sweep's verdict is about

VARIABLES
  only,         \* NoFilter, or the files --only selects
  t,            \* the entry at hand
  k,            \* how many of its subjects are judged or left out
  seen,         \* the lines of the list a pending unit matched
  judged        \* the verdicts: [verdict, test, unit]

judgementVars == <<only, t, k, seen, judged>>

\* What an entry judges: its units, or, swept whole and only unfiltered, itself.
Subjects(entry) ==
  IF entry.stage # "parse" THEN entry.units
  ELSE IF only = NoFilter THEN <<NoUnit>> ELSE <<>>

Subject == Subjects(Tests[t])[k + 1]

Selected(unit) == unit # NoUnit /\ only # NoFilter => unit \in only

Marked(unit)   == unit # NoUnit /\ KeyOf[unit] # NoKey
Reviewed(unit) == Marked(unit) /\ KeyOf[unit] \in PendingList

\* The verdicts a unit can have: a marked unit never passes; it is excused or matched only when
\* its line is on the list, and an excused unit's line is seen.
Give(unit, v) ==
  /\ \/ v = "FAIL" /\ seen' = seen
     \/ v = "FAIL" /\ Reviewed(unit) /\ seen' = seen \cup {KeyOf[unit]}
     \/ v = "PASS" /\ ~Marked(unit) /\ seen' = seen
     \/ v = "PEND" /\ Reviewed(unit) /\ seen' = seen \cup {KeyOf[unit]}
  /\ judged' = Append(judged, [verdict |-> v, test |-> t, unit |-> unit])

Reached == t \in DOMAIN Tests /\ k < Len(Subjects(Tests[t]))

\* Some verdict for the next unit of the entry at hand.
JudgeNext ==
  /\ Reached /\ Selected(Subject)
  /\ \E v \in {"PASS", "FAIL", "PEND"} : Give(Subject, v)
  /\ k' = k + 1
  /\ UNCHANGED <<only, t>>

\* One that --only leaves out.
PassOver ==
  /\ Reached /\ ~Selected(Subject)
  /\ k' = k + 1
  /\ UNCHANGED <<only, t, seen, judged>>

\* An entry is left when every one of its units is judged or left out.
NextEntry ==
  /\ t \in DOMAIN Tests /\ k = Len(Subjects(Tests[t]))
  /\ t' = t + 1 /\ k' = 0
  /\ UNCHANGED <<only, seen, judged>>

JudgementInit ==
  /\ t = 1 /\ k = 0 /\ seen = {} /\ judged = <<>>

JudgementNext == JudgeNext \/ PassOver \/ NextEntry

AllJudged == t \notin DOMAIN Tests

JudgementSpec == JudgementInit /\ [][JudgementNext]_judgementVars
=============================================================================
