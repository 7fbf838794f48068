------------------------------- MODULE Markers -------------------------------
(***************************************************************************)
(* harness/expect.py, read_text: a test file's lines are read one by one   *)
(* for its markers, into the expectation that stages.py judges the unit by *)
(* (Observations' Expectation).  A line that cannot be read is a problem,  *)
(* and a file with a problem is UNREADABLE: its unit fails.                *)
(*                                                                         *)
(* A line is what the reader takes it for: [marker, value], the value      *)
(* Unreadable where the marker's pattern does not match it.                *)
(***************************************************************************)
EXTENDS Integers, Sequences, FiniteSets

CONSTANTS
  Texts,       \* files: sequences of lines
  Codes,       \* diagnostic codes
  Sites,       \* L or L:C
  Waits,       \* what a `pending-until:` can wait on: a defect and one observation of it
  Unreadable, AnySite, NoCap, NoWait

Line ==
  [marker : {"prose", "refused"}, value : {Unreadable}]
    \cup [marker : {"expect-exit", "stress", "mem-cap-mib"}, value : Int \cup {Unreadable}]
    \cup [marker : {"expect-error"}, value : Codes \cup {Unreadable}]
    \cup [marker : {"expect-error-at"}, value : Sites \cup {Unreadable}]
    \cup [marker : {"pending-until"}, value : Waits \cup {Unreadable}]

ASSUME MarkersAssumption ==
  /\ Texts \subseteq Seq(Line)
  /\ Unreadable \notin Int \cup Codes \cup Sites \cup Waits
  /\ AnySite \notin Sites /\ NoCap \notin Int /\ NoWait \notin Waits

VARIABLES
  text, n,     \* the file at hand, and how many of its lines are read
  exit, errors, stress, mem_cap_mib, pending,
  problems     \* the lines that make the file unreadable

markersVars == <<text, n, exit, errors, stress, mem_cap_mib, pending, problems>>
expectation == <<exit, errors, stress, mem_cap_mib, pending>>

Init ==
  /\ text \in Texts /\ n = 0
  /\ exit = 0 /\ errors = <<>> /\ stress = 1 /\ mem_cap_mib = NoCap /\ pending = NoWait
  /\ problems = {}

Marker == text[n + 1].marker
Value  == text[n + 1].value

\* An exit status is one byte, a signal is -1 ... -64.
Observable(v) == v <= 255 /\ v >= -64

\* Mutant: the range is not looked at.
ExitFineAny == Marker = "expect-exit" /\ Value # Unreadable

ExitFine == Marker = "expect-exit" /\ Value # Unreadable /\ Observable(Value)

CountFine == Value # Unreadable /\ Value >= 1

SiteFine == Marker = "expect-error-at" /\ Value # Unreadable /\ errors # <<>>

WaitFine == Marker = "pending-until" /\ Value # Unreadable /\ pending = NoWait

Fine ==
  \/ Marker = "prose"
  \/ ExitFine
  \/ Marker = "expect-error" /\ Value # Unreadable
  \/ SiteFine
  \/ Marker \in {"stress", "mem-cap-mib"} /\ CountFine
  \/ WaitFine

Read == n < Len(text) /\ n' = n + 1 /\ UNCHANGED text

ReadProse ==
  /\ Read /\ Marker = "prose"
  /\ UNCHANGED <<expectation, problems>>

\* A marker this runner does not judge, or a value it cannot read: the line is left, and named.
Refuse ==
  /\ Read /\ ~Fine
  /\ problems' = problems \cup {n + 1}
  /\ UNCHANGED expectation

\* Mutant: the first one wins.
ReadExitOnce ==
  /\ Read /\ ExitFine
  /\ exit' = IF exit = 0 THEN Value ELSE exit
  /\ UNCHANGED <<errors, stress, mem_cap_mib, pending, problems>>

\* The last one wins.
ReadExit ==
  /\ Read /\ ExitFine
  /\ exit' = Value
  /\ UNCHANGED <<errors, stress, mem_cap_mib, pending, problems>>

ReadError ==
  /\ Read /\ Marker = "expect-error" /\ Value # Unreadable
  /\ errors' = Append(errors, [code |-> Value, at |-> AnySite])
  /\ UNCHANGED <<exit, stress, mem_cap_mib, pending, problems>>

\* Mutant: the first error.
MoveSiteFirst ==
  /\ Read /\ SiteFine
  /\ errors' = [errors EXCEPT ![1].at = Value]
  /\ UNCHANGED <<exit, stress, mem_cap_mib, pending, problems>>

\* expect-error-at: moves the last error read.
MoveSite ==
  /\ Read /\ SiteFine
  /\ errors' = [errors EXCEPT ![Len(errors)].at = Value]
  /\ UNCHANGED <<exit, stress, mem_cap_mib, pending, problems>>

ReadStress ==
  /\ Read /\ Marker = "stress" /\ CountFine
  /\ stress' = Value
  /\ UNCHANGED <<exit, errors, mem_cap_mib, pending, problems>>

ReadCap ==
  /\ Read /\ Marker = "mem-cap-mib" /\ CountFine
  /\ mem_cap_mib' = Value
  /\ UNCHANGED <<exit, errors, stress, pending, problems>>

\* A unit waits on one defect.
ReadWait ==
  /\ Read /\ WaitFine
  /\ pending' = Value
  /\ UNCHANGED <<exit, errors, stress, mem_cap_mib, problems>>

Next ==
  \/ ReadProse \/ Refuse \/ ReadExit \/ ReadError \/ MoveSite \/ ReadStress \/ ReadCap \/ ReadWait

Spec == Init /\ [][Next]_markersVars

-----------------------------------------------------------------------------
(* Properties: what the lines read so far say, with no reader's state. *)

Errors == [code : Codes, at : Sites \cup {AnySite}]

TypeOK ==
  /\ text \in Texts /\ n \in 0..Len(text)
  /\ exit \in -64..255 /\ errors \in Seq(Errors)
  /\ stress \in Nat \ {0} /\ mem_cap_mib \in (Nat \ {0}) \cup {NoCap}
  /\ pending \in Waits \cup {NoWait}
  /\ problems \subseteq 1..n

Is(i, marker) == text[i].marker = marker

\* Which of the errors line i stands under: how many `expect-error:` lines there are up to it.
Rank(i) == Cardinality({j \in 1..i : Is(j, "expect-error")})

\* A line is good where it stands: the reference for what makes a file unreadable.
Good(i) ==
  \/ Is(i, "prose")
  \/ /\ text[i].marker \notin {"prose", "refused"} /\ text[i].value # Unreadable
     /\ Is(i, "expect-exit") => Observable(text[i].value)
     /\ Is(i, "stress") \/ Is(i, "mem-cap-mib") => text[i].value > 0
     /\ Is(i, "expect-error-at") =>
          \E j \in 1..i : Is(j, "expect-error") /\ text[j].value # Unreadable
     /\ Is(i, "pending-until") =>
          \A j \in 1..(i - 1) : Is(j, "pending-until") => text[j].value = Unreadable

\* Every line that cannot be read is named, and only those: no expectation is silently defaulted.
ProblemsNamed == problems = {i \in 1..n : ~Good(i)}

\* Of a marker's lines up to line k, x is the last one's value, or the default when there is none.
LastOf(k, marker, x, default) ==
  \/ x = default /\ \A i \in 1..k : ~Is(i, marker)
  \/ \E i \in 1..k : /\ Is(i, marker) /\ x = text[i].value
                     /\ \A j \in (i + 1)..k : ~Is(j, marker)

\* A readable file's numbers and its defect are its last marker's, or the default's.
LastWins ==
  problems = {} =>
    /\ LastOf(n, "expect-exit", exit, 0)
    /\ LastOf(n, "stress", stress, 1)
    /\ LastOf(n, "mem-cap-mib", mem_cap_mib, NoCap)
    /\ LastOf(n, "pending-until", pending, NoWait)

\* The `expect-error-at:` lines under the k-th error.
SitesOf(k) == {j \in 1..n : Is(j, "expect-error-at") /\ Rank(j) = k}

\* A readable file expects one error for each `expect-error:`, in their order, at the site of the last
\* `expect-error-at:` that stands under it, and anywhere when none does.
ErrorsAsWritten ==
  problems = {} =>
    /\ Len(errors) = Rank(n)
    /\ \A i \in 1..n : Is(i, "expect-error") => errors[Rank(i)].code = text[i].value
    /\ \A k \in 1..Len(errors) :
         \/ errors[k].at = AnySite /\ SitesOf(k) = {}
         \/ \E j \in SitesOf(k) : errors[k].at = text[j].value /\ \A i \in SitesOf(k) : i <= j
=============================================================================
