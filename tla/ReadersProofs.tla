---------------------------- MODULE ReadersProofs ----------------------------
(***************************************************************************)
(* The two readers that go over a file line by line, for every file.       *)
(* Markers: every line that cannot be read is named, and a file with none  *)
(* expects what its markers say, the last one's value and each error at    *)
(* the last site under it.  Manifest: a file is accepted exactly when its  *)
(* lines and its entries keep the rules, and then holds all it gives.      *)
(***************************************************************************)
EXTENDS Markers, Manifest, FiniteSetTheorems, TLAPS

(* The marker reader.  The inductive invariant: the properties, and what `errors` and `pending` remember
   of the lines. *)

ErrorRead == errors # <<>> <=> \E j \in 1..n : Is(j, "expect-error") /\ text[j].value # Unreadable
WaitRead  == pending = NoWait <=> \A j \in 1..n : Is(j, "pending-until") => text[j].value = Unreadable

MarkersInv == TypeOK /\ ProblemsNamed /\ LastWins /\ ErrorsAsWritten /\ ErrorRead /\ WaitRead

-----------------------------------------------------------------------------
(* Lines and ranks. *)

\* A line's value is of its marker's type.
LEMMA LineTypes ==
  ASSUME TypeOK, n < Len(text)
  PROVE  /\ text \in Seq(Line) /\ text[n + 1] \in Line
         /\ Marker \in {"expect-exit", "stress", "mem-cap-mib"} /\ Value # Unreadable => Value \in Int
         /\ Marker = "expect-error" /\ Value # Unreadable => Value \in Codes
         /\ Marker = "expect-error-at" /\ Value # Unreadable => Value \in Sites
         /\ Marker = "pending-until" /\ Value # Unreadable => Value \in Waits
<1>1. text \in Seq(Line)
  BY MarkersAssumption DEF TypeOK
<1>2. n + 1 \in 1..Len(text)
  BY <1>1 DEF TypeOK
<1>3. text[n + 1] \in Line
  BY <1>1, <1>2
<1> QED
  BY <1>1, <1>3 DEF Line, Marker, Value

\* The rank of the next line: one more under an `expect-error:`, else the same.
LEMMA RankStep ==
  ASSUME NEW k \in Nat
  PROVE  /\ Rank(k) \in Nat
         /\ Is(k + 1, "expect-error") => Rank(k + 1) = Rank(k) + 1
         /\ ~Is(k + 1, "expect-error") => Rank(k + 1) = Rank(k)
<1> DEFINE R(i) == {j \in 1..i : Is(j, "expect-error")}
<1>1. IsFiniteSet(1..k) /\ R(k) \subseteq 1..k
  BY FS_Interval
<1>2. IsFiniteSet(R(k)) /\ Cardinality(R(k)) \in Nat
  BY <1>1, FS_Subset, FS_CardinalityType
<1>3. CASE Is(k + 1, "expect-error")
  <2>1. R(k + 1) = R(k) \cup {k + 1} /\ k + 1 \notin R(k)
    BY <1>3
  <2>2. Cardinality(R(k + 1)) = Cardinality(R(k)) + 1
    BY <2>1, <1>2, FS_AddElement
  <2> QED
    BY <2>2, <1>2, <1>3 DEF Rank
<1>4. CASE ~Is(k + 1, "expect-error")
  <2>1. R(k + 1) = R(k)
    BY <1>4
  <2> QED
    BY <2>1, <1>2, <1>4 DEF Rank
<1> QED
  BY <1>3, <1>4

\* Before the first line no error is read.
LEMMA RankZero == Rank(0) = 0
<1>1. {j \in 1..0 : Is(j, "expect-error")} = {}
  OBVIOUS
<1> QED
  BY <1>1, FS_EmptySet DEF Rank

\* Ranks grow with the lines, and an error's own is at least 1.
LEMMA RankBounds ==
  ASSUME NEW i \in Nat, NEW k \in Nat, i <= k
  PROVE  /\ Rank(i) \in Nat /\ Rank(k) \in Nat /\ Rank(i) <= Rank(k)
         /\ i > 0 /\ Is(i, "expect-error") => Rank(i) >= 1
<1> DEFINE R(m) == {j \in 1..m : Is(j, "expect-error")}
<1>1. IsFiniteSet(1..k) /\ R(k) \subseteq 1..k /\ R(i) \subseteq R(k)
  BY FS_Interval
<1>2. IsFiniteSet(R(k))
  BY <1>1, FS_Subset
<1>3. IsFiniteSet(R(i)) /\ Cardinality(R(i)) <= Cardinality(R(k))
  BY <1>1, <1>2, FS_Subset
<1>4. Rank(i) \in Nat /\ Rank(k) \in Nat /\ Rank(i) <= Rank(k)
  BY <1>2, <1>3, FS_CardinalityType DEF Rank
<1>5. ASSUME i > 0, Is(i, "expect-error") PROVE Rank(i) >= 1
  <2>1. i - 1 \in Nat /\ i = (i - 1) + 1
    BY <1>5
  <2>2. Rank(i) = Rank(i - 1) + 1 /\ Rank(i - 1) \in Nat
    BY <2>1, <1>5, RankStep
  <2> QED
    BY <2>2
<1> QED
  BY <1>4, <1>5

-----------------------------------------------------------------------------
(* The steps, one conjunct of the invariant at a time. *)

\* A reader that has read nothing keeps the invariant.
LEMMA MarkersInit == Init => MarkersInv
<1> SUFFICES ASSUME Init PROVE MarkersInv
  OBVIOUS
<1>0. text \in Seq(Line) /\ Len(text) \in Nat
  BY MarkersAssumption DEF Init
<1>1. TypeOK
  BY <1>0 DEF Init, TypeOK
<1>2. ProblemsNamed /\ LastWins /\ ErrorRead /\ WaitRead
  BY DEF Init, ProblemsNamed, LastWins, LastOf, ErrorRead, WaitRead
<1>3. ErrorsAsWritten
  BY RankZero DEF Init, ErrorsAsWritten
<1> QED
  BY <1>1, <1>2, <1>3 DEF MarkersInv

\* Every step reads the next line.
LEMMA StepReads ==
  ASSUME Next
  PROVE  n < Len(text) /\ n' = n + 1 /\ text' = text
  BY DEF Next, Read, ReadProse, Refuse, ReadExit, ReadError, MoveSite, ReadStress, ReadCap, ReadWait

\* Every step keeps the types.
LEMMA TypeStep ==
  ASSUME TypeOK, Next
  PROVE  TypeOK'
<1>1. n < Len(text) /\ n' = n + 1 /\ text' = text
  BY StepReads
<1>2. text \in Seq(Line) /\ Len(text) \in Nat
  BY <1>1, LineTypes
<1>3. text' \in Texts /\ n' \in 0..Len(text')
  BY <1>1, <1>2 DEF TypeOK
<1>4. problems' \subseteq 1..n'
  BY <1>1 DEF TypeOK, Next, ReadProse, Refuse, ReadExit, ReadError, MoveSite, ReadStress, ReadCap, ReadWait,
     expectation
<1>5. CASE ReadProse \/ Refuse
  BY <1>5, <1>3, <1>4 DEF ReadProse, Refuse, expectation, TypeOK
<1>6. CASE ReadExit
  <2>1. Value \in Int /\ Observable(Value)
    BY <1>1, <1>6, LineTypes DEF ReadExit, ExitFine
  <2>2. exit' = Value
    BY <1>6 DEF ReadExit
  <2>3. exit' \in -64..255
    BY <2>1, <2>2 DEF Observable
  <2> QED
    BY <2>3, <1>6, <1>3, <1>4 DEF ReadExit, TypeOK
<1>7. CASE ReadError
  <2>1. [code |-> Value, at |-> AnySite] \in Errors
    BY <1>1, <1>7, LineTypes DEF ReadError, Errors
  <2>2. errors' \in Seq(Errors)
    BY <2>1, <1>7 DEF ReadError, TypeOK
  <2> QED
    BY <2>2, <1>7, <1>3, <1>4 DEF ReadError, TypeOK
<1>8. CASE MoveSite
  <2>1. Value \in Sites
    BY <1>1, <1>8, LineTypes DEF MoveSite, SiteFine
  <2>2. Len(errors) \in DOMAIN errors /\ errors \in Seq(Errors)
    BY <1>8 DEF MoveSite, SiteFine, TypeOK
  <2>3. [errors[Len(errors)] EXCEPT !.at = Value] \in Errors
    <3>1. errors[Len(errors)] \in Errors
      BY <2>2
    <3> QED
      BY <3>1, <2>1 DEF Errors
  <2>4. errors' \in Seq(Errors)
    BY <2>2, <2>3, <1>8 DEF MoveSite
  <2> QED
    BY <2>4, <1>8, <1>3, <1>4 DEF MoveSite, TypeOK
<1>9. CASE ReadStress \/ ReadCap
  <2>1. Value \in Nat \ {0}
    BY <1>1, <1>9, LineTypes DEF ReadStress, ReadCap, CountFine
  <2> QED
    BY <2>1, <1>9, <1>3, <1>4 DEF ReadStress, ReadCap, TypeOK
<1>10. CASE ReadWait
  <2>1. Value \in Waits
    BY <1>1, <1>10, LineTypes DEF ReadWait, WaitFine
  <2> QED
    BY <2>1, <1>10, <1>3, <1>4 DEF ReadWait, TypeOK
<1> QED
  BY <1>5, <1>6, <1>7, <1>8, <1>9, <1>10 DEF Next

\* The reader takes a line for fine exactly when it is good where it stands.
LEMMA FineIsGood ==
  ASSUME TypeOK, ErrorRead, WaitRead, n < Len(text)
  PROVE  Fine <=> Good(n + 1)
<1>0. n \in Nat /\ text[n + 1] \in Line
  BY LineTypes DEF TypeOK
<1>1. Marker \in {"prose", "refused", "expect-exit", "stress", "mem-cap-mib", "expect-error",
                 "expect-error-at", "pending-until"}
  BY <1>0 DEF Line, Marker
<1>2. ASSUME Marker = "expect-error-at"
      PROVE  errors # <<>> <=> \E j \in 1..(n + 1) : Is(j, "expect-error") /\ text[j].value # Unreadable
  BY <1>0, <1>2 DEF ErrorRead, Is, Marker
<1>3. pending = NoWait <=>
        \A j \in 1..((n + 1) - 1) : Is(j, "pending-until") => text[j].value = Unreadable
  BY <1>0 DEF WaitRead
<1>4. ASSUME Marker \in {"stress", "mem-cap-mib"}, Value # Unreadable
      PROVE  Value >= 1 <=> Value > 0
  BY <1>4, LineTypes
<1>5. CASE Marker \in {"prose", "refused", "expect-exit", "stress", "mem-cap-mib", "expect-error"}
  BY <1>4, <1>5 DEF Fine, Good, Is, Marker, Value, ExitFine, CountFine, SiteFine, WaitFine
<1>6. CASE Marker = "expect-error-at"
  BY <1>2, <1>6 DEF Fine, Good, Is, Marker, Value, ExitFine, CountFine, SiteFine, WaitFine
<1>7. CASE Marker = "pending-until"
  BY <1>3, <1>7 DEF Fine, Good, Is, Marker, Value, ExitFine, CountFine, SiteFine, WaitFine
<1> QED
  BY <1>1, <1>5, <1>6, <1>7

\* Every step keeps the problems named so far exact.
LEMMA ProblemsStep ==
  ASSUME MarkersInv, Next
  PROVE  ProblemsNamed'
<1>1. /\ n < Len(text) /\ n' = n + 1 /\ text' = text /\ n \in Nat
      /\ TypeOK /\ ErrorRead /\ WaitRead /\ ProblemsNamed
  BY StepReads DEF MarkersInv, TypeOK
<1>2. Fine <=> Good(n + 1)
  BY <1>1, FineIsGood
<1>3. \A i : Good(i)' <=> Good(i)
  BY <1>1 DEF Good, Is
<1>4. {i \in 1..(n + 1) : ~Good(i)} =
        {i \in 1..n : ~Good(i)} \cup (IF Good(n + 1) THEN {} ELSE {n + 1})
  BY <1>1
<1>5. problems' = problems \cup (IF Fine THEN {} ELSE {n + 1})
  BY DEF Next, ReadProse, Refuse, ReadExit, ReadError, MoveSite, ReadStress, ReadCap, ReadWait, Fine,
     ExitFine, SiteFine, WaitFine
<1>6. problems' = {i \in 1..(n + 1) : ~Good(i)}
  BY <1>1, <1>2, <1>4, <1>5 DEF ProblemsNamed
<1> QED
  BY <1>1, <1>3, <1>6 DEF ProblemsNamed

\* Every step keeps what is remembered of the lines read.
LEMMA SeenStep ==
  ASSUME MarkersInv, Next
  PROVE  ErrorRead' /\ WaitRead'
<1>1. /\ n < Len(text) /\ n' = n + 1 /\ text' = text /\ n \in Nat
      /\ TypeOK /\ ErrorRead /\ WaitRead
  BY StepReads DEF MarkersInv, TypeOK
<1>2. errors \in Seq(Errors)
  BY <1>1 DEF TypeOK
<1>3. errors' # <<>> <=> (errors # <<>> \/ (Marker = "expect-error" /\ Value # Unreadable))
  <2>1. CASE ReadError
    BY <2>1, <1>2 DEF ReadError
  <2>2. CASE MoveSite
    BY <2>2, <1>2 DEF MoveSite, SiteFine
  <2>3. CASE ReadProse \/ Refuse \/ ReadExit \/ ReadStress \/ ReadCap \/ ReadWait
    BY <2>3 DEF ReadProse, Refuse, ReadExit, ReadStress, ReadCap, ReadWait, Fine, ExitFine, WaitFine,
       expectation
  <2> QED
    BY <2>1, <2>2, <2>3 DEF Next
<1>4. ErrorRead'
  BY <1>1, <1>3 DEF ErrorRead, Is, Marker, Value
<1>5. pending' = NoWait <=> (pending = NoWait /\ (Marker = "pending-until" => Value = Unreadable))
  <2>1. CASE ReadWait
    <3>1. Value \in Waits
      BY <1>1, <2>1, LineTypes DEF ReadWait, WaitFine
    <3> QED
      BY <3>1, <2>1, MarkersAssumption DEF ReadWait, WaitFine
  <2>2. CASE ReadProse \/ Refuse \/ ReadExit \/ ReadStress \/ ReadCap \/ ReadError \/ MoveSite
    BY <2>2 DEF ReadProse, Refuse, ReadExit, ReadStress, ReadCap, ReadError, MoveSite, Fine, ExitFine,
       SiteFine, WaitFine, expectation
  <2> QED
    BY <2>1, <2>2 DEF Next
<1>6. WaitRead'
  BY <1>1, <1>5 DEF WaitRead, Is, Marker, Value
<1> QED
  BY <1>4, <1>6

\* A line of another marker leaves the last one last; a line of the marker is the last one.
LEMMA LastMoves ==
  ASSUME NEW k \in Nat, NEW m, NEW x, NEW d
  PROVE  /\ ~Is(k + 1, m) /\ LastOf(k, m, x, d) => LastOf(k + 1, m, x, d)
         /\ Is(k + 1, m) /\ x = text[k + 1].value => LastOf(k + 1, m, x, d)
<1>1. 1..(k + 1) = 1..k \cup {k + 1} /\ \A i \in 1..k : (i + 1)..(k + 1) = ((i + 1)..k) \cup {k + 1}
  OBVIOUS
<1>2. ASSUME ~Is(k + 1, m), LastOf(k, m, x, d) PROVE LastOf(k + 1, m, x, d)
  BY <1>1, <1>2 DEF LastOf
<1>3. ASSUME Is(k + 1, m), x = text[k + 1].value PROVE LastOf(k + 1, m, x, d)
  <2>1. k + 1 \in 1..(k + 1) /\ ((k + 1) + 1)..(k + 1) = {}
    OBVIOUS
  <2> QED
    BY <2>1, <1>3 DEF LastOf
<1> QED
  BY <1>2, <1>3

\* Every step keeps each value that of its last line.
LEMMA LastStep ==
  ASSUME MarkersInv, Next
  PROVE  LastWins'
<1> SUFFICES ASSUME problems' = {} PROVE LastWins'
  BY DEF LastWins
<1>1. n < Len(text) /\ n' = n + 1 /\ text' = text /\ n \in Nat /\ TypeOK
  BY StepReads DEF MarkersInv, TypeOK
<1>2. problems = {} /\ ~Refuse
  BY DEF Next, ReadProse, Refuse, ReadExit, ReadError, MoveSite, ReadStress, ReadCap, ReadWait
<1>3. /\ LastOf(n, "expect-exit", exit, 0) /\ LastOf(n, "stress", stress, 1)
      /\ LastOf(n, "mem-cap-mib", mem_cap_mib, NoCap) /\ LastOf(n, "pending-until", pending, NoWait)
  BY <1>2 DEF MarkersInv, LastWins
<1>4. ReadProse \/ ReadExit \/ ReadError \/ MoveSite \/ ReadStress \/ ReadCap \/ ReadWait
  BY <1>2 DEF Next
<1>5. LastOf(n + 1, "expect-exit", exit', 0)
  <2>1. \/ Is(n + 1, "expect-exit") /\ exit' = text[n + 1].value
        \/ ~Is(n + 1, "expect-exit") /\ exit' = exit
    BY <1>4 DEF Is, Marker, Value, ReadProse, ReadExit, ReadError, MoveSite, ReadStress, ReadCap, ReadWait,
       ExitFine, SiteFine, WaitFine, expectation
  <2> QED
    BY <2>1, <1>1, <1>3, LastMoves
<1>6. LastOf(n + 1, "stress", stress', 1)
  <2>1. \/ Is(n + 1, "stress") /\ stress' = text[n + 1].value
        \/ ~Is(n + 1, "stress") /\ stress' = stress
    BY <1>4 DEF Is, Marker, Value, ReadProse, ReadExit, ReadError, MoveSite, ReadStress, ReadCap, ReadWait,
       ExitFine, SiteFine, WaitFine, expectation
  <2> QED
    BY <2>1, <1>1, <1>3, LastMoves
<1>7. LastOf(n + 1, "mem-cap-mib", mem_cap_mib', NoCap)
  <2>1. \/ Is(n + 1, "mem-cap-mib") /\ mem_cap_mib' = text[n + 1].value
        \/ ~Is(n + 1, "mem-cap-mib") /\ mem_cap_mib' = mem_cap_mib
    BY <1>4 DEF Is, Marker, Value, ReadProse, ReadExit, ReadError, MoveSite, ReadStress, ReadCap, ReadWait,
       ExitFine, SiteFine, WaitFine, expectation
  <2> QED
    BY <2>1, <1>1, <1>3, LastMoves
<1>8. LastOf(n + 1, "pending-until", pending', NoWait)
  <2>1. \/ Is(n + 1, "pending-until") /\ pending' = text[n + 1].value
        \/ ~Is(n + 1, "pending-until") /\ pending' = pending
    BY <1>4 DEF Is, Marker, Value, ReadProse, ReadExit, ReadError, MoveSite, ReadStress, ReadCap, ReadWait,
       ExitFine, SiteFine, WaitFine, expectation
  <2> QED
    BY <2>1, <1>1, <1>3, LastMoves
<1> QED
  BY <1>1, <1>5, <1>6, <1>7, <1>8 DEF LastWins, LastOf, Is

\* The errors and their sites, when the line read is an error, a site, or neither.
LEMMA ErrorsStep ==
  ASSUME MarkersInv, Next, problems' = {}
  PROVE  ErrorsAsWritten'
<1>1. /\ n < Len(text) /\ n' = n + 1 /\ text' = text /\ n \in Nat /\ TypeOK
      /\ errors \in Seq(Errors)
  BY StepReads DEF MarkersInv, TypeOK
<1>2. problems = {} /\ ~Refuse
  BY DEF Next, ReadProse, Refuse, ReadExit, ReadError, MoveSite, ReadStress, ReadCap, ReadWait
<1>3. ReadProse \/ ReadExit \/ ReadError \/ MoveSite \/ ReadStress \/ ReadCap \/ ReadWait
  BY <1>2 DEF Next
<1>4. /\ Len(errors) = Rank(n)
      /\ \A i \in 1..n : Is(i, "expect-error") => errors[Rank(i)].code = text[i].value
      /\ \A k \in 1..Len(errors) :
           \/ errors[k].at = AnySite /\ SitesOf(k) = {}
           \/ \E j \in SitesOf(k) : errors[k].at = text[j].value /\ \A i \in SitesOf(k) : i <= j
  BY <1>2 DEF MarkersInv, ErrorsAsWritten
<1> DEFINE Sites1(k) == {j \in 1..(n + 1) : Is(j, "expect-error-at") /\ Rank(j) = k}
           Written == /\ Len(errors') = Rank(n + 1)
                      /\ \A i \in 1..(n + 1) : Is(i, "expect-error") => errors'[Rank(i)].code = text[i].value
                      /\ \A k \in 1..Len(errors') :
                           \/ errors'[k].at = AnySite /\ Sites1(k) = {}
                           \/ \E j \in Sites1(k) :
                                errors'[k].at = text[j].value /\ \A i \in Sites1(k) : i <= j
<1>5. \A i \in 1..n : /\ Rank(i) \in Nat /\ Rank(i) <= Rank(n)
                      /\ Is(i, "expect-error") => Rank(i) >= 1
  <2> TAKE i \in 1..n
  <2>1. i \in Nat /\ n \in Nat /\ i <= n /\ i > 0
    BY <1>1
  <2>2. QED BY <2>1, RankBounds
<1>6. \A k : Sites1(k) = SitesOf(k) \cup
                (IF Is(n + 1, "expect-error-at") /\ Rank(n + 1) = k THEN {n + 1} ELSE {})
  BY <1>1 DEF SitesOf
<1> HIDE DEF Written
<1>7. ASSUME ReadError PROVE Written
  <2>1. /\ Is(n + 1, "expect-error") /\ ~Is(n + 1, "expect-error-at")
        /\ errors' = Append(errors, [code |-> text[n + 1].value, at |-> AnySite])
    BY <1>7 DEF ReadError, Is, Marker, Value
  <2>2. Rank(n + 1) = Rank(n) + 1 /\ Rank(n) \in Nat
    BY <2>1, <1>1, RankStep
  <2>3. /\ Len(errors') = Rank(n + 1) /\ errors'[Rank(n + 1)] = [code |-> text[n + 1].value, at |-> AnySite]
        /\ \A k \in 1..Len(errors) : errors'[k] = errors[k]
    BY <2>1, <2>2, <1>1, <1>4
  <2>4. \A i \in 1..(n + 1) : Is(i, "expect-error") => errors'[Rank(i)].code = text[i].value
    BY <2>3, <1>1, <1>4, <1>5
  <2>5. \A k : Sites1(k) = SitesOf(k)
    BY <2>1, <1>6
  <2>6. SitesOf(Rank(n + 1)) = {}
    BY <2>2, <1>1, <1>5 DEF SitesOf
  <2>7. \A k \in 1..Len(errors') :
          \/ errors'[k].at = AnySite /\ SitesOf(k) = {}
          \/ \E j \in SitesOf(k) : errors'[k].at = text[j].value /\ \A i \in SitesOf(k) : i <= j
    BY <2>2, <2>3, <2>6, <1>4
  <2> QED
    <3> HIDE DEF Sites1
    <3> QED
      BY <2>3, <2>4, <2>5, <2>7 DEF Written
<1>8. ASSUME MoveSite PROVE Written
  <2>1. /\ Is(n + 1, "expect-error-at") /\ ~Is(n + 1, "expect-error") /\ errors # <<>>
        /\ errors' = [errors EXCEPT ![Len(errors)].at = text[n + 1].value]
    BY <1>8 DEF MoveSite, SiteFine, Is, Marker, Value
  <2>2. Rank(n + 1) = Rank(n) /\ Rank(n) \in Nat
    BY <2>1, <1>1, RankStep
  <2>3. /\ Len(errors') = Len(errors)
        /\ \A k \in 1..Len(errors) : k # Len(errors) => errors'[k] = errors[k]
        /\ Len(errors) \in 1..Len(errors)
        /\ errors'[Len(errors)] = [errors[Len(errors)] EXCEPT !.at = text[n + 1].value]
        /\ errors[Len(errors)] \in Errors
    BY <2>1, <1>1
  <2>4. \A k \in 1..Len(errors) : errors'[k].code = errors[k].code
    BY <2>3 DEF Errors
  <2>5. \A i \in 1..(n + 1) : Is(i, "expect-error") => errors'[Rank(i)].code = text[i].value
    BY <2>1, <2>4, <1>1, <1>4, <1>5
  <2>6. ASSUME NEW k \in 1..Len(errors), k # Len(errors)
        PROVE  Sites1(k) = SitesOf(k) /\ errors'[k] = errors[k]
    BY <2>2, <2>3, <2>6, <1>4, <1>6
  <2>7. errors'[Len(errors)].at = text[n + 1].value /\ n + 1 \in Sites1(Len(errors))
    BY <2>1, <2>2, <2>3, <1>1, <1>4 DEF Errors
  <2>8. \A i \in Sites1(Len(errors)) : i <= n + 1
    OBVIOUS
  <2>9. \A k \in 1..Len(errors') :
          \/ errors'[k].at = AnySite /\ Sites1(k) = {}
          \/ \E j \in Sites1(k) : errors'[k].at = text[j].value /\ \A i \in Sites1(k) : i <= j
    <3> HIDE DEF Sites1
    <3> QED
      BY <2>3, <2>6, <2>7, <2>8, <1>4
  <2> QED
    <3> HIDE DEF Sites1
    <3> QED
      BY <2>2, <2>3, <2>5, <2>9, <1>4 DEF Written
<1>9. ASSUME ReadProse \/ ReadExit \/ ReadStress \/ ReadCap \/ ReadWait PROVE Written
  <2>1. ~Is(n + 1, "expect-error-at") /\ ~Is(n + 1, "expect-error") /\ errors' = errors
    BY <1>9 DEF ReadProse, ReadExit, ReadStress, ReadCap, ReadWait, ExitFine, WaitFine, Is, Marker, expectation
  <2>2. Rank(n + 1) = Rank(n)
    BY <2>1, <1>1, RankStep
  <2>3. \A k : Sites1(k) = SitesOf(k)
    BY <2>1, <1>6
  <2>4. \A i \in 1..(n + 1) : Is(i, "expect-error") => errors'[Rank(i)].code = text[i].value
    BY <2>1, <1>1, <1>4
  <2> QED
    <3> HIDE DEF Sites1
    <3> QED
      BY <2>1, <2>2, <2>3, <2>4, <1>4 DEF Written
<1>10. Written
  BY <1>3, <1>7, <1>8, <1>9
<1>11. \A i : Is(i, "expect-error")' <=> Is(i, "expect-error")
  BY <1>1 DEF Is
<1>12. \A k : Rank(k)' = Rank(k)
  BY <1>11 DEF Rank
<1>13. \A k : SitesOf(k)' = Sites1(k)
  BY <1>1, <1>12 DEF SitesOf, Is
<1> QED
  <2>1. \A i : Is(i, "expect-error")' => text'[i].value = text[i].value
    BY <1>1
  <2> HIDE DEF Sites1
  <2> QED
    BY <1>10, <1>1, <1>11, <1>12, <1>13, <2>1 DEF ErrorsAsWritten, Written

\* Every step keeps the invariant.
LEMMA MarkersStep == MarkersInv /\ [Next]_markersVars => MarkersInv'
<1>1. ASSUME MarkersInv, Next PROVE MarkersInv'
  <2>1. TypeOK'
    BY <1>1, TypeStep DEF MarkersInv
  <2>2. ErrorsAsWritten'
    BY <1>1, ErrorsStep DEF ErrorsAsWritten
  <2> QED
    BY <2>1, <2>2, <1>1, ProblemsStep, SeenStep, LastStep DEF MarkersInv
<1>2. ASSUME MarkersInv, UNCHANGED markersVars PROVE MarkersInv'
  <2>1. (TypeOK /\ ProblemsNamed /\ ErrorRead /\ WaitRead)'
    BY <1>2 DEF MarkersInv, markersVars, TypeOK, ProblemsNamed, Good, Is, ErrorRead, WaitRead
  <2>2. LastWins'
    BY <1>2 DEF MarkersInv, markersVars, LastWins, LastOf, Is
  <2>3. text' = text /\ n' = n /\ errors' = errors /\ problems' = problems
    BY <1>2 DEF markersVars
  <2>4. \A k : SitesOf(k)' = SitesOf(k) /\ Rank(k)' = Rank(k)
    BY <2>3 DEF SitesOf, Rank, Is
  <2>5. ErrorsAsWritten'
    BY <1>2, <2>3, <2>4 DEF MarkersInv, ErrorsAsWritten, Is
  <2> QED
    BY <2>1, <2>2, <2>5 DEF MarkersInv
<1> QED
  BY <1>1, <1>2

\* The inductive invariant holds in every run.
LEMMA MarkersAlways == Spec => []MarkersInv
  BY MarkersInit, MarkersStep, PTL DEF Spec

-----------------------------------------------------------------------------
(* Theorems of the marker reader. *)

\* The type invariant of the reader: a readable exit is one that can be observed.
THEOREM MarkersTypes == Spec => []TypeOK
  BY MarkersAlways, PTL DEF MarkersInv

\* Every line that cannot be read is named, whatever the others are.
THEOREM NothingDefaulted == Spec => []ProblemsNamed
  BY MarkersAlways, PTL DEF MarkersInv

\* A readable file's numbers are its last markers'.
THEOREM LastMarkerWins == Spec => []LastWins
  BY MarkersAlways, PTL DEF MarkersInv

\* A readable file's errors are its `expect-error:` lines, each at the last site under it.
THEOREM ErrorsAreWritten == Spec => []ErrorsAsWritten
  BY MarkersAlways, PTL DEF MarkersInv

-----------------------------------------------------------------------------
(* The manifest reader.  The inductive invariant: what the lines read so far leave behind, and what the
   checks of the entries have found. *)

\* The number of the [[test]] entry a line is in, and what takes the keys under a header.
EntryOf(h)  == Cardinality({g \in EntryHeaders : g <= h})
TargetOf(h) == [section |-> file[h].section, at |-> IF file[h].kind = "array" THEN EntryOf(h) ELSE 0]

\* A header is one of the schema's.
HeaderFine(h) ==
  IF file[h].kind = "array" THEN file[h].section = "test" ELSE TableKnown(file[h].section)

\* A line keeps the rules where it stands: LinesHold, of one line and those before it.
LineFine(i) ==
  /\ file[i].kind # "other"
  /\ i \in Headers => HeaderFine(i)
  /\ i \in Keys =>
       /\ file[i].value # BadValue
       /\ \E h \in Headers : HeaderOf(i, h) /\ KeyAllowed(file[h].section, file[i].key)
       /\ \A j \in Keys : j < i /\ (Together(i, j) \/ Together(j, i)) => file[j].key # file[i].key

\* Of the first k lines, the last header, if there is one, is where the next key goes.
LastHeader(k, h) == h \in Headers /\ h <= k /\ \A g \in Headers : g <= k => g <= h
AimedAt(k, t) ==
  \/ t = Nowhere /\ \A h \in Headers : h > k
  \/ \E h \in Headers : LastHeader(k, h) /\ t = TargetOf(h)

\* The keys among the first k lines that go to t.
KeysTo(k, t) == {i \in Keys : i <= k /\ \E h \in Headers : HeaderOf(i, h) /\ TargetOf(h) = t}

\* The tables and entries are those of the first k lines, each with its keys and their values.
HeldTo(k, f) ==
  /\ DOMAIN f = {TargetOf(h) : h \in {g \in Headers : g <= k}}
  /\ \A t \in DOMAIN f : /\ DOMAIN f[t] = {file[i].key : i \in KeysTo(k, t)}
                         /\ \A i \in KeysTo(k, t) : f[t][file[i].key] = file[i].value

\* The entries are numbered in the order of their headers.
Numbered(k, e) ==
  e = EntryOf(k) /\ \A i \in 1..e : \E h \in EntryHeaders : h <= k /\ EntryOf(h) = i

LinesRight(k, t, f, e) ==
  (\A i \in 1..k : LineFine(i)) /\ AimedAt(k, t) /\ HeldTo(k, f) /\ Numbered(k, e)

\* An entry keeps the rules, but for its name being its own.
Alone(i) ==
  /\ Has(i, "name") /\ Has(i, "stage") /\ Entry(i)["name"] # ListValue
  /\ Entry(i)["stage"] \in Stages
  /\ Has(i, "kind") => Entry(i)["kind"] \in Kinds
  /\ Has(i, "path") # Has(i, "paths")

EntriesRight ==
  /\ \A i \in 1..checked : Alone(i)
  /\ \A i, j \in 1..checked : Entry(i)["name"] = Entry(j)["name"] => i = j
  /\ seen = {Entry(i)["name"] : i \in 1..checked}

\* The type invariant of the reader.
ManifestTypeOK ==
  /\ file \in Files /\ past \in 0..Len(file) /\ entries \in Nat /\ checked \in 0..entries
  /\ pc \in {"lines", "entries", "refused", "raised", "accepted"}
  /\ pc = "lines" => checked = 0
  /\ pc \in {"entries", "accepted", "raised"} => past = Len(file)
  /\ pc = "accepted" => checked = entries

ManifestInv ==
  /\ ManifestTypeOK
  /\ LinesRight(past, target, held, entries) /\ EntriesRight
  /\ pc \in {"refused", "raised"} => ~(LinesHold /\ EntriesHold)

-----------------------------------------------------------------------------
(* The numbers of the entries. *)

\* A file is a sequence: its headers and keys are among its lines.
LEMMA FileLines ==
  ASSUME file \in Files
  PROVE  /\ Len(file) \in Nat /\ DOMAIN file = 1..Len(file)
         /\ Headers \subseteq 1..Len(file) /\ Keys \subseteq 1..Len(file)
         /\ EntryHeaders \subseteq Headers
<1>1. file \in Seq({file[i] : i \in DOMAIN file})
  BY ManifestAssumption
<1>2. Len(file) \in Nat /\ DOMAIN file = 1..Len(file)
  BY <1>1
<1> QED
  BY <1>2 DEF Headers, Keys, EntryHeaders

\* The next line's entry: one more at a [[test]] header, else the same.
LEMMA EntryOfStep ==
  ASSUME file \in Files, NEW k \in Nat
  PROVE  /\ EntryOf(k) \in Nat
         /\ k + 1 \in EntryHeaders => EntryOf(k + 1) = EntryOf(k) + 1
         /\ k + 1 \notin EntryHeaders => EntryOf(k + 1) = EntryOf(k)
<1> DEFINE E(i) == {g \in EntryHeaders : g <= i}
<1>1. \A g \in EntryHeaders : g \in Nat /\ g > 0
  BY FileLines
<1>2. IsFiniteSet(1..k) /\ E(k) \subseteq 1..k
  BY <1>1, FS_Interval
<1>3. IsFiniteSet(E(k)) /\ Cardinality(E(k)) \in Nat
  BY <1>2, FS_Subset, FS_CardinalityType
<1>4. CASE k + 1 \in EntryHeaders
  <2>1. E(k + 1) = E(k) \cup {k + 1} /\ k + 1 \notin E(k)
    BY <1>1, <1>4
  <2>2. Cardinality(E(k + 1)) = Cardinality(E(k)) + 1
    BY <2>1, <1>3, FS_AddElement
  <2> QED
    BY <2>2, <1>3, <1>4 DEF EntryOf
<1>5. CASE k + 1 \notin EntryHeaders
  <2>1. E(k + 1) = E(k)
    BY <1>1, <1>5
  <2> QED
    BY <2>1, <1>3, <1>5 DEF EntryOf
<1> QED
  BY <1>4, <1>5

\* Entries are numbered upwards: a later [[test]] header has a greater number.
LEMMA EntryOfGrows ==
  ASSUME file \in Files, NEW g \in Nat, NEW h \in EntryHeaders, g < h
  PROVE  EntryOf(g) \in Nat /\ EntryOf(h) \in Nat /\ EntryOf(g) < EntryOf(h)
<1> DEFINE E(i) == {x \in EntryHeaders : x <= i}
<1>1. \A x \in EntryHeaders : x \in Nat /\ x > 0
  BY FileLines
<1>2. h \in Nat /\ IsFiniteSet(1..h)
  BY <1>1, FS_Interval
<1>3. \A i \in Nat : E(i) \subseteq 1..i
  BY <1>1
<1>4. IsFiniteSet(E(h))
  BY <1>2, <1>3, FS_Subset
<1>5. E(g) \subseteq E(h) /\ E(g) # E(h)
  <2>1. \A i \in Nat : g < i => E(g) \subseteq E(i)
    BY <1>1
  <2>2. h \in E(h) /\ h \notin E(g)
    BY <1>2
  <2> QED
    BY <2>1, <2>2, <1>2
<1>6. /\ IsFiniteSet(E(g)) /\ Cardinality(E(g)) <= Cardinality(E(h))
      /\ Cardinality(E(g)) # Cardinality(E(h))
  <2> HIDE DEF E
  <2> QED
    BY <1>4, <1>5, FS_Subset
<1>7. Cardinality(E(g)) \in Nat /\ Cardinality(E(h)) \in Nat
  BY <1>4, <1>6, FS_CardinalityType
<1> QED
  BY <1>6, <1>7 DEF EntryOf

\* Two [[test]] headers have two numbers.
LEMMA EntryOfOnce ==
  ASSUME file \in Files, NEW g \in EntryHeaders, NEW h \in EntryHeaders, EntryOf(g) = EntryOf(h)
  PROVE  g = h
<1>1. g \in Nat /\ h \in Nat
  BY FileLines
<1>2. ~(g < h)
  <2>1. ASSUME g < h PROVE FALSE
    <3>1. EntryOf(g) < EntryOf(h) /\ EntryOf(g) \in Nat
      BY <1>1, <2>1, EntryOfGrows
    <3> QED BY <3>1
  <2> QED BY <2>1
<1>3. ~(h < g)
  <2>1. ASSUME h < g PROVE FALSE
    <3>1. EntryOf(h) < EntryOf(g) /\ EntryOf(g) \in Nat
      BY <1>1, <2>1, EntryOfGrows
    <3> QED BY <3>1
  <2> QED BY <2>1
<1> QED
  BY <1>1, <1>2, <1>3

-----------------------------------------------------------------------------
(* Headers, and what their keys go to. *)

\* The header a line is under is the last one before it.
LEMMA HeaderIsLast ==
  ASSUME file \in Files, NEW k \in Nat, NEW h
  PROVE  HeaderOf(k + 1, h) <=> LastHeader(k, h)
<1>1. \A g \in Headers : g \in Nat
  BY FileLines
<1>2. \A g \in Headers : g < k + 1 <=> g <= k
  BY <1>1
<1> QED
  BY <1>1, <1>2 DEF HeaderOf, LastHeader

\* A line is under one header.
LEMMA OneHeader ==
  ASSUME file \in Files, NEW i \in Nat, NEW g, NEW h, HeaderOf(i, g), HeaderOf(i, h)
  PROVE  g = h
<1>1. g \in Nat /\ h \in Nat
  BY FileLines DEF HeaderOf
<1> QED
  BY <1>1 DEF HeaderOf

\* A header of the schema has a name, and that of a table is not an entry's.
LEMMA HeaderNames ==
  ASSUME NEW h \in Headers, HeaderFine(h)
  PROVE  /\ file[h].section # "" /\ TargetOf(h) # Nowhere
         /\ file[h].kind = "array" <=> file[h].section = "test"
         /\ h \in EntryHeaders <=> file[h].kind = "array"
<1>1. file[h].section # ""
  BY ManifestAssumption DEF HeaderFine, TableKnown
<1>2. TargetOf(h) # Nowhere
  BY <1>1 DEF TargetOf, Nowhere
<1> QED
  BY <1>1, <1>2 DEF HeaderFine, TableKnown, EntryHeaders

\* Keys go to one place exactly when they are under one entry's header, or under headers of one table.
LEMMA SameTarget ==
  ASSUME file \in Files, NEW g \in Headers, NEW h \in Headers, HeaderFine(g), HeaderFine(h)
  PROVE  TargetOf(g) = TargetOf(h) <=>
           file[g].section = file[h].section /\ (file[g].kind = "array" => g = h)
<1>1. /\ file[g].kind = "array" <=> file[g].section = "test"
      /\ file[h].kind = "array" <=> file[h].section = "test"
      /\ g \in EntryHeaders <=> file[g].kind = "array"
      /\ h \in EntryHeaders <=> file[h].kind = "array"
  BY HeaderNames
<1>2. TargetOf(g) = TargetOf(h) <=>
        /\ file[g].section = file[h].section
        /\ (IF file[g].kind = "array" THEN EntryOf(g) ELSE 0) = (IF file[h].kind = "array" THEN EntryOf(h) ELSE 0)
  BY DEF TargetOf
<1>3. CASE file[g].kind = "array" /\ file[h].kind = "array"
  <2>1. EntryOf(g) = EntryOf(h) <=> g = h
    BY <1>1, <1>3, EntryOfOnce
  <2> QED BY <2>1, <1>2, <1>3
<1>4. CASE ~(file[g].kind = "array" /\ file[h].kind = "array")
  BY <1>1, <1>2, <1>4
<1> QED
  BY <1>3, <1>4
-----------------------------------------------------------------------------
(* One line. *)

\* The lines keep the rules together exactly when each keeps them where it stands.
LEMMA LinesHoldByLine ==
  ASSUME file \in Files
  PROVE  LinesHold <=> \A i \in 1..Len(file) : LineFine(i)
<1>1. /\ DOMAIN file = 1..Len(file) /\ Headers \subseteq DOMAIN file /\ Keys \subseteq DOMAIN file
      /\ \A i \in Keys : i \in Nat
  BY FileLines
<1>2. ASSUME LinesHold, NEW i \in 1..Len(file) PROVE LineFine(i)
  <2>1. file[i].kind # "other" /\ (i \in Headers => HeaderFine(i))
    BY <1>1, <1>2 DEF LinesHold, HeaderFine
  <2>2. ASSUME i \in Keys
        PROVE  /\ file[i].value # BadValue
               /\ \E h \in Headers : HeaderOf(i, h) /\ KeyAllowed(file[h].section, file[i].key)
    BY <1>2, <2>2 DEF LinesHold
  <2>3. ASSUME i \in Keys, NEW j \in Keys, j < i, Together(i, j) \/ Together(j, i), file[j].key = file[i].key
        PROVE  FALSE
    <3>1. i = j
      BY <1>2, <2>3 DEF LinesHold
    <3> QED
      BY <3>1, <2>3, <1>1
  <2> QED
    BY <2>1, <2>2, <2>3 DEF LineFine
<1>3. ASSUME \A i \in 1..Len(file) : LineFine(i) PROVE LinesHold
  <2>1. \A i \in DOMAIN file : file[i].kind # "other"
    BY <1>1, <1>3 DEF LineFine
  <2>2. \A h \in Headers : HeaderFine(h)
    BY <1>1, <1>3 DEF LineFine
  <2>3. \A i \in Keys : /\ file[i].value # BadValue
                        /\ \E h \in Headers : HeaderOf(i, h) /\ KeyAllowed(file[h].section, file[i].key)
    BY <1>1, <1>3 DEF LineFine
  <2>4. ASSUME NEW i \in Keys, NEW j \in Keys, Together(i, j), file[i].key = file[j].key PROVE i = j
    <3>1. ~(j < i) /\ ~(i < j)
      BY <1>1, <1>3, <2>4 DEF LineFine
    <3> QED
      BY <3>1, <1>1
  <2> QED
    BY <2>1, <2>2, <2>3, <2>4 DEF LinesHold, HeaderFine
<1> QED
  BY <1>2, <1>3

\* Keys belong together exactly when they go to one place.
LEMMA TogetherIsTarget ==
  ASSUME file \in Files, NEW i \in Nat, NEW j \in Nat, NEW g \in Headers, NEW h \in Headers,
         HeaderOf(i, g), HeaderOf(j, h), HeaderFine(g), HeaderFine(h)
  PROVE  Together(i, j) \/ Together(j, i) <=> TargetOf(g) = TargetOf(h)
<1>1. /\ \A x \in Headers : HeaderOf(i, x) <=> x = g
      /\ \A x \in Headers : HeaderOf(j, x) <=> x = h
  BY OneHeader
<1>2. /\ Together(i, j) <=> file[g].section = file[h].section /\ (file[g].kind = "array" => g = h)
      /\ Together(j, i) <=> file[h].section = file[g].section /\ (file[h].kind = "array" => h = g)
  BY <1>1 DEF Together
<1>3. /\ TargetOf(g) = TargetOf(h) <=>
           file[g].section = file[h].section /\ (file[g].kind = "array" => g = h)
      /\ TargetOf(h) = TargetOf(g) <=>
           file[h].section = file[g].section /\ (file[h].kind = "array" => h = g)
  BY SameTarget
<1> QED
  BY <1>2, <1>3

\* Of the lines read, each header is the schema's, and each key is under one.
LEMMA ReadLines ==
  ASSUME file \in Files, NEW k \in 0..Len(file), \A i \in 1..k : LineFine(i)
  PROVE  /\ \A h \in Headers : h <= k => HeaderFine(h)
         /\ \A j \in Keys : j <= k => \E g \in Headers : HeaderOf(j, g) /\ g < j /\ HeaderFine(g)
<1>1. /\ \A h \in Headers : h \in Nat /\ h > 0
      /\ \A j \in Keys : j \in Nat /\ j > 0
      /\ k \in Nat
  BY FileLines
<1>2. \A h \in Headers : h <= k => HeaderFine(h)
  BY <1>1 DEF LineFine
<1>3. ASSUME NEW j \in Keys, j <= k PROVE \E g \in Headers : HeaderOf(j, g) /\ g < j /\ HeaderFine(g)
  <2>1. LineFine(j)
    BY <1>1, <1>3
  <2>2. PICK g \in Headers : HeaderOf(j, g)
    BY <2>1, <1>3 DEF LineFine
  <2>3. g < j
    BY <2>2 DEF HeaderOf
  <2>4. g <= k
    BY <2>3, <1>1, <1>3
  <2> QED
    BY <2>2, <2>3, <2>4, <1>2
<1> QED
  BY <1>2, <1>3

\* The keys read that go where the next line's key goes are those it belongs together with.
LEMMA KeysToTogether ==
  ASSUME file \in Files, NEW k \in 0..Len(file), \A i \in 1..k : LineFine(i),
         NEW h, LastHeader(k, h), NEW j \in Keys
  PROVE  j \in KeysTo(k, TargetOf(h)) <=> j < k + 1 /\ (Together(k + 1, j) \/ Together(j, k + 1))
<1>0. k \in Nat /\ j \in Nat /\ h \in Headers /\ h <= k
  BY FileLines DEF LastHeader
<1>1. HeaderOf(k + 1, h) /\ HeaderFine(h)
  BY <1>0, HeaderIsLast, ReadLines
<1>2. CASE j < k + 1
  <2>1. j <= k
    BY <1>0, <1>2
  <2>2. PICK g \in Headers : HeaderOf(j, g) /\ HeaderFine(g)
    BY <2>1, ReadLines
  <2>3. Together(k + 1, j) \/ Together(j, k + 1) <=> TargetOf(h) = TargetOf(g)
    BY <2>2, <1>0, <1>1, TogetherIsTarget
  <2>4. \A x \in Headers : HeaderOf(j, x) => x = g
    BY <2>2, <1>0, OneHeader
  <2> QED
    BY <2>1, <2>2, <2>3, <2>4, <1>2 DEF KeysTo
<1>3. CASE ~(j < k + 1)
  BY <1>0, <1>3 DEF KeysTo
<1> QED
  BY <1>2, <1>3

\* The reader refuses a line exactly when it breaks a rule where it stands.
LEMMA RefusedIsWrong ==
  ASSUME file \in Files, past \in 0..Len(file), past < Len(file), LinesRight(past, target, held, entries)
  PROVE  LineFine(past + 1) <=>
           ~ \/ NextLine.kind = "other"
             \/ NextLine.kind = "array" /\ NextLine.section # "test"
             \/ NextLine.kind = "table" /\ ~TableKnown(NextLine.section)
             \/ NextLine.kind = "key" /\ ~KeyFine
<1> DEFINE i == past + 1
<1>1. past \in Nat /\ i \in DOMAIN file /\ NextLine = file[i]
  BY FileLines DEF NextLine
<1>2. i \in Keys <=> file[i].kind = "key"
  BY <1>1 DEF Keys
<1>3. i \in Headers <=> file[i].kind \in {"array", "table"}
  BY <1>1 DEF Headers
<1>4. \A x \in 1..past : LineFine(x)
  BY DEF LinesRight
<1> HIDE DEF i
<1>5. ASSUME file[i].kind = "key" PROVE LineFine(i) <=> KeyFine
  <2>0. \A h : HeaderOf(i, h) <=> LastHeader(past, h)
    BY <1>1, HeaderIsLast DEF i
  <2>1. CASE target = Nowhere /\ \A h \in Headers : h > past
    <3>1. \A h \in Headers : ~HeaderOf(i, h)
      <4>1. \A h \in Headers : h \in Nat
        BY FileLines
      <4> QED
        BY <4>1, <2>0, <2>1, <1>1 DEF LastHeader
    <3> QED
      BY <3>1, <2>1, <1>2, <1>5 DEF LineFine, KeyFine
  <2>2. ASSUME NEW h \in Headers, LastHeader(past, h), target = TargetOf(h) PROVE LineFine(i) <=> KeyFine
    <3>1. h <= past /\ HeaderFine(h)
      BY <1>4, <2>2, ReadLines DEF LastHeader
    <3>2. target # Nowhere /\ target.section = file[h].section
      BY <3>1, <2>2, HeaderNames DEF TargetOf
    <3>3. \A x \in Headers : HeaderOf(i, x) <=> x = h
      BY <2>0, <2>2, <1>1, OneHeader DEF i
    <3>4. DOMAIN held[target] = {file[j].key : j \in KeysTo(past, target)}
      <4>1. target \in DOMAIN held
        BY <3>1, <2>2 DEF LinesRight, HeldTo
      <4> QED
        BY <4>1 DEF LinesRight, HeldTo
    <3>5. \A j \in Keys : j \in KeysTo(past, target) <=> j < i /\ (Together(i, j) \/ Together(j, i))
      BY <1>1, <1>4, <2>2, KeysToTogether DEF i
    <3>6. KeysTo(past, target) \subseteq Keys
      BY DEF KeysTo
    <3>7. file[i].key \notin DOMAIN held[target] <=>
            \A j \in Keys : j < i /\ (Together(i, j) \/ Together(j, i)) => file[j].key # file[i].key
      BY <3>4, <3>5, <3>6
    <3>8. LineFine(i) <=> /\ file[i].value # BadValue
                          /\ \E x \in Headers : HeaderOf(i, x) /\ KeyAllowed(file[x].section, file[i].key)
                          /\ file[i].key \notin DOMAIN held[target]
      BY <3>7, <1>2, <1>3, <1>5 DEF LineFine
    <3>9. KeyFine <=> /\ KeyAllowed(file[h].section, file[i].key)
                      /\ file[i].key \notin DOMAIN held[target] /\ file[i].value # BadValue
      BY <3>2, <1>1 DEF KeyFine
    <3> QED
      BY <3>3, <3>8, <3>9
  <2> QED
    BY <2>1, <2>2 DEF LinesRight, AimedAt
<1>6. ASSUME file[i].kind # "key"
      PROVE  LineFine(i) <=> file[i].kind # "other" /\ (file[i].kind \in {"array", "table"} => HeaderFine(i))
  BY <1>2, <1>3, <1>6 DEF LineFine
<1> QED
  BY <1>1, <1>5, <1>6 DEF HeaderFine, i
-----------------------------------------------------------------------------
(* What one more line leaves behind. *)

\* After a line that is no header, the next key goes where it went.
LEMMA AimKept ==
  ASSUME file \in Files, NEW k \in Nat, k + 1 \notin Headers, NEW t, AimedAt(k, t)
  PROVE  AimedAt(k + 1, t)
<1>1. \A h \in Headers : h \in Nat /\ h # k + 1
  BY FileLines
<1>2. \A h \in Headers : h <= k + 1 <=> h <= k
  BY <1>1
<1>3. \A h \in Headers : h > k + 1 <=> h > k
  BY <1>1
<1>4. \A h \in Headers : LastHeader(k + 1, h) <=> LastHeader(k, h)
  BY <1>2 DEF LastHeader
<1> QED
  BY <1>3, <1>4 DEF AimedAt

\* After a header it goes where that header says.
LEMMA AimMoved ==
  ASSUME file \in Files, NEW k \in Nat, k + 1 \in Headers
  PROVE  AimedAt(k + 1, TargetOf(k + 1))
<1>1. LastHeader(k + 1, k + 1)
  BY DEF LastHeader
<1> QED
  BY <1>1 DEF AimedAt

\* A line that is no key adds none, and one that is no header no table or entry.
LEMMA KeysKept ==
  ASSUME file \in Files, NEW k \in Nat
  PROVE  /\ k + 1 \notin Keys => \A t : KeysTo(k + 1, t) = KeysTo(k, t)
         /\ k + 1 \notin Headers =>
              {TargetOf(h) : h \in {g \in Headers : g <= k + 1}} = {TargetOf(h) : h \in {g \in Headers : g <= k}}
         /\ k + 1 \in Headers =>
              {TargetOf(h) : h \in {g \in Headers : g <= k + 1}} =
                {TargetOf(h) : h \in {g \in Headers : g <= k}} \cup {TargetOf(k + 1)}
<1>1. /\ \A h \in Headers : h <= k + 1 <=> h <= k \/ h = k + 1
      /\ \A i \in Keys : i <= k + 1 <=> i <= k \/ i = k + 1
  BY FileLines
<1>2. k + 1 \notin Keys => \A t : KeysTo(k + 1, t) = KeysTo(k, t)
  BY <1>1 DEF KeysTo
<1>3. /\ k + 1 \notin Headers => {g \in Headers : g <= k + 1} = {g \in Headers : g <= k}
      /\ k + 1 \in Headers => {g \in Headers : g <= k + 1} = {g \in Headers : g <= k} \cup {k + 1}
  BY <1>1
<1> QED
  BY <1>2, <1>3

\* A line that adds nothing leaves everything as it is.
LEMMA HeldKept ==
  ASSUME file \in Files, NEW k \in Nat, k + 1 \notin Keys, NEW f, HeldTo(k, f),
         k + 1 \in Headers => TargetOf(k + 1) \in DOMAIN f
  PROVE  HeldTo(k + 1, f)
<1>1. \A t : KeysTo(k + 1, t) = KeysTo(k, t)
  BY KeysKept
<1>2. DOMAIN f = {TargetOf(h) : h \in {g \in Headers : g <= k + 1}}
  BY KeysKept DEF HeldTo
<1> QED
  BY <1>1, <1>2 DEF HeldTo

\* A header of a table or entry not met before begins it with no keys.
LEMMA HeldGrows ==
  ASSUME file \in Files, NEW k \in 0..Len(file), \A i \in 1..k : LineFine(i), k + 1 \in Headers,
         NEW f, HeldTo(k, f), TargetOf(k + 1) \notin DOMAIN f
  PROVE  HeldTo(k + 1, With(f, TargetOf(k + 1), Without))
<1> DEFINE t == TargetOf(k + 1)
           ff == With(f, t, Without)
<1>0. k \in Nat /\ k + 1 \notin Keys
  BY FileLines DEF Headers, Keys
<1>1. \A x : KeysTo(k + 1, x) = KeysTo(k, x)
  BY <1>0, KeysKept
<1>2. DOMAIN f = {TargetOf(h) : h \in {g \in Headers : g <= k}}
  BY DEF HeldTo
<1>3. DOMAIN ff = {TargetOf(h) : h \in {g \in Headers : g <= k + 1}}
  <2>1. DOMAIN ff = DOMAIN f \cup {t}
    BY DEF With
  <2> QED
    BY <2>1, <1>0, <1>2, KeysKept
<1>4. KeysTo(k, t) = {}
  <2>1. ASSUME NEW j \in KeysTo(k, t) PROVE FALSE
    <3>1. PICK h \in Headers : HeaderOf(j, h) /\ TargetOf(h) = t
      BY <2>1 DEF KeysTo
    <3>2. j \in Nat /\ h \in Nat /\ j <= k /\ h < j
      BY <2>1, <3>1, FileLines DEF KeysTo, HeaderOf
    <3>3. h <= k
      BY <3>2, <1>0
    <3> QED
      BY <3>1, <3>3, <1>2
  <2> QED BY <2>1
<1>5. ff[t] = Without /\ DOMAIN Without = {}
  BY DEF With, Without
<1>6. \A x \in DOMAIN f : x # t /\ ff[x] = f[x]
  BY DEF With
<1>7. DOMAIN ff = DOMAIN f \cup {t}
  BY DEF With
<1> HIDE DEF ff, t
<1>8. ASSUME NEW x \in DOMAIN ff
      PROVE  /\ DOMAIN ff[x] = {file[i].key : i \in KeysTo(k + 1, x)}
             /\ \A i \in KeysTo(k + 1, x) : ff[x][file[i].key] = file[i].value
  <2>1. CASE x = t
    BY <2>1, <1>1, <1>4, <1>5
  <2>2. CASE x \in DOMAIN f
    BY <2>2, <1>1, <1>6 DEF HeldTo
  <2> QED
    BY <2>1, <2>2, <1>7
<1> QED
  BY <1>3, <1>8 DEF HeldTo, ff, t

\* A key that is not there yet is added with its value.
LEMMA HeldTakes ==
  ASSUME file \in Files, NEW k \in Nat, k + 1 \in Keys,
         NEW h \in Headers, LastHeader(k, h), NEW f, HeldTo(k, f),
         file[k + 1].key \notin DOMAIN f[TargetOf(h)]
  PROVE  HeldTo(k + 1, [f EXCEPT ![TargetOf(h)] = With(@, file[k + 1].key, file[k + 1].value)])
<1> DEFINE t == TargetOf(h)
           c == file[k + 1].key
           v == file[k + 1].value
           ff == [f EXCEPT ![t] = With(@, c, v)]
<1>0. k + 1 \notin Headers /\ h <= k
  BY DEF Headers, Keys, LastHeader
<1>1. HeaderOf(k + 1, h)
  BY HeaderIsLast
<1>2. \A x \in Headers : HeaderOf(k + 1, x) <=> x = h
  BY <1>1, OneHeader
<1>3. \A i \in Keys : i <= k + 1 <=> i <= k \/ i = k + 1
  BY FileLines
<1>4. \A x : x # t => KeysTo(k + 1, x) = KeysTo(k, x)
  BY <1>2, <1>3 DEF KeysTo
<1>5. KeysTo(k + 1, t) = KeysTo(k, t) \cup {k + 1}
  BY <1>2, <1>3 DEF KeysTo
<1>6. t \in DOMAIN f /\ DOMAIN ff = DOMAIN f
  BY <1>0 DEF HeldTo
<1>7. DOMAIN f = {TargetOf(x) : x \in {g \in Headers : g <= k + 1}}
  BY <1>0, KeysKept DEF HeldTo
<1>8. ff[t] = With(f[t], c, v) /\ \A x \in DOMAIN f : x # t => ff[x] = f[x]
  BY <1>6
<1>9. DOMAIN ff[t] = DOMAIN f[t] \cup {c} /\ ff[t][c] = v /\ \A x \in DOMAIN f[t] : ff[t][x] = f[t][x]
  <2>1. c \notin DOMAIN f[t]
    OBVIOUS
  <2> HIDE DEF ff, t, c, v
  <2> QED
    BY <2>1, <1>8 DEF With
<1>10. /\ DOMAIN f[t] = {file[i].key : i \in KeysTo(k, t)}
       /\ \A i \in KeysTo(k, t) : f[t][file[i].key] = file[i].value
  BY <1>6 DEF HeldTo
<1> HIDE DEF ff, t
<1>11. ASSUME NEW x \in DOMAIN ff
       PROVE  /\ DOMAIN ff[x] = {file[i].key : i \in KeysTo(k + 1, x)}
              /\ \A i \in KeysTo(k + 1, x) : ff[x][file[i].key] = file[i].value
  <2>1. CASE x = t
    BY <2>1, <1>5, <1>9, <1>10
  <2>2. CASE x # t
    BY <2>2, <1>4, <1>6, <1>8 DEF HeldTo
  <2> QED
    BY <2>1, <2>2
<1> QED
  BY <1>6, <1>7, <1>11 DEF HeldTo, ff, t

\* The entries are numbered in the order of their headers.
LEMMA NumberedStep ==
  ASSUME file \in Files, NEW k \in Nat, NEW e, Numbered(k, e)
  PROVE  /\ k + 1 \notin EntryHeaders => Numbered(k + 1, e)
         /\ k + 1 \in EntryHeaders => Numbered(k + 1, e + 1)
<1>1. \A h \in EntryHeaders : h \in Nat /\ (h <= k => h <= k + 1)
  BY FileLines
<1>2. e = EntryOf(k) /\ e \in Nat
  BY EntryOfStep DEF Numbered
<1>3. ASSUME k + 1 \notin EntryHeaders PROVE Numbered(k + 1, e)
  BY <1>1, <1>2, <1>3, EntryOfStep DEF Numbered
<1>4. ASSUME k + 1 \in EntryHeaders PROVE Numbered(k + 1, e + 1)
  <2>1. EntryOf(k + 1) = e + 1
    BY <1>2, <1>4, EntryOfStep
  <2>2. \A i \in 1..(e + 1) : i \in 1..e \/ i = e + 1
    BY <1>2
  <2> QED
    BY <2>1, <2>2, <1>1, <1>4 DEF Numbered
<1> QED
  BY <1>3, <1>4
-----------------------------------------------------------------------------
(* The steps over the lines. *)

\* Every step leaves behind what its lines say.
LEMMA LinesStep ==
  ASSUME ManifestTypeOK, LinesRight(past, target, held, entries), ManifestNext
  PROVE  LinesRight(past', target', held', entries')
<1>0. file \in Files /\ past \in 0..Len(file) /\ Len(file) \in Nat /\ past \in Nat
  <2>1. file \in Files /\ past \in 0..Len(file)
    BY DEF ManifestTypeOK
  <2>2. Len(file) \in Nat
    BY <2>1, FileLines
  <2> QED
    BY <2>1, <2>2
<1> DEFINE i == past + 1
<1>1. /\ \A x \in 1..past : LineFine(x)
      /\ AimedAt(past, target) /\ HeldTo(past, held) /\ Numbered(past, entries)
  BY DEF LinesRight
<1>2. ASSUME past < Len(file), past' = past + 1,
             ~ \/ NextLine.kind = "other"
               \/ NextLine.kind = "array" /\ NextLine.section # "test"
               \/ NextLine.kind = "table" /\ ~TableKnown(NextLine.section)
               \/ NextLine.kind = "key" /\ ~KeyFine,
             AimedAt(i, target'), HeldTo(i, held'), Numbered(i, entries')
      PROVE  LinesRight(past', target', held', entries')
  <2>1. LineFine(i)
    BY <1>0, <1>2, RefusedIsWrong
  <2>2. \A x \in 1..(past + 1) : x \in 1..past \/ x = past + 1
    BY <1>0
  <2>3. \A x \in 1..(past + 1) : LineFine(x)
    BY <2>1, <2>2, <1>1
  <2> QED
    BY <2>3, <1>2 DEF LinesRight
<1>3. ASSUME past < Len(file)
      PROVE  /\ i \in DOMAIN file /\ NextLine = file[i]
             /\ i \in Keys <=> file[i].kind = "key"
             /\ i \in Headers <=> file[i].kind \in {"array", "table"}
             /\ i \in EntryHeaders <=> file[i].kind = "array"
  BY <1>0, <1>3, FileLines DEF NextLine, Keys, Headers, EntryHeaders
<1>4. CASE ReadBlank
  <2>1. /\ past < Len(file) /\ past' = past + 1 /\ NextLine.kind = "blank"
        /\ target' = target /\ held' = held /\ entries' = entries
    BY <1>4 DEF ReadBlank, Reading
  <2>2. i \notin Keys /\ i \notin Headers /\ i \notin EntryHeaders
    BY <2>1, <1>3
  <2>3. AimedAt(i, target') /\ HeldTo(i, held') /\ Numbered(i, entries')
    BY <2>1, <2>2, <1>0, <1>1, AimKept, HeldKept, NumberedStep
  <2> QED
    BY <2>1, <2>3, <1>2
<1>5. CASE ReadEntry
  <2>1. /\ past < Len(file) /\ past' = past + 1 /\ NextLine.kind = "array" /\ NextLine.section = "test"
        /\ target' = [section |-> "test", at |-> entries + 1] /\ held' = With(held, target', Without)
        /\ entries' = entries + 1
    BY <1>5 DEF ReadEntry, Reading
  <2>2. i \in Headers /\ i \in EntryHeaders /\ file[i].kind = "array" /\ file[i].section = "test"
    BY <2>1, <1>3
  <2>3. Numbered(i, entries')
    BY <2>1, <2>2, <1>0, <1>1, NumberedStep
  <2>4. target' = TargetOf(i)
    BY <2>1, <2>2, <2>3 DEF TargetOf, Numbered
  <2>5. TargetOf(i) \notin DOMAIN held
    <3>1. ASSUME NEW h \in Headers, h <= past, TargetOf(h) = TargetOf(i) PROVE FALSE
      <4>1. HeaderFine(h) /\ HeaderFine(i)
        BY <2>2, <3>1, <1>0, <1>1, ReadLines DEF HeaderFine
      <4>2. h = i
        BY <2>2, <3>1, <4>1, <1>0, SameTarget
      <4> QED
        BY <4>2, <3>1, <1>0
    <3> QED
      BY <3>1, <1>1 DEF HeldTo
  <2>6. HeldTo(i, held')
    BY <2>1, <2>2, <2>4, <2>5, <1>0, <1>1, HeldGrows
  <2>7. AimedAt(i, target')
    BY <2>2, <2>4, <1>0, AimMoved
  <2> QED
    BY <2>1, <2>3, <2>6, <2>7, <1>2
<1>6. CASE ReadTable
  <2>1. /\ past < Len(file) /\ past' = past + 1 /\ NextLine.kind = "table" /\ TableKnown(NextLine.section)
        /\ target' = [section |-> NextLine.section, at |-> 0] /\ entries' = entries
        /\ held' = IF target' \in DOMAIN held THEN held ELSE With(held, target', Without)
    BY <1>6 DEF ReadTable, Reading
  <2>2. i \in Headers /\ i \notin EntryHeaders /\ i \notin Keys /\ file[i].kind = "table"
    BY <2>1, <1>3
  <2>3. target' = TargetOf(i)
    BY <2>1, <2>2, <1>3 DEF TargetOf
  <2>4. HeldTo(i, held')
    <3>1. CASE TargetOf(i) \in DOMAIN held
      BY <3>1, <2>1, <2>2, <2>3, <1>0, <1>1, HeldKept
    <3>2. CASE TargetOf(i) \notin DOMAIN held
      BY <3>2, <2>1, <2>2, <2>3, <1>0, <1>1, HeldGrows
    <3> QED
      BY <3>1, <3>2
  <2>5. AimedAt(i, target') /\ Numbered(i, entries')
    BY <2>1, <2>2, <2>3, <1>0, <1>1, AimMoved, NumberedStep
  <2> QED
    BY <2>1, <2>4, <2>5, <1>2
<1>7. CASE ReadKey
  <2>1. /\ past < Len(file) /\ past' = past + 1 /\ NextLine.kind = "key" /\ KeyFine
        /\ target' = target /\ entries' = entries
        /\ held' = [held EXCEPT ![target] = With(@, NextLine.key, NextLine.value)]
    BY <1>7 DEF ReadKey, Reading
  <2>2. i \in Keys /\ i \notin Headers /\ i \notin EntryHeaders /\ NextLine = file[i]
    BY <2>1, <1>3
  <2>3. PICK h \in Headers : LastHeader(past, h) /\ target = TargetOf(h)
    BY <2>1, <1>1 DEF KeyFine, AimedAt
  <2>4. file[i].key \notin DOMAIN held[TargetOf(h)]
    BY <2>1, <2>2, <2>3 DEF KeyFine
  <2>5. HeldTo(i, held')
    BY <2>1, <2>2, <2>3, <2>4, <1>0, <1>1, HeldTakes
  <2>6. AimedAt(i, target') /\ Numbered(i, entries')
    BY <2>1, <2>2, <1>0, <1>1, AimKept, NumberedStep
  <2> QED
    BY <2>1, <2>5, <2>6, <1>2
<1>8. CASE RefuseLine \/ LinesRead \/ CheckEntry \/ RefuseEntry \/ Accept
  BY <1>8 DEF RefuseLine, LinesRead, CheckEntry, RefuseEntry, Accept
<1> QED
  BY <1>4, <1>5, <1>6, <1>7, <1>8 DEF ManifestNext

-----------------------------------------------------------------------------
(* The entries, as the file gives them and as they are held. *)

\* When every line is read, an entry holds a key exactly when the file gives it one, with the file's value.
LEMMA EntryIsGiven ==
  ASSUME file \in Files, past = Len(file), LinesRight(past, target, held, entries), NEW h \in EntryHeaders,
         NEW c
  PROVE  /\ Has(EntryOf(h), c) <=> GivenAny(h, c)
         /\ \A v : Given(h, c, v) <=> Has(EntryOf(h), c) /\ Entry(EntryOf(h))[c] = v
<1> DEFINE t == [section |-> "test", at |-> EntryOf(h)]
<1>1. /\ Len(file) \in Nat /\ h \in Headers
      /\ \A g \in Headers : g <= Len(file)
      /\ \A i \in Keys : i \in Nat /\ i <= Len(file)
  BY FileLines
<1>2. \A g \in Headers : HeaderFine(g)
  BY <1>1, ReadLines DEF LinesRight
<1>3. TargetOf(h) = t
  BY <1>2, <1>1, HeaderNames DEF TargetOf, EntryHeaders
<1>4. t \in DOMAIN held
  BY <1>1, <1>3 DEF LinesRight, HeldTo
<1>5. \A g \in Headers : TargetOf(g) = t <=> g = h
  <2> TAKE g \in Headers
  <2>1. h \in EntryHeaders /\ file[h].kind = "array" /\ HeaderFine(g) /\ HeaderFine(h)
    BY <1>1, <1>2 DEF EntryHeaders
  <2>2. TargetOf(h) = TargetOf(g) <=> file[h].section = file[g].section /\ (file[h].kind = "array" => h = g)
    BY <2>1, <1>1, SameTarget
  <2> QED
    BY <2>1, <2>2, <1>3
<1>6. KeysTo(past, t) = {i \in Keys : HeaderOf(i, h)}
  BY <1>1, <1>5 DEF KeysTo
<1>7. /\ DOMAIN held[t] = {file[i].key : i \in {j \in Keys : HeaderOf(j, h)}}
      /\ \A i \in Keys : HeaderOf(i, h) => held[t][file[i].key] = file[i].value
  BY <1>4, <1>6 DEF LinesRight, HeldTo
<1>8. Entry(EntryOf(h)) = held[t]
  BY DEF Entry
<1>9. Has(EntryOf(h), c) <=> \E i \in Keys : HeaderOf(i, h) /\ file[i].key = c
  BY <1>7, <1>8 DEF Has
<1>10. \A v : Given(h, c, v) <=> Has(EntryOf(h), c) /\ Entry(EntryOf(h))[c] = v
  BY <1>7, <1>8, <1>9 DEF Given
<1> QED
  BY <1>9, <1>10 DEF GivenAny

\* Every number up to the last is that of one [[test]] header, and every header's is among them.
LEMMA EntriesAreHeaders ==
  ASSUME file \in Files, past = Len(file), LinesRight(past, target, held, entries), entries \in Nat
  PROVE  /\ \A i \in 1..entries : \E h \in EntryHeaders : EntryOf(h) = i
         /\ \A h \in EntryHeaders : EntryOf(h) \in 1..entries
<1>1. /\ Len(file) \in Nat /\ \A h \in EntryHeaders : h \in Nat /\ h <= Len(file) /\ h > 0
  BY FileLines
<1>2. entries = EntryOf(past) /\ \A i \in 1..entries : \E h \in EntryHeaders : EntryOf(h) = i
  BY DEF LinesRight, Numbered
<1>3. ASSUME NEW h \in EntryHeaders PROVE EntryOf(h) \in 1..entries
  <2>1. EntryOf(h) \in Nat /\ EntryOf(0) \in Nat /\ EntryOf(0) < EntryOf(h)
    BY <1>1, EntryOfGrows
  <2>2. IsFiniteSet(EntryHeaders)
    <3>1. IsFiniteSet(1..Len(file)) /\ EntryHeaders \subseteq 1..Len(file)
      BY <1>1, FS_Interval, FileLines
    <3> QED
      BY <3>1, FS_Subset
  <2>3. EntryOf(h) <= entries
    <3>1. {g \in EntryHeaders : g <= past} = EntryHeaders /\ {g \in EntryHeaders : g <= h} \subseteq EntryHeaders
      BY <1>1
    <3> QED
      BY <3>1, <2>2, <1>2, FS_Subset DEF EntryOf
  <2> QED
    BY <2>1, <2>3
<1> QED
  BY <1>2, <1>3

\* The file's entries keep the rules exactly when each held one does, with a name of its own.
LEMMA EntriesHoldByEntry ==
  ASSUME file \in Files, past = Len(file), LinesRight(past, target, held, entries), entries \in Nat
  PROVE  EntriesHold <=>
           /\ \A i \in 1..entries : Alone(i)
           /\ \A i, j \in 1..entries : Entry(i)["name"] = Entry(j)["name"] => i = j
<1>1. /\ \A i \in 1..entries : \E h \in EntryHeaders : EntryOf(h) = i
      /\ \A h \in EntryHeaders : EntryOf(h) \in 1..entries
  BY EntriesAreHeaders
<1>2. \A h \in EntryHeaders : \A c :
        /\ Has(EntryOf(h), c) <=> GivenAny(h, c)
        /\ \A v : Given(h, c, v) <=> Has(EntryOf(h), c) /\ Entry(EntryOf(h))[c] = v
  BY EntryIsGiven
<1>3. ASSUME NEW h \in EntryHeaders
      PROVE  Alone(EntryOf(h)) <=>
               /\ GivenAny(h, "name") /\ ~Given(h, "name", ListValue)
               /\ \E s \in Stages : Given(h, "stage", s)
               /\ GivenAny(h, "kind") => \E k \in Kinds : Given(h, "kind", k)
               /\ GivenAny(h, "path") # GivenAny(h, "paths")
  <2> DEFINE i == EntryOf(h)
  <2>1. \A c : Has(i, c) <=> GivenAny(h, c)
    BY <1>2
  <2>2. \A c, v : Given(h, c, v) <=> Has(i, c) /\ Entry(i)[c] = v
    BY <1>2
  <2> HIDE DEF i
  <2>3. Has(i, "name") /\ Entry(i)["name"] # ListValue <=> GivenAny(h, "name") /\ ~Given(h, "name", ListValue)
    BY <2>1, <2>2
  <2>4. Has(i, "stage") /\ Entry(i)["stage"] \in Stages <=> \E s \in Stages : Given(h, "stage", s)
    BY <2>2
  <2>5. (Has(i, "kind") => Entry(i)["kind"] \in Kinds)
          <=> (GivenAny(h, "kind") => \E k \in Kinds : Given(h, "kind", k))
    BY <2>1, <2>2
  <2>6. Has(i, "path") # Has(i, "paths") <=> GivenAny(h, "path") # GivenAny(h, "paths")
    BY <2>1 DEF Has, GivenAny
  <2>7. Alone(i) <=> /\ Has(i, "name") /\ Entry(i)["name"] # ListValue
                     /\ Has(i, "stage") /\ Entry(i)["stage"] \in Stages
                     /\ Has(i, "kind") => Entry(i)["kind"] \in Kinds
                     /\ Has(i, "path") # Has(i, "paths")
    BY DEF Alone
  <2> QED
    BY <2>3, <2>4, <2>5, <2>6, <2>7, Zenon DEF i
<1>4. \A g, h \in EntryHeaders : EntryOf(g) = EntryOf(h) => g = h
  BY EntryOfOnce
<1>5. \A h \in EntryHeaders : \A v : Given(h, "name", v) => v \in {file[i].value : i \in Keys}
  BY DEF Given
<1>6. ASSUME \A i \in 1..entries : Alone(i)
      PROVE  (\A g, h \in EntryHeaders : \A v \in {file[i].value : i \in Keys} :
                Given(g, "name", v) /\ Given(h, "name", v) => g = h)
             <=> \A i, j \in 1..entries : Entry(i)["name"] = Entry(j)["name"] => i = j
  <2>1. \A h \in EntryHeaders : Given(h, "name", Entry(EntryOf(h))["name"])
    BY <1>1, <1>2, <1>6 DEF Alone
  <2>2. \A h \in EntryHeaders : \A v : Given(h, "name", v) => Entry(EntryOf(h))["name"] = v
    BY <1>2
  <2>3. ASSUME \A i, j \in 1..entries : Entry(i)["name"] = Entry(j)["name"] => i = j,
               NEW g \in EntryHeaders, NEW h \in EntryHeaders, NEW v, Given(g, "name", v), Given(h, "name", v)
        PROVE  g = h
    <3>1. EntryOf(g) = EntryOf(h)
      BY <2>2, <2>3, <1>1
    <3> QED
      BY <3>1, <1>4
  <2>4. ASSUME \A g, h \in EntryHeaders : \A v \in {file[i].value : i \in Keys} :
                 Given(g, "name", v) /\ Given(h, "name", v) => g = h,
               NEW i \in 1..entries, NEW j \in 1..entries, Entry(i)["name"] = Entry(j)["name"]
        PROVE  i = j
    <3>1. PICK g \in EntryHeaders : EntryOf(g) = i
      BY <1>1
    <3>2. PICK h \in EntryHeaders : EntryOf(h) = j
      BY <1>1
    <3>3. Given(g, "name", Entry(i)["name"]) /\ Given(h, "name", Entry(i)["name"])
      BY <2>1, <2>4, <3>1, <3>2
    <3>4. g = h
      BY <3>3, <2>4, <1>5
    <3> QED
      BY <3>1, <3>2, <3>4
  <2> QED
    BY <2>3, <2>4
<1>7. EntriesHold <=>
        /\ \A h \in EntryHeaders : Alone(EntryOf(h))
        /\ \A g, h \in EntryHeaders : \A v \in {file[i].value : i \in Keys} :
             Given(g, "name", v) /\ Given(h, "name", v) => g = h
  <2> DEFINE Own == \A g, h \in EntryHeaders : \A v \in {file[i].value : i \in Keys} :
                      Given(g, "name", v) /\ Given(h, "name", v) => g = h
  <2>1. EntriesHold <=> Own /\ \A h \in EntryHeaders :
               /\ GivenAny(h, "name") /\ ~Given(h, "name", ListValue)
               /\ \E s \in Stages : Given(h, "stage", s)
               /\ GivenAny(h, "kind") => \E k \in Kinds : Given(h, "kind", k)
               /\ GivenAny(h, "path") # GivenAny(h, "paths")
    BY Zenon DEF EntriesHold
  <2> HIDE DEF Own
  <2>2. EntriesHold <=> Own /\ \A h \in EntryHeaders : Alone(EntryOf(h))
    BY <2>1, <1>3, Zenon
  <2> QED
    BY <2>2 DEF Own
<1>8. (\A h \in EntryHeaders : Alone(EntryOf(h))) <=> \A i \in 1..entries : Alone(i)
  BY <1>1
<1> QED
  BY <1>6, <1>7, <1>8, Zenon

-----------------------------------------------------------------------------
(* The steps over the entries, and the verdict. *)

\* Every step keeps the types.
LEMMA ManifestTypeStep ==
  ASSUME ManifestTypeOK, ManifestNext
  PROVE  ManifestTypeOK' /\ file' = file
<1>0. Len(file) \in Nat
  BY FileLines DEF ManifestTypeOK
<1>1. CASE ReadBlank \/ ReadEntry \/ ReadTable \/ ReadKey
  BY <1>0, <1>1 DEF ReadBlank, ReadEntry, ReadTable, ReadKey, Reading, ManifestTypeOK
<1>2. CASE RefuseLine \/ LinesRead \/ RefuseEntry \/ Accept
  BY <1>0, <1>2 DEF RefuseLine, LinesRead, RefuseEntry, Accept, ManifestTypeOK
<1>3. CASE CheckEntry
  BY <1>0, <1>3 DEF CheckEntry, ManifestTypeOK
<1> QED
  BY <1>1, <1>2, <1>3 DEF ManifestNext

\* An entry that is taken keeps the rules, and its name is new; one that keeps them is not refused.
LEMMA EntryTaken ==
  ASSUME NEW i, EntriesRight
  PROVE  /\ ~Raises(i, seen) /\ EntryFine(i, seen) <=>
              Alone(i) /\ \A j \in 1..checked : Entry(j)["name"] # Entry(i)["name"]
<1>1. Has(i, "name") /\ Entry(i)["name"] \notin seen <=>
        Has(i, "name") /\ \A j \in 1..checked : Entry(j)["name"] # Entry(i)["name"]
  BY DEF EntriesRight
<1>2. ListValue \notin Stages /\ ListValue \notin Kinds
  BY ManifestAssumption
<1>3. ~Raises(i, seen) /\ EntryFine(i, seen) <=> Alone(i) /\ Entry(i)["name"] \notin seen
  BY <1>2 DEF Raises, EntryFine, Alone
<1>4. Alone(i) => Has(i, "name")
  BY DEF Alone
<1> QED
  BY <1>1, <1>3, <1>4

\* The checks go over the entries in their order.
LEMMA EntriesStep ==
  ASSUME ManifestTypeOK, EntriesRight, ManifestNext
  PROVE  EntriesRight'
<1>1. CASE ReadBlank \/ ReadEntry \/ ReadTable \/ ReadKey
  <2>1. checked = 0 /\ checked' = 0 /\ seen' = seen
    BY <1>1 DEF ReadBlank, ReadEntry, ReadTable, ReadKey, Reading, ManifestTypeOK
  <2>2. 1..checked = {} /\ 1..checked' = {}
    BY <2>1
  <2>3. seen' = {}
    BY <2>1, <2>2 DEF EntriesRight
  <2> QED
    BY <2>2, <2>3 DEF EntriesRight
<1>2. CASE RefuseLine \/ LinesRead \/ RefuseEntry \/ Accept
  <2>1. held' = held /\ checked' = checked /\ seen' = seen
    BY <1>2 DEF RefuseLine, LinesRead, RefuseEntry, Accept
  <2> QED
    BY <2>1 DEF EntriesRight, Alone, Has, Entry
<1>3. CASE CheckEntry
  <2> DEFINE i == checked + 1
  <2>1. /\ held' = held /\ checked' = checked + 1 /\ seen' = seen \cup {Entry(i)["name"]}
        /\ ~Raises(i, seen) /\ EntryFine(i, seen)
        /\ checked \in Nat
    BY <1>3 DEF CheckEntry, ManifestTypeOK
  <2>2. Alone(i) /\ \A j \in 1..checked : Entry(j)["name"] # Entry(i)["name"]
    BY <2>1, EntryTaken
  <2>3. 1..(checked + 1) = 1..checked \cup {i}
    BY <2>1
  <2>4. \A x : (Entry(x)' = Entry(x)) /\ (Alone(x)' <=> Alone(x))
    BY <2>1 DEF Entry, Alone, Has
  <2> HIDE DEF i
  <2>5. (\A x \in 1..checked : Alone(x))' /\ seen' = {Entry(x)["name"] : x \in 1..(checked + 1)}
    BY <2>1, <2>2, <2>3, <2>4 DEF EntriesRight
  <2>6. \A x, y \in 1..(checked + 1) : Entry(x)["name"] = Entry(y)["name"] => x = y
    BY <2>2, <2>3 DEF EntriesRight
  <2> QED
    BY <2>1, <2>4, <2>5, <2>6 DEF EntriesRight
<1> QED
  BY <1>1, <1>2, <1>3 DEF ManifestNext

\* A file refused, or one that raises, breaks a rule.
LEMMA VerdictStep ==
  ASSUME ManifestInv, ManifestNext, pc' \in {"refused", "raised"}
  PROVE  ~(LinesHold /\ EntriesHold)
<1>0. /\ file \in Files /\ past \in 0..Len(file) /\ Len(file) \in Nat /\ entries \in Nat /\ checked \in 0..entries
      /\ pc = "entries" => past = Len(file)
      /\ LinesRight(past, target, held, entries) /\ EntriesRight
  <2>1. ManifestTypeOK
    BY DEF ManifestInv
  <2>2. file \in Files
    BY <2>1 DEF ManifestTypeOK
  <2> QED
    BY <2>1, <2>2, FileLines DEF ManifestInv, ManifestTypeOK
<1>1. CASE RefuseLine
  <2>1. ~LineFine(past + 1) /\ past < Len(file)
    BY <1>0, <1>1, RefusedIsWrong DEF RefuseLine
  <2>2. past + 1 \in 1..Len(file)
    BY <2>1, <1>0
  <2> QED
    BY <2>1, <2>2, <1>0, LinesHoldByLine
<1>2. CASE RefuseEntry
  <2> DEFINE i == checked + 1
  <2>1. past = Len(file) /\ i \in 1..entries /\ (Raises(i, seen) \/ ~EntryFine(i, seen))
    BY <1>0, <1>2 DEF RefuseEntry
  <2>2. \A j \in 1..checked : j \in 1..entries /\ j # i
    BY <1>0
  <2>3. ~(Alone(i) /\ \A j \in 1..checked : Entry(j)["name"] # Entry(i)["name"])
    BY <2>1, <1>0, EntryTaken
  <2> HIDE DEF i
  <2> QED
    BY <2>1, <2>2, <2>3, <1>0, EntriesHoldByEntry
<1>3. ~ReadBlank /\ ~ReadEntry /\ ~ReadTable /\ ~ReadKey /\ ~LinesRead /\ ~CheckEntry /\ ~Accept
  BY DEF ReadBlank, ReadEntry, ReadTable, ReadKey, Reading, LinesRead, CheckEntry, Accept
<1> QED
  BY <1>1, <1>2, <1>3 DEF ManifestNext

\* What is said of a file does not change while it is read.
LEMMA FileKept ==
  ASSUME file' = file
  PROVE  /\ \A k, t, f, e : LinesRight(k, t, f, e) => LinesRight(k, t, f, e)'
         /\ LinesHold' <=> LinesHold
         /\ EntriesHold' <=> EntriesHold
<1>1. Headers' = Headers /\ Keys' = Keys /\ EntryHeaders' = EntryHeaders
  BY DEF Headers, Keys, EntryHeaders
<1>2. \A i, h : HeaderOf(i, h)' <=> HeaderOf(i, h)
  BY <1>1 DEF HeaderOf
<1>3. \A i, j : Together(i, j)' <=> Together(i, j)
  BY <1>1, <1>2 DEF Together
<1>4. \A h : EntryOf(h)' = EntryOf(h)
  BY <1>1 DEF EntryOf
<1>5. \A h : TargetOf(h)' = TargetOf(h)
  BY <1>4 DEF TargetOf
<1>6. \A i : LineFine(i)' <=> LineFine(i)
  BY <1>1, <1>2, <1>3 DEF LineFine, HeaderFine
<1>7. \A k, t : KeysTo(k, t)' = KeysTo(k, t)
  BY <1>1, <1>2, <1>5 DEF KeysTo
<1>8. \A k, h : LastHeader(k, h)' <=> LastHeader(k, h)
  BY <1>1 DEF LastHeader
<1>9. \A k, t : AimedAt(k, t)' <=> AimedAt(k, t)
  BY <1>1, <1>5, <1>8 DEF AimedAt
<1>10. \A k, f : HeldTo(k, f) => HeldTo(k, f)'
  BY <1>1, <1>5, <1>7 DEF HeldTo
<1>11. \A k, e : Numbered(k, e) => Numbered(k, e)'
  BY <1>1, <1>4 DEF Numbered
<1>12. \A k, t, f, e : LinesRight(k, t, f, e) => LinesRight(k, t, f, e)'
  BY <1>6, <1>9, <1>10, <1>11 DEF LinesRight
<1>13. LinesHold' <=> LinesHold
  BY <1>1, <1>2, <1>3 DEF LinesHold
<1>14. (\A h, k : GivenAny(h, k)' <=> GivenAny(h, k)) /\ (\A h, k, v : Given(h, k, v)' <=> Given(h, k, v))
  BY <1>1, <1>2 DEF GivenAny, Given
<1>15. EntriesHold' <=> EntriesHold
  <2> DEFINE Rest(h) == /\ GivenAny(h, "name")
                        /\ \E s \in Stages : Given(h, "stage", s)
                        /\ GivenAny(h, "kind") => \E k \in Kinds : Given(h, "kind", k)
                        /\ GivenAny(h, "path") # GivenAny(h, "paths")
                        /\ ~Given(h, "name", ListValue)
             Own(h) == \A g \in EntryHeaders, v \in {file[i].value : i \in Keys} :
                         Given(g, "name", v) /\ Given(h, "name", v) => g = h
  <2>1. \A h : Rest(h)' <=> Rest(h)
    <3> TAKE h
    <3>1. (GivenAny(h, "path") # GivenAny(h, "paths"))' <=> (GivenAny(h, "path") # GivenAny(h, "paths"))
      <4>1. \A c : GivenAny(h, c)' = GivenAny(h, c)
        BY <1>1, <1>2 DEF GivenAny
      <4> QED
        BY <4>1
    <3> QED
      BY <3>1, <1>14
  <2>2. \A h : Own(h)' <=> Own(h)
    <3>1. {file[i].value : i \in Keys}' = {file[i].value : i \in Keys}
      BY <1>1
    <3> QED
      BY <3>1, <1>1, <1>14
  <2>3. EntriesHold <=> \A h \in EntryHeaders : Rest(h) /\ Own(h)
    BY Zenon DEF EntriesHold
  <2>4. EntriesHold' <=> \A h \in EntryHeaders' : Rest(h)' /\ Own(h)'
    BY Zenon DEF EntriesHold
  <2> HIDE DEF Rest, Own
  <2> QED
    BY <2>1, <2>2, <2>3, <2>4, <1>1
<1> QED
  BY <1>12, <1>13, <1>15

\* A reader that has read nothing keeps the invariant.
LEMMA ManifestInitInv == ManifestInit => ManifestInv
<1> SUFFICES ASSUME ManifestInit PROVE ManifestInv
  OBVIOUS
<1>1. file \in Files /\ past = 0 /\ target = Nowhere /\ held = [t \in {} |-> {}] /\ entries = 0
      /\ checked = 0 /\ seen = {} /\ pc = "lines"
  BY DEF ManifestInit
<1>2. /\ Len(file) \in Nat /\ \A h \in Headers : h \in Nat /\ h > 0
      /\ \A h \in EntryHeaders : h \in Nat /\ h > 0
  BY <1>1, FileLines
<1>3. ManifestTypeOK
  BY <1>1, <1>2 DEF ManifestTypeOK
<1>4. AimedAt(0, Nowhere)
  BY <1>2 DEF AimedAt
<1>5. {g \in Headers : g <= 0} = {} /\ {g \in EntryHeaders : g <= 0} = {}
  BY <1>2
<1>6. HeldTo(0, held)
  BY <1>1, <1>5 DEF HeldTo
<1>7. Numbered(0, 0)
  <2>1. EntryOf(0) = 0
    BY <1>5, FS_EmptySet DEF EntryOf
  <2> QED
    BY <2>1 DEF Numbered
<1>8. LinesRight(past, target, held, entries)
  BY <1>1, <1>4, <1>6, <1>7 DEF LinesRight
<1>9. EntriesRight
  BY <1>1 DEF EntriesRight
<1> QED
  BY <1>1, <1>3, <1>8, <1>9 DEF ManifestInv

\* Every step keeps the invariant.
LEMMA ManifestStep == ManifestInv /\ [ManifestNext]_manifestVars => ManifestInv'
<1>1. ASSUME ManifestInv, ManifestNext PROVE ManifestInv'
  <2>0. ManifestTypeOK /\ LinesRight(past, target, held, entries) /\ EntriesRight
    BY <1>1 DEF ManifestInv
  <2>1. ManifestTypeOK' /\ file' = file
    BY <1>1, <2>0, ManifestTypeStep
  <2>2. LinesRight(past', target', held', entries')
    BY <1>1, <2>0, LinesStep
  <2>3. LinesRight(past, target, held, entries)'
    <3>1. \A k, t, f, e : LinesRight(k, t, f, e) => LinesRight(k, t, f, e)'
      BY <2>1, FileKept
    <3> QED
      BY <3>1, <2>2
  <2>4. EntriesRight'
    BY <1>1, <2>0, EntriesStep
  <2>5. pc' \in {"refused", "raised"} => ~(LinesHold' /\ EntriesHold')
    BY <1>1, <2>1, VerdictStep, FileKept
  <2> QED
    BY <2>1, <2>3, <2>4, <2>5 DEF ManifestInv
<1>2. ASSUME ManifestInv, UNCHANGED manifestVars PROVE ManifestInv'
  <2>1. /\ file' = file /\ past' = past /\ target' = target /\ held' = held /\ entries' = entries
        /\ checked' = checked /\ seen' = seen /\ pc' = pc
    BY <1>2 DEF manifestVars
  <2>2. ManifestTypeOK' /\ EntriesRight'
    BY <1>2, <2>1 DEF ManifestInv, ManifestTypeOK, EntriesRight, Alone, Has, Entry
  <2>3. LinesRight(past, target, held, entries)'
    <3>1. \A k, t, f, e : LinesRight(k, t, f, e) => LinesRight(k, t, f, e)'
      BY <2>1, FileKept
    <3> QED
      BY <3>1, <1>2, <2>1 DEF ManifestInv
  <2> QED
    BY <2>1, <2>2, <2>3, <1>2, FileKept DEF ManifestInv
<1> QED
  BY <1>1, <1>2

\* The inductive invariant holds in every run.
LEMMA ManifestAlways == ManifestSpec => []ManifestInv
  BY ManifestInitInv, ManifestStep, PTL DEF ManifestSpec

\* The invariant says when a file is accepted, and that all it gives is held.
LEMMA ManifestInvGives == ManifestInv => AcceptsTheRules /\ NothingLost
<1> SUFFICES ASSUME ManifestInv PROVE AcceptsTheRules /\ NothingLost
  OBVIOUS
<1>0. ManifestTypeOK /\ LinesRight(past, target, held, entries) /\ EntriesRight
  BY DEF ManifestInv
<1>1. file \in Files /\ entries \in Nat
  BY <1>0 DEF ManifestTypeOK
<1>2. Len(file) \in Nat /\ DOMAIN file = 1..Len(file)
  BY <1>1, FileLines
<1>3. ASSUME pc = "accepted" PROVE LinesHold /\ EntriesHold
  <2>1. past = Len(file) /\ checked = entries
    BY <1>0, <1>3 DEF ManifestTypeOK
  <2>2. LinesHold
    BY <2>1, <1>0, <1>1, LinesHoldByLine DEF LinesRight
  <2>3. EntriesHold
    BY <2>1, <1>0, <1>1, EntriesHoldByEntry DEF EntriesRight
  <2> QED
    BY <2>2, <2>3
<1>4. AcceptsTheRules
  BY <1>3 DEF ManifestInv, AcceptsTheRules
<1>5. ASSUME pc = "accepted", NEW i \in Keys
      PROVE  \E t \in DOMAIN held :
               /\ file[i].key \in DOMAIN held[t] /\ held[t][file[i].key] = file[i].value
               /\ \E h \in Headers : HeaderOf(i, h) /\ file[h].section = t.section
                    /\ (t.section = "test" => t.at = Cardinality({g \in EntryHeaders : g <= h}))
  <2>1. past = Len(file) /\ past \in 0..Len(file) /\ \A x \in 1..past : LineFine(x)
    BY <1>0, <1>5 DEF ManifestTypeOK, LinesRight
  <2>2. i <= past /\ \A g \in Headers : g <= past
    BY <2>1, <1>1, FileLines
  <2>3. PICK h \in Headers : HeaderOf(i, h) /\ HeaderFine(h)
    BY <2>1, <2>2, <1>1, ReadLines
  <2>4. TargetOf(h) \in DOMAIN held /\ i \in KeysTo(past, TargetOf(h))
    BY <2>2, <2>3, <1>0 DEF LinesRight, HeldTo, KeysTo
  <2>5. file[i].key \in DOMAIN held[TargetOf(h)] /\ held[TargetOf(h)][file[i].key] = file[i].value
    BY <2>4, <1>0 DEF LinesRight, HeldTo
  <2>6. file[h].section = TargetOf(h).section
        /\ (TargetOf(h).section = "test" => TargetOf(h).at = Cardinality({g \in EntryHeaders : g <= h}))
    BY <2>3, HeaderNames DEF TargetOf, EntryOf
  <2> QED
    BY <2>3, <2>4, <2>5, <2>6
<1>6. NothingLost
  BY <1>5 DEF NothingLost
<1> QED
  BY <1>4, <1>6

-----------------------------------------------------------------------------
(* Theorems of the manifest reader. *)

\* A manifest of any length is accepted exactly when each of its lines and entries keeps the rules.
THEOREM ManifestAcceptsTheRules == ManifestSpec => []AcceptsTheRules
  BY ManifestAlways, ManifestInvGives, PTL

\* Every key of an accepted manifest is held with its value, under its own table or entry.
THEOREM ManifestLosesNothing == ManifestSpec => []NothingLost
  BY ManifestAlways, ManifestInvGives, PTL
=============================================================================
