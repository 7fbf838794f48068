--------------------------- MODULE MutantsProofs ---------------------------
(***************************************************************************)
(* For any table whose edits do not write what they replace, any trees and *)
(* any number of threads: a harness run sees its own edits alone, a STOP   *)
(* has its cause, and the run's end is whole.                              *)
(***************************************************************************)
EXTENDS Mutants, FiniteSetTheorems, TLAPS

(* One edit more, in a copy with the first n edits of a mutant made. *)

\* The edits of one mutant.
EditsOfOne(es) == \E n \in Names : es = EditsOf(n)

\* Two edits of a mutant in one file do not write what they replace, and are of one kind.
LEMMA ApartInOne ==
  ASSUME NEW es, EditsOfOne(es), NEW i \in 1..Len(es), NEW h \in 1..Len(es), es[i].file = es[h].file
  PROVE  es[i].new # es[h].old /\ (Nested(es[i]) <=> Nested(es[h]))
<1>1. PICK n \in Names : es = EditsOf(n)
  BY DEF EditsOfOne
<1>2. es \in Seq({r \in {Rows[k] : k \in DOMAIN Rows} : r.name = n})
  BY <1>1, MutantsAssumption
<1>3. es[i] \in {r \in {Rows[k] : k \in DOMAIN Rows} : r.name = n} /\ es[h] \in {r \in {Rows[k] : k \in DOMAIN Rows} : r.name = n}
  BY <1>2
<1>4. PICK k \in DOMAIN Rows : es[i] = Rows[k]
  BY <1>3
<1>5. PICK l \in DOMAIN Rows : es[h] = Rows[l]
  BY <1>3
<1> QED
  BY <1>3, <1>4, <1>5, EditsApart

\* The number of a mutant's edits.
LEMMA EditsLength ==
  ASSUME NEW es, EditsOfOne(es)
  PROVE  Len(es) \in Nat /\ DOMAIN es = 1..Len(es)
<1>1. PICK n \in Names : es = EditsOf(n)
  BY DEF EditsOfOne
<1>2. es \in Seq({r \in {Rows[k] : k \in DOMAIN Rows} : r.name = n})
  BY <1>1, MutantsAssumption
<1> QED
  BY <1>2

\* What the next edit replaces stands where the tree has it, unless an edit before it took it.
LEMMA NextPlaces ==
  ASSUME NEW es, EditsOfOne(es), NEW n \in Nat, n < Len(es), NEW c, NEW b, EditedBy(c, b, es, n),
         es[n + 1].file \in DOMAIN b, ~Nested(es[n + 1]), NEW p \in DOMAIN b[es[n + 1].file]
  PROVE  c.files[es[n + 1].file][p] = es[n + 1].old
           <=> /\ b[es[n + 1].file][p] = es[n + 1].old
               /\ Made(es, n, es[n + 1].file, b[es[n + 1].file][p]) = {}
<1> DEFINE e == es[n + 1]  f == e.file  w == b[f][p]
<1>1. c.files[f][p] \in (IF Made(es, n, f, w) = {} THEN {w} ELSE Made(es, n, f, w))
  BY DEF EditedBy
<1>2. ASSUME Made(es, n, f, w) # {} PROVE c.files[f][p] # e.old
  <2>1. c.files[f][p] \in Made(es, n, f, w)
    BY <1>1, <1>2
  <2>2. PICK i \in 1..n : es[i].file = f /\ c.files[f][p] = es[i].new
    BY <2>1 DEF Made
  <2>3. i \in 1..Len(es) /\ n + 1 \in 1..Len(es)
    BY EditsLength
  <2> QED
    BY <2>2, <2>3, ApartInOne
<1> QED
  BY <1>1, <1>2

\* It finds all its places in the tree, or none because an edit before it took them.
LEMMA PlacesLeft ==
  ASSUME NEW es, EditsOfOne(es), NEW n \in Nat, n < Len(es), NEW c, NEW b, EditedBy(c, b, es, n),
         es[n + 1].file \in DOMAIN b, ~Nested(es[n + 1])
  PROVE  \/ Places(c.files[es[n + 1].file], es[n + 1]) = Places(b[es[n + 1].file], es[n + 1])
         \/ /\ Places(c.files[es[n + 1].file], es[n + 1]) = {}
            /\ \E h \in 1..n : es[h].file = es[n + 1].file /\ es[h].old = es[n + 1].old
<1> DEFINE e == es[n + 1]  f == e.file
<1>1. DOMAIN c.files[f] = DOMAIN b[f]
  BY DEF EditedBy
<1>2. \A p \in DOMAIN b[f] : c.files[f][p] = e.old <=> b[f][p] = e.old /\ Made(es, n, f, b[f][p]) = {}
  BY NextPlaces
<1>3. CASE Made(es, n, f, e.old) = {}
  BY <1>1, <1>2, <1>3 DEF Places
<1>4. CASE Made(es, n, f, e.old) # {}
  <2>1. ASSUME NEW p \in DOMAIN b[f] PROVE c.files[f][p] # e.old
    <3>1. CASE b[f][p] = e.old
      <4>1. Made(es, n, f, b[f][p]) # {}
        BY <1>4, <3>1
      <4> QED
        BY <1>2, <4>1
    <3> QED
      BY <1>2, <3>1
  <2>3. Places(c.files[f], e) = {}
    BY <1>1, <2>1 DEF Places
  <2>2. \E h \in 1..n : es[h].file = f /\ es[h].old = e.old
    BY <1>4 DEF Made
  <2> QED
    BY <2>2, <2>3
<1> QED
  BY <1>3, <1>4

\* The words that one edit more makes.
LEMMA MadeGrows ==
  ASSUME NEW es, NEW n \in Nat, NEW f, NEW w
  PROVE  Made(es, n + 1, f, w) = Made(es, n, f, w) \cup
           (IF ~Nested(es[n + 1]) /\ es[n + 1].file = f /\ es[n + 1].old = w THEN {es[n + 1].new} ELSE {})
<1>1. 1..(n + 1) = (1..n) \cup {n + 1}
  OBVIOUS
<1> QED
  BY <1>1 DEF Made

\* A text replaced is one edit more made.
LEMMA ReplaceMakes ==
  ASSUME NEW es, EditsOfOne(es), NEW n \in Nat, n < Len(es), NEW c, NEW b, EditedBy(c, b, es, n),
         es[n + 1].file \in DOMAIN b, ~Nested(es[n + 1])
  PROVE  EditedBy([files  |-> [c.files EXCEPT ![es[n + 1].file] = Replaced(c.files[es[n + 1].file], es[n + 1])],
                   nested |-> c.nested], b, es, n + 1)
<1> DEFINE e == es[n + 1]
           d == [files |-> [c.files EXCEPT ![e.file] = Replaced(c.files[e.file], e)], nested |-> c.nested]
<1>1. DOMAIN d.files = DOMAIN b
  BY DEF EditedBy
<1>2. ASSUME NEW f \in DOMAIN b
      PROVE  /\ DOMAIN d.files[f] = DOMAIN b[f]
             /\ \A p \in DOMAIN b[f] : d.files[f][p] \in
                  (IF Made(es, n + 1, f, b[f][p]) = {} THEN {b[f][p]} ELSE Made(es, n + 1, f, b[f][p]))
  <2>1. DOMAIN c.files = DOMAIN b /\ DOMAIN c.files[f] = DOMAIN b[f]
    BY DEF EditedBy
  <2>2. \A p \in DOMAIN b[f] :
          c.files[f][p] \in (IF Made(es, n, f, b[f][p]) = {} THEN {b[f][p]} ELSE Made(es, n, f, b[f][p]))
    BY DEF EditedBy
  <2>3. CASE f # e.file
    <3>1. d.files[f] = c.files[f]
      BY <2>1, <2>3
    <3>2. ASSUME NEW w PROVE Made(es, n + 1, f, w) = Made(es, n, f, w)
      <4>1. Made(es, n + 1, f, w) = Made(es, n, f, w) \cup
              (IF ~Nested(e) /\ e.file = f /\ e.old = w THEN {e.new} ELSE {})
        BY MadeGrows
      <4> QED
        BY <2>3, <4>1
    <3> QED
      BY <2>1, <2>2, <3>1, <3>2
  <2>4. CASE f = e.file
    <3>1. d.files[f] = Replaced(c.files[f], e)
      BY <2>1, <2>4
    <3>2. DOMAIN d.files[f] = DOMAIN b[f]
      BY <2>1, <3>1 DEF Replaced
    <3>3. ASSUME NEW p \in DOMAIN b[f]
          PROVE  d.files[f][p] \in (IF Made(es, n + 1, f, b[f][p]) = {} THEN {b[f][p]} ELSE Made(es, n + 1, f, b[f][p]))
      <4>1. d.files[f][p] = IF c.files[f][p] = e.old THEN e.new ELSE c.files[f][p]
        BY <2>1, <3>1 DEF Replaced
      <4>2. c.files[f][p] = e.old <=> b[f][p] = e.old /\ Made(es, n, f, b[f][p]) = {}
        <5>1. p \in DOMAIN b[e.file]
          BY <2>4
        <5>2. c.files[e.file][p] = e.old <=> b[e.file][p] = e.old /\ Made(es, n, e.file, b[e.file][p]) = {}
          BY <5>1, NextPlaces
        <5> QED
          BY <2>4, <5>2
      <4>3. Made(es, n + 1, f, b[f][p]) = Made(es, n, f, b[f][p]) \cup (IF e.old = b[f][p] THEN {e.new} ELSE {})
        BY <2>4, MadeGrows
      <4> QED
        BY <2>2, <4>1, <4>2, <4>3
    <3> QED
      BY <3>2, <3>3
  <2> QED
    BY <2>3, <2>4
<1>3. d.nested = {es[i].file : i \in {i \in 1..(n + 1) : Nested(es[i])}}
  <2>1. 1..(n + 1) = (1..n) \cup {n + 1}
    OBVIOUS
  <2>2. c.nested = {es[i].file : i \in {i \in 1..n : Nested(es[i])}}
    BY DEF EditedBy
  <2> QED
    BY <2>1, <2>2
<1> QED
  BY <1>1, <1>2, <1>3 DEF EditedBy

\* A nested checkout is one edit more made.
LEMMA NestMakes ==
  ASSUME NEW es, NEW n \in Nat, NEW c, NEW b, EditedBy(c, b, es, n), Nested(es[n + 1])
  PROVE  EditedBy([files |-> c.files, nested |-> c.nested \cup {es[n + 1].file}], b, es, n + 1)
<1> DEFINE d == [files |-> c.files, nested |-> c.nested \cup {es[n + 1].file}]
<1>1. ASSUME NEW f, NEW w PROVE Made(es, n + 1, f, w) = Made(es, n, f, w)
  <2>1. Made(es, n + 1, f, w) = Made(es, n, f, w) \cup
          (IF ~Nested(es[n + 1]) /\ es[n + 1].file = f /\ es[n + 1].old = w THEN {es[n + 1].new} ELSE {})
    BY MadeGrows
  <2> QED
    BY <2>1
<1>2. d.nested = {es[i].file : i \in {i \in 1..(n + 1) : Nested(es[i])}}
  <2>1. 1..(n + 1) = (1..n) \cup {n + 1}
    OBVIOUS
  <2>2. c.nested = {es[i].file : i \in {i \in 1..n : Nested(es[i])}}
    BY DEF EditedBy
  <2> QED
    BY <2>1, <2>2
<1> QED
  BY <1>1, <1>2 DEF EditedBy

\* A copy of the tree has no edit made.
LEMMA CopyIsUnedited ==
  ASSUME NEW es, NEW b
  PROVE  EditedBy([files |-> b, nested |-> {}], b, es, 0)
<1>1. \A f, w : Made(es, 0, f, w) = {}
  BY DEF Made
<1> QED
  BY <1>1 DEF EditedBy

-----------------------------------------------------------------------------
(* The inductive invariant, in named parts. *)

Active(j) == step[j] \in {"copy", "init", "edit"}

\* A job at work in its copy has one, and no other job at work has the same.
Owned(j) == Active(j) => Name(j) \in DOMAIN copies
Apart == \A i, j \in DOMAIN Jobs : i # j /\ Active(i) /\ Active(j) => Name(i) # Name(j)

\* What stands in a job's copy is the tree it copied with the edits it has made.
Based(j) ==
  step[j] \in {"init", "edit"} =>
    /\ base[j] \in Trees
    /\ EditedBy(copies[Name(j)], base[j], Edits(j), made[j])
    /\ \A i \in 1..made[j] : Fits(base[j], Edits(j)[i])

Fresh(j)  == step[j] \in {"queued", "mkdir", "copy", "init"} => made[j] = 0
Silent(j) == step[j] # "done" => line[j] = "none" /\ (step[j] # "failed" => saw[j] = {})
Told(j)   == step[j] = "done" => line[j] \in Exits \cup {"stop"}

JobInv(j) ==
  /\ Owned(j) /\ Based(j) /\ Fresh(j) /\ Silent(j) /\ Told(j)
  /\ OwnEditsOf(j) /\ StoppedForCause(j)

\* What main knows of the jobs.
MainInv ==
  /\ main = "args" => \A j \in DOMAIN Jobs : step[j] = "queued"
  /\ \A i \in 1..taken : step[i] = "done"
  /\ main = "raise" => taken < Len(Jobs) /\ step[taken + 1] = "failed"
  /\ exit = "running" <=> main # "end"
  /\ exit # "0" => printed = <<>>
  /\ main = "end" => \A j \in DOMAIN Jobs : step[j] \in Waits
  /\ EndIsWhole

MutantsInv == MutantsTypeOK /\ (\A j \in DOMAIN Jobs : JobInv(j)) /\ Apart /\ MainInv

-----------------------------------------------------------------------------
(* What a step leaves alone. *)

\* The jobs asked for are a sequence, and each has the edits of one mutant.
LEMMA JobsTypes ==
  ASSUME asked \in Asks
  PROVE  /\ Len(Jobs) \in Nat /\ DOMAIN Jobs = 1..Len(Jobs)
         /\ \A j \in DOMAIN Jobs : EditsOfOne(Edits(j)) /\ Len(Edits(j)) \in Nat /\ DOMAIN Edits(j) = 1..Len(Edits(j))
<1>1. Jobs \in Seq(Names)
  BY MutantsAssumption DEF Jobs
<1>2. ASSUME NEW j \in DOMAIN Jobs PROVE EditsOfOne(Edits(j))
  <2>1. Name(j) \in Names
    BY <1>1 DEF Name
  <2> QED
    BY <2>1 DEF Edits, EditsOfOne
<1> QED
  BY <1>1, <1>2, EditsLength

\* A job that a step leaves as it was, in a copy that the step leaves as it was.
LEMMA OtherJob ==
  ASSUME NEW i \in DOMAIN Jobs, JobInv(i), asked' = asked,
         step'[i] = step[i], made'[i] = made[i], line'[i] = line[i], base'[i] = base[i], saw'[i] = saw[i],
         Active(i) => Name(i) \in DOMAIN copies' /\ copies'[Name(i)] = copies[Name(i)]
  PROVE  JobInv(i)'
<1>1. Owned(i)' /\ Fresh(i)' /\ Silent(i)' /\ Told(i)'
  BY DEF JobInv, Owned, Fresh, Silent, Told, Active, Name, Jobs
<1>2. Based(i)'
  BY DEF JobInv, Based, Active, Edits, Name, Jobs
<1>3. OwnEditsOf(i)'
  BY DEF JobInv, OwnEditsOf, Edits, Name, Jobs
<1>4. StoppedForCause(i)'
  BY DEF JobInv, StoppedForCause, Edits, Name, Jobs
<1> QED
  BY <1>1, <1>2, <1>3, <1>4 DEF JobInv

\* The jobs at work are finitely many, and when none joins them they stay within the pool.
LEMMA PoolStays ==
  ASSUME MutantsTypeOK, Running' \subseteq Running
  PROVE  Cardinality(Running') <= Pool
<1>1. Running \subseteq 1..Len(Jobs) /\ Len(Jobs) \in Nat
  BY JobsTypes DEF MutantsTypeOK, Running
<1>2. IsFiniteSet(Running)
  <2>1. IsFiniteSet(1..Len(Jobs))
    BY <1>1, FS_Interval
  <2> QED
    BY <1>1, <2>1, FS_Subset
<1>3. IsFiniteSet(Running') /\ Cardinality(Running') <= Cardinality(Running)
  BY <1>2, FS_Subset
<1>4. Cardinality(Running) \in Nat /\ Cardinality(Running') \in Nat
  BY <1>2, <1>3, FS_CardinalityType
<1> QED
  BY <1>3, <1>4, MutantsAssumption DEF MutantsTypeOK

\* The types, when a step of job j changes nothing of the others'.
LEMMA TypesStay ==
  ASSUME MutantsTypeOK, asked' = asked, head' \in Trees, UNCHANGED mainVars,
         step' \in [DOMAIN Jobs -> Waits \cup {"mkdir", "copy", "init", "edit"}],
         made' \in [DOMAIN Jobs -> Nat], \A j \in DOMAIN Jobs : made'[j] <= Len(Edits(j)),
         line' \in [DOMAIN Jobs -> Exits \cup {"none", "stop"}],
         base' \in [DOMAIN Jobs -> Trees \cup {NoTree}], saw' = [j \in DOMAIN Jobs |-> saw'[j]],
         Cardinality(Running') <= Pool
  PROVE  MutantsTypeOK'
<1>1. Jobs' = Jobs
  BY DEF Jobs
<1>2. \A j \in DOMAIN Jobs : Edits(j)' = Edits(j)
  BY DEF Edits, Name, Jobs
<1> QED
  BY <1>1, <1>2 DEF MutantsTypeOK, mainVars, Waits

\* A step of a job at work keeps the invariant, when it keeps the job's own part of it.
LEMMA JobStepInv ==
  ASSUME MutantsInv, NEW j \in DOMAIN Jobs, MutantsTypeOK', asked' = asked, UNCHANGED mainVars,
         step[j] \notin Waits, JobInv(j)', Active(j)' => Active(j) \/ Name(j) \notin DOMAIN copies,
         \A i \in DOMAIN Jobs \ {j} : /\ step'[i] = step[i] /\ made'[i] = made[i] /\ line'[i] = line[i]
                                      /\ base'[i] = base[i] /\ saw'[i] = saw[i],
         copies' = copies \/ Active(j) \/ Name(j) \notin DOMAIN copies,
         \A n \in DOMAIN copies : n # Name(j) => n \in DOMAIN copies' /\ copies'[n] = copies[n]
  PROVE  MutantsInv'
<1>1. Jobs' = Jobs
  BY DEF Jobs
<1>2. ASSUME NEW i \in DOMAIN Jobs PROVE JobInv(i)'
  <2>1. CASE i = j
    BY <2>1
  <2>2. CASE i # j
    <3>1. JobInv(i)
      BY DEF MutantsInv
    <3>2. ASSUME Active(i) PROVE Name(i) \in DOMAIN copies' /\ copies'[Name(i)] = copies[Name(i)]
      <4>1. Name(i) \in DOMAIN copies
        BY <3>1, <3>2 DEF JobInv, Owned
      <4>2. copies' = copies \/ Name(i) # Name(j)
        BY <2>2, <3>2, <4>1 DEF MutantsInv, Apart
      <4> QED
        BY <4>1, <4>2
    <3> QED
      BY <2>2, <3>1, <3>2, OtherJob
  <2> QED
    BY <2>1, <2>2
<1>3. Apart'
  <2>1. ASSUME NEW i \in DOMAIN Jobs, i # j, Active(i)', Active(j)' PROVE Name(i) # Name(j)
    <3>1. Active(i) /\ Name(i) \in DOMAIN copies
      BY <2>1 DEF MutantsInv, JobInv, Owned, Active
    <3> QED
      BY <2>1, <3>1 DEF MutantsInv, Apart
  <2>2. ASSUME NEW i \in DOMAIN Jobs, NEW h \in DOMAIN Jobs, i # j, h # j, i # h, Active(i)', Active(h)'
        PROVE  Name(i) # Name(h)
    BY <2>2 DEF MutantsInv, Apart, Active
  <2>3. \A i \in DOMAIN Jobs : Name(i)' = Name(i)
    BY <1>1 DEF Name
  <2> QED
    BY <1>1, <2>1, <2>2, <2>3 DEF Apart
<1>4. MainInv'
  <2>1. main # "args" /\ main # "end" /\ j \notin 1..taken /\ (main = "raise" => j # taken + 1)
    BY DEF MutantsInv, MainInv, Waits
  <2>2. exit = "running" /\ exit' = exit /\ main' = main /\ taken' = taken /\ printed' = printed
    BY <2>1 DEF MutantsInv, MainInv, mainVars
  <2>3. taken \in Nat /\ taken <= Len(Jobs) /\ Len(Jobs) \in Nat /\ DOMAIN Jobs = 1..Len(Jobs)
    BY JobsTypes DEF MutantsInv, MutantsTypeOK
  <2>4. \A i \in 1..taken : step'[i] = "done"
    BY <2>1, <2>3 DEF MutantsInv, MainInv
  <2>5. main = "raise" => taken < Len(Jobs) /\ step'[taken + 1] = "failed"
    BY <2>1, <2>3 DEF MutantsInv, MainInv
  <2>6. EndIsWhole'
    BY <2>2 DEF EndIsWhole
  <2> QED
    BY <1>1, <2>1, <2>2, <2>4, <2>5, <2>6 DEF MutantsInv, MainInv
<1> QED
  BY <1>1, <1>2, <1>3, <1>4 DEF MutantsInv

-----------------------------------------------------------------------------
(* The steps of a job in a thread. *)

\* The directory of a job is new, or the job fails.
LEMMA MakeDirInv ==
  ASSUME MutantsInv, NEW j \in DOMAIN Jobs, MakeDir(j)
  PROVE  MutantsInv'
<1>1. UNCHANGED <<asked, head, made, line, base, saw, mainVars>> /\ step[j] = "mkdir"
  BY DEF MakeDir
<1>2. \/ step' = [step EXCEPT ![j] = "failed"] /\ copies' = copies
      \/ /\ step' = [step EXCEPT ![j] = "copy"] /\ Name(j) \notin DOMAIN copies
         /\ copies' = [m \in DOMAIN copies \cup {Name(j)} |->
                         IF m = Name(j) THEN [files |-> NoTree, nested |-> {}] ELSE copies[m]]
  BY DEF MakeDir, Go, Put
<1>3. MutantsTypeOK'
  <2>1. Running' \subseteq Running
    BY <1>1, <1>2 DEF Running, Waits, Jobs, MutantsInv, MutantsTypeOK
  <2>2. Cardinality(Running') <= Pool
    BY <2>1, PoolStays DEF MutantsInv
  <2>3. step' \in [DOMAIN Jobs -> Waits \cup {"mkdir", "copy", "init", "edit"}]
    BY <1>2 DEF MutantsInv, MutantsTypeOK, Waits
  <2>4. saw' = [i \in DOMAIN Jobs |-> saw'[i]] /\ head' \in Trees
    BY <1>1 DEF MutantsInv, MutantsTypeOK
  <2> QED
    BY <1>1, <2>2, <2>3, <2>4, TypesStay DEF MutantsInv, MutantsTypeOK
<1>4. JobInv(j)'
  <2>1. step'[j] \in {"failed", "copy"} /\ (step'[j] = "copy" => Name(j) \in DOMAIN copies')
    BY <1>2 DEF MutantsInv, MutantsTypeOK
  <2>2. Owned(j)' /\ Based(j)' /\ Fresh(j)' /\ Silent(j)' /\ Told(j)'
    BY <1>1, <2>1 DEF MutantsInv, JobInv, Owned, Based, Fresh, Silent, Told, Active, Name, Jobs
  <2>3. OwnEditsOf(j)' /\ StoppedForCause(j)'
    BY <1>1, <2>1, MutantsAssumption DEF MutantsInv, JobInv, Silent, OwnEditsOf, StoppedForCause, Edits, Name, Jobs
  <2> QED
    BY <2>2, <2>3 DEF JobInv
<1> QED
  <2>1. step[j] \notin Waits
    BY <1>1 DEF Waits
  <2>2. \A i \in DOMAIN Jobs \ {j} : step'[i] = step[i]
    BY <1>2 DEF MutantsInv, MutantsTypeOK
  <2>3. Active(j)' => Name(j) \notin DOMAIN copies
    BY <1>2 DEF MutantsInv, MutantsTypeOK, Active
  <2> QED
    BY <1>1, <1>2, <1>3, <1>4, <2>1, <2>2, <2>3, JobStepInv

\* The tree is copied as it stands.
LEMMA CopyTreeInv ==
  ASSUME MutantsInv, NEW j \in DOMAIN Jobs, CopyTree(j)
  PROVE  MutantsInv'
<1>1. /\ UNCHANGED <<asked, head, made, line, saw, mainVars>> /\ step[j] = "copy"
      /\ step' = [step EXCEPT ![j] = "init"] /\ base' = [base EXCEPT ![j] = head]
      /\ copies' = [m \in DOMAIN copies \cup {Name(j)} |->
                      IF m = Name(j) THEN [files |-> head, nested |-> {}] ELSE copies[m]]
  BY DEF CopyTree, Go, Put
<1>2. head \in Trees /\ step'[j] = "init" /\ base'[j] = head /\ Name(j) \in DOMAIN copies'
      /\ copies'[Name(j)] = [files |-> head, nested |-> {}]
  BY <1>1 DEF MutantsInv, MutantsTypeOK
<1>3. MutantsTypeOK'
  <2>1. Running' \subseteq Running
    BY <1>1 DEF Running, Waits, Jobs, MutantsInv, MutantsTypeOK
  <2>2. Cardinality(Running') <= Pool
    BY <2>1, PoolStays DEF MutantsInv
  <2>3. base' \in [DOMAIN Jobs -> Trees \cup {NoTree}]
    BY <1>1, <1>2 DEF MutantsInv, MutantsTypeOK
  <2> QED
    BY <1>1, <1>2, <2>2, <2>3, TypesStay DEF MutantsInv, MutantsTypeOK
<1>4. JobInv(j)'
  <2>1. made'[j] = 0 /\ line'[j] = "none" /\ saw'[j] = {}
    BY <1>1 DEF MutantsInv, JobInv, Fresh, Silent
  <2>2. Owned(j)' /\ Fresh(j)' /\ Silent(j)' /\ Told(j)'
    BY <1>1, <1>2, <2>1 DEF Owned, Fresh, Silent, Told, Active, Name, Jobs
  <2>3. Based(j)'
    <3>1. EditedBy(copies'[Name(j)], base'[j], Edits(j), 0)
      BY <1>2, CopyIsUnedited
    <3>2. Edits(j)' = Edits(j) /\ Name(j)' = Name(j)
      BY <1>1 DEF Edits, Name, Jobs
    <3> QED
      BY <1>2, <2>1, <3>1, <3>2 DEF Based
  <2>4. OwnEditsOf(j)' /\ StoppedForCause(j)'
    BY <2>1, MutantsAssumption DEF OwnEditsOf, StoppedForCause
  <2> QED
    BY <2>2, <2>3, <2>4 DEF JobInv
<1> QED
  <2>1. step[j] \notin Waits /\ Active(j)
    BY <1>1 DEF Waits, Active
  <2>2. \A i \in DOMAIN Jobs \ {j} : step'[i] = step[i] /\ base'[i] = base[i]
    BY <1>1 DEF MutantsInv, MutantsTypeOK
  <2> QED
    BY <1>1, <1>3, <1>4, <2>1, <2>2, JobStepInv

\* A job that goes on to its edits, or fails.
LEMMA InitFailInv ==
  ASSUME MutantsInv, NEW j \in DOMAIN Jobs, InitGit(j) \/ Fail(j)
  PROVE  MutantsInv'
<1>1. UNCHANGED <<asked, head, copies, made, line, base, saw, mainVars>>
  BY DEF InitGit, Fail
<1>2. \/ step[j] = "init" /\ step' = [step EXCEPT ![j] = "edit"]
      \/ step[j] \in {"copy", "init", "edit"} /\ step' = [step EXCEPT ![j] = "failed"]
  BY DEF InitGit, Fail, Go
<1>3. MutantsTypeOK'
  <2>1. Running' \subseteq Running
    BY <1>1, <1>2 DEF Running, Waits, Jobs, MutantsInv, MutantsTypeOK
  <2>2. Cardinality(Running') <= Pool
    BY <2>1, PoolStays DEF MutantsInv
  <2>3. step' \in [DOMAIN Jobs -> Waits \cup {"mkdir", "copy", "init", "edit"}]
    BY <1>2 DEF MutantsInv, MutantsTypeOK, Waits
  <2>4. saw' = [i \in DOMAIN Jobs |-> saw'[i]] /\ head' \in Trees
    BY <1>1 DEF MutantsInv, MutantsTypeOK
  <2> QED
    BY <1>1, <2>2, <2>3, <2>4, TypesStay DEF MutantsInv, MutantsTypeOK
<1>4. JobInv(j)'
  <2>1. (step'[j] = "edit" /\ step[j] = "init") \/ step'[j] = "failed"
    BY <1>2 DEF MutantsInv, MutantsTypeOK
  <2>2. line[j] = "none" /\ saw[j] = {}
    BY <1>2 DEF MutantsInv, JobInv, Silent
  <2>3. Owned(j)' /\ Fresh(j)' /\ Silent(j)' /\ Told(j)'
    BY <1>1, <2>1, <2>2 DEF MutantsInv, JobInv, Owned, Fresh, Silent, Told, Active, Name, Jobs
  <2>4. Based(j)'
    BY <1>1, <2>1 DEF MutantsInv, JobInv, Based, Edits, Name, Jobs
  <2>5. OwnEditsOf(j)' /\ StoppedForCause(j)'
    BY <1>1, <2>2, MutantsAssumption DEF OwnEditsOf, StoppedForCause
  <2> QED
    BY <2>3, <2>4, <2>5 DEF JobInv
<1> QED
  <2>1. step[j] \notin Waits /\ Active(j)
    BY <1>2 DEF Waits, Active
  <2>2. \A i \in DOMAIN Jobs \ {j} : step'[i] = step[i]
    BY <1>2 DEF MutantsInv, MutantsTypeOK
  <2> QED
    BY <1>1, <1>3, <1>4, <2>1, <2>2, JobStepInv

\* The harness sees what the job's copy holds: its edits, all of them.
LEMMA RunHarnessInv ==
  ASSUME MutantsInv, NEW j \in DOMAIN Jobs, RunHarness(j)
  PROVE  MutantsInv'
<1>1. PICK x \in Exits :
        /\ UNCHANGED <<asked, head, copies, made, base, mainVars>>
        /\ step[j] = "edit" /\ made[j] = Len(Edits(j)) /\ saw' = [saw EXCEPT ![j] = {copies[Name(j)]}]
        /\ step' = [step EXCEPT ![j] = "done"] /\ line' = [line EXCEPT ![j] = x]
  BY DEF RunHarness, Ends, Go, Here
<1>2. step'[j] = "done" /\ line'[j] = x /\ saw'[j] = {copies[Name(j)]}
  <2>1. saw = [i \in DOMAIN Jobs |-> saw[i]]
    BY DEF MutantsInv, MutantsTypeOK
  <2> QED
    BY <1>1, <2>1 DEF MutantsInv, MutantsTypeOK
<1>3. MutantsTypeOK'
  <2>1. Running' \subseteq Running
    BY <1>1 DEF Running, Waits, Jobs, MutantsInv, MutantsTypeOK
  <2>2. Cardinality(Running') <= Pool
    BY <2>1, PoolStays DEF MutantsInv
  <2>3. saw' = [i \in DOMAIN Jobs |-> saw'[i]]
    BY <1>1 DEF MutantsInv, MutantsTypeOK
  <2>4. line' \in [DOMAIN Jobs -> Exits \cup {"none", "stop"}]
    BY <1>1 DEF MutantsInv, MutantsTypeOK
  <2> QED
    BY <1>1, <2>2, <2>3, <2>4, TypesStay DEF MutantsInv, MutantsTypeOK, Waits
<1>4. JobInv(j)'
  <2>1. base[j] \in Trees /\ EditedBy(copies[Name(j)], base[j], Edits(j), Len(Edits(j)))
        /\ \A i \in 1..Len(Edits(j)) : Fits(base[j], Edits(j)[i])
    BY <1>1 DEF MutantsInv, JobInv, Based
  <2>2. DOMAIN Edits(j) = 1..Len(Edits(j))
    BY JobsTypes DEF MutantsInv, MutantsTypeOK
  <2>3. Edits(j)' = Edits(j)
    BY <1>1 DEF Edits, Name, Jobs
  <2>4. OwnEditsOf(j)'
    BY <1>1, <1>2, <2>1, <2>2, <2>3 DEF OwnEditsOf
  <2>5. StoppedForCause(j)'
    BY <1>2, MutantsAssumption DEF StoppedForCause
  <2>6. Owned(j)' /\ Based(j)' /\ Fresh(j)' /\ Silent(j)' /\ Told(j)'
    BY <1>2 DEF Owned, Based, Fresh, Silent, Told, Active
  <2> QED
    BY <2>4, <2>5, <2>6 DEF JobInv
<1> QED
  <2>1. step[j] \notin Waits /\ Active(j)
    BY <1>1 DEF Waits, Active
  <2>2. \A i \in DOMAIN Jobs \ {j} : step'[i] = step[i] /\ line'[i] = line[i] /\ saw'[i] = saw[i]
    BY <1>1 DEF MutantsInv, MutantsTypeOK
  <2> QED
    BY <1>1, <1>3, <1>4, <2>1, <2>2, JobStepInv

\* A harness that does not start, or prints no text: what it saw is what a run would have seen.
LEMMA LoseHarnessInv ==
  ASSUME MutantsInv, NEW j \in DOMAIN Jobs, LoseHarness(j)
  PROVE  MutantsInv'
<1>1. /\ UNCHANGED <<asked, head, copies, made, line, base, mainVars>>
      /\ step[j] = "edit" /\ made[j] = Len(Edits(j)) /\ step' = [step EXCEPT ![j] = "failed"]
      /\ saw' = saw \/ saw' = [saw EXCEPT ![j] = {copies[Name(j)]}]
  BY DEF LoseHarness, Go, Here
<1>2. /\ step'[j] = "failed" /\ line'[j] = "none" /\ saw'[j] \in {{}, {copies[Name(j)]}}
      /\ saw' = [i \in DOMAIN Jobs |-> saw'[i]] /\ \A i \in DOMAIN Jobs \ {j} : saw'[i] = saw[i]
  <2>1. saw = [i \in DOMAIN Jobs |-> saw[i]] /\ saw[j] = {} /\ line[j] = "none"
    BY <1>1 DEF MutantsInv, MutantsTypeOK, JobInv, Silent
  <2>2. DOMAIN saw = DOMAIN Jobs
    BY <2>1
  <2> QED
    BY <1>1, <2>1, <2>2 DEF MutantsInv, MutantsTypeOK
<1>3. MutantsTypeOK'
  <2>1. Running' \subseteq Running
    BY <1>1 DEF Running, Waits, Jobs, MutantsInv, MutantsTypeOK
  <2>2. Cardinality(Running') <= Pool
    BY <2>1, PoolStays DEF MutantsInv
  <2>3. step' \in [DOMAIN Jobs -> Waits \cup {"mkdir", "copy", "init", "edit"}]
    BY <1>1 DEF MutantsInv, MutantsTypeOK, Waits
  <2> QED
    BY <1>1, <1>2, <2>2, <2>3, TypesStay DEF MutantsInv, MutantsTypeOK
<1>4. JobInv(j)'
  <2>1. base[j] \in Trees /\ EditedBy(copies[Name(j)], base[j], Edits(j), Len(Edits(j)))
        /\ \A i \in 1..Len(Edits(j)) : Fits(base[j], Edits(j)[i])
    BY <1>1 DEF MutantsInv, JobInv, Based
  <2>2. DOMAIN Edits(j) = 1..Len(Edits(j))
    BY JobsTypes DEF MutantsInv, MutantsTypeOK
  <2>3. Edits(j)' = Edits(j)
    BY <1>1 DEF Edits, Name, Jobs
  <2>4. OwnEditsOf(j)'
    BY <1>1, <1>2, <2>1, <2>2, <2>3 DEF OwnEditsOf
  <2>5. StoppedForCause(j)'
    BY <1>2, MutantsAssumption DEF StoppedForCause
  <2>6. Owned(j)' /\ Based(j)' /\ Fresh(j)' /\ Silent(j)' /\ Told(j)'
    BY <1>2 DEF Owned, Based, Fresh, Silent, Told, Active
  <2> QED
    BY <2>4, <2>5, <2>6 DEF JobInv
<1> QED
  <2>1. step[j] \notin Waits /\ Active(j)
    BY <1>1 DEF Waits, Active
  <2>2. \A i \in DOMAIN Jobs \ {j} : step'[i] = step[i]
    BY <1>1 DEF MutantsInv, MutantsTypeOK
  <2> QED
    BY <1>1, <1>2, <1>3, <1>4, <2>1, <2>2, JobStepInv

\* A job that ends with a STOP for a cause of its own.
LEMMA StopInv ==
  ASSUME MutantsInv, NEW j \in DOMAIN Jobs, step[j] = "edit", Ends(j, "stop"),
         UNCHANGED <<asked, head, copies, made, base, saw, mainVars>>,
         NEW i \in DOMAIN Edits(j),
         \/ ~Fits(base[j], Edits(j)[i])
         \/ \E h \in 1..(i - 1) : Edits(j)[h].file = Edits(j)[i].file /\ Edits(j)[h].old = Edits(j)[i].old
  PROVE  MutantsInv'
<1>1. step' = [step EXCEPT ![j] = "done"] /\ line' = [line EXCEPT ![j] = "stop"]
  BY DEF Ends, Go
<1>2. step'[j] = "done" /\ line'[j] = "stop" /\ saw'[j] = {}
  BY <1>1 DEF MutantsInv, MutantsTypeOK, JobInv, Silent
<1>3. MutantsTypeOK'
  <2>1. Running' \subseteq Running
    BY <1>1 DEF Running, Waits, Jobs, MutantsInv, MutantsTypeOK
  <2>2. Cardinality(Running') <= Pool
    BY <2>1, PoolStays DEF MutantsInv
  <2>3. step' \in [DOMAIN Jobs -> Waits \cup {"mkdir", "copy", "init", "edit"}]
    BY <1>1 DEF MutantsInv, MutantsTypeOK, Waits
  <2>4. line' \in [DOMAIN Jobs -> Exits \cup {"none", "stop"}]
    BY <1>1 DEF MutantsInv, MutantsTypeOK
  <2>5. saw' = [k \in DOMAIN Jobs |-> saw'[k]] /\ head' \in Trees
    BY DEF MutantsInv, MutantsTypeOK
  <2> QED
    BY <2>2, <2>3, <2>4, <2>5, TypesStay DEF MutantsInv, MutantsTypeOK
<1>4. JobInv(j)'
  <2>1. Edits(j)' = Edits(j)
    BY DEF Edits, Name, Jobs
  <2>2. OwnEditsOf(j)'
    BY <1>2 DEF OwnEditsOf
  <2>3. StoppedForCause(j)'
    BY <1>2, <2>1, MutantsAssumption DEF StoppedForCause
  <2>4. Owned(j)' /\ Based(j)' /\ Fresh(j)' /\ Silent(j)' /\ Told(j)'
    BY <1>2 DEF Owned, Based, Fresh, Silent, Told, Active
  <2> QED
    BY <2>2, <2>3, <2>4 DEF JobInv
<1> QED
  <2>1. step[j] \notin Waits /\ Active(j)
    BY DEF Waits, Active
  <2>2. \A k \in DOMAIN Jobs \ {j} : step'[k] = step[k] /\ line'[k] = line[k]
    BY <1>1 DEF MutantsInv, MutantsTypeOK
  <2> QED
    BY <1>3, <1>4, <2>1, <2>2, JobStepInv

\* A job that has made one edit more, where it fits.
LEMMA EditInv ==
  ASSUME MutantsInv, NEW j \in DOMAIN Jobs, Editing(j), NEW d, Put(Name(j), d),
         made' = [made EXCEPT ![j] = @ + 1],
         UNCHANGED <<asked, head, step, line, base, saw, mainVars>>,
         EditedBy(d, base[j], Edits(j), made[j] + 1), Fits(base[j], Edits(j)[made[j] + 1])
  PROVE  MutantsInv'
<1>1. /\ step[j] = "edit" /\ made[j] < Len(Edits(j)) /\ made[j] \in Nat /\ made'[j] = made[j] + 1
      /\ Len(Edits(j)) \in Nat
  BY JobsTypes DEF Editing, MutantsInv, MutantsTypeOK
<1>2. copies' = [m \in DOMAIN copies \cup {Name(j)} |-> IF m = Name(j) THEN d ELSE copies[m]]
  BY DEF Put
<1>3. MutantsTypeOK'
  <2>1. Running' \subseteq Running
    BY DEF Running, Waits, Jobs
  <2>2. Cardinality(Running') <= Pool
    BY <2>1, PoolStays DEF MutantsInv
  <2>3. made' \in [DOMAIN Jobs -> Nat] /\ \A k \in DOMAIN Jobs : made'[k] <= Len(Edits(k))
    BY <1>1 DEF MutantsInv, MutantsTypeOK
  <2>4. saw' = [k \in DOMAIN Jobs |-> saw'[k]] /\ head' \in Trees
    BY DEF MutantsInv, MutantsTypeOK
  <2> QED
    BY <2>2, <2>3, <2>4, TypesStay DEF MutantsInv, MutantsTypeOK
<1>4. JobInv(j)'
  <2>1. Edits(j)' = Edits(j) /\ Name(j)' = Name(j)
    BY DEF Edits, Name, Jobs
  <2>2. Based(j)'
    <3>1. base[j] \in Trees /\ \A i \in 1..made[j] : Fits(base[j], Edits(j)[i])
      BY <1>1 DEF MutantsInv, JobInv, Based
    <3>2. \A i \in 1..(made[j] + 1) : Fits(base[j], Edits(j)[i])
      BY <1>1, <3>1
    <3>3. copies'[Name(j)] = d
      BY <1>2
    <3> QED
      BY <1>1, <2>1, <3>1, <3>2, <3>3 DEF Based
  <2>3. Owned(j)' /\ Fresh(j)' /\ Silent(j)' /\ Told(j)'
    BY <1>1, <1>2, <2>1 DEF MutantsInv, JobInv, Owned, Fresh, Silent, Told, Active
  <2>4. OwnEditsOf(j)' /\ StoppedForCause(j)'
    BY <2>1 DEF MutantsInv, JobInv, OwnEditsOf, StoppedForCause
  <2> QED
    BY <2>2, <2>3, <2>4 DEF JobInv
<1> QED
  <2>1. step[j] \notin Waits /\ Active(j)
    BY <1>1 DEF Waits, Active
  <2>2. \A k \in DOMAIN Jobs \ {j} : made'[k] = made[k]
    BY DEF MutantsInv, MutantsTypeOK
  <2> QED
    BY <1>2, <1>3, <1>4, <2>1, <2>2, JobStepInv

\* A text is replaced where it stands once, and is a STOP elsewhere.
LEMMA ReplaceInv ==
  ASSUME MutantsInv, NEW j \in DOMAIN Jobs, Replace(j)
  PROVE  MutantsInv'
<1> DEFINE c == copies[Name(j)]  es == Edits(j)  n == made[j]  e == es[n + 1]  b == base[j]
<1>1. /\ Editing(j) /\ step[j] = "edit" /\ n < Len(es) /\ ~Nested(e) /\ e.file \in DOMAIN c.files
      /\ UNCHANGED <<asked, head, base, saw, mainVars>>
  BY DEF Replace, Editing, Edit, Here
<1>2. EditsOfOne(es) /\ Len(es) \in Nat /\ DOMAIN es = 1..Len(es) /\ n \in Nat
  BY JobsTypes DEF MutantsInv, MutantsTypeOK
<1>3. EditedBy(c, b, es, n) /\ DOMAIN c.files = DOMAIN b
  BY <1>1 DEF MutantsInv, JobInv, Based, EditedBy
<1>4. \/ Places(c.files[e.file], e) = Places(b[e.file], e)
      \/ /\ Places(c.files[e.file], e) = {}
         /\ \E h \in 1..n : es[h].file = e.file /\ es[h].old = e.old
  BY <1>1, <1>2, <1>3, PlacesLeft
<1>5. CASE Once(c.files[e.file], e)
  <2> DEFINE d == [files |-> [c.files EXCEPT ![e.file] = Replaced(c.files[e.file], e)], nested |-> c.nested]
  <2>1. Put(Name(j), d) /\ made' = [made EXCEPT ![j] = @ + 1] /\ UNCHANGED <<step, line>>
    BY <1>5 DEF Replace, Edit, Here
  <2>2. EditedBy(d, b, es, n + 1)
    BY <1>1, <1>2, <1>3, ReplaceMakes
  <2>3. Places(c.files[e.file], e) # {}
    BY <1>5, FS_EmptySet DEF Once
  <2>4. Fits(b, e)
    BY <1>1, <1>3, <1>4, <1>5, <2>3 DEF Fits, Once
  <2> QED
    BY <1>1, <2>1, <2>2, <2>4, EditInv
<1>6. CASE ~Once(c.files[e.file], e)
  <2>1. Ends(j, "stop") /\ UNCHANGED <<copies, made>>
    BY <1>6 DEF Replace, Edit, Here
  <2>2. \/ ~Fits(b, e)
        \/ \E h \in 1..n : es[h].file = e.file /\ es[h].old = e.old
    BY <1>1, <1>4, <1>6 DEF Fits, Once
  <2>3. n + 1 \in DOMAIN es /\ 1..n = 1..((n + 1) - 1)
    BY <1>1, <1>2
  <2> QED
    BY <1>1, <2>1, <2>2, <2>3, StopInv
<1> QED
  BY <1>5, <1>6

\* A nested checkout is made where no file is, and is a STOP elsewhere.
LEMMA NestInv ==
  ASSUME MutantsInv, NEW j \in DOMAIN Jobs, Nest(j)
  PROVE  MutantsInv'
<1> DEFINE c == copies[Name(j)]  es == Edits(j)  n == made[j]  e == es[n + 1]  b == base[j]
<1>1. /\ Editing(j) /\ step[j] = "edit" /\ n < Len(es) /\ Nested(e)
      /\ UNCHANGED <<asked, head, base, saw, mainVars>>
  BY DEF Nest, Editing, Edit
<1>2. EditsOfOne(es) /\ Len(es) \in Nat /\ DOMAIN es = 1..Len(es) /\ n \in Nat
  BY JobsTypes DEF MutantsInv, MutantsTypeOK
<1>3. EditedBy(c, b, es, n) /\ DOMAIN c.files = DOMAIN b
  BY <1>1 DEF MutantsInv, JobInv, Based, EditedBy
<1>4. CASE e.file \in DOMAIN c.files \cup c.nested
  <2>1. Ends(j, "stop") /\ UNCHANGED <<copies, made>>
    BY <1>4 DEF Nest, Edit, Here
  <2>2. \/ ~Fits(b, e)
        \/ \E h \in 1..n : es[h].file = e.file /\ es[h].old = e.old
    <3>1. CASE e.file \in DOMAIN b
      BY <1>1, <3>1 DEF Fits
    <3>2. CASE e.file \in c.nested
      <4>1. PICK h \in 1..n : Nested(es[h]) /\ es[h].file = e.file
        BY <1>3, <3>2 DEF EditedBy
      <4> QED
        BY <1>1, <4>1 DEF Nested
    <3> QED
      BY <1>3, <1>4, <3>1, <3>2
  <2>3. n + 1 \in DOMAIN es /\ 1..n = 1..((n + 1) - 1)
    BY <1>1, <1>2
  <2> QED
    BY <1>1, <2>1, <2>2, <2>3, StopInv
<1>5. CASE e.file \notin DOMAIN c.files \cup c.nested
  <2> DEFINE d == [files |-> c.files, nested |-> c.nested \cup {e.file}]
  <2>1. Put(Name(j), d) /\ made' = [made EXCEPT ![j] = @ + 1] /\ UNCHANGED <<step, line>>
    BY <1>5 DEF Nest, Edit, Here
  <2>2. EditedBy(d, b, es, n + 1)
    BY <1>1, <1>2, <1>3, NestMakes
  <2>3. Fits(b, e)
    BY <1>1, <1>3, <1>5 DEF Fits
  <2> QED
    BY <1>1, <2>1, <2>2, <2>3, EditInv
<1> QED
  BY <1>4, <1>5

\* A free thread takes a job.
LEMMA TakeInv ==
  ASSUME MutantsInv, NEW j \in DOMAIN Jobs, Take(j)
  PROVE  MutantsInv'
<1>1. /\ UNCHANGED <<asked, head, copies, made, line, base, saw, mainVars>>
      /\ main \in {"collect", "raise"} /\ Cardinality(Running) < Pool
      /\ step[j] = "queued" /\ step' = [step EXCEPT ![j] = "mkdir"]
  BY DEF Take, Go
<1>2. Jobs' = Jobs
  BY <1>1 DEF Jobs
<1>3. step'[j] = "mkdir" /\ \A i \in DOMAIN Jobs \ {j} : step'[i] = step[i]
  BY <1>1 DEF MutantsInv, MutantsTypeOK
<1>4. MutantsTypeOK'
  <2>1. Running' = Running \cup {j} /\ j \notin Running
    BY <1>1, <1>2, <1>3 DEF Running, Waits
  <2>2. Len(Jobs) \in Nat /\ Running \subseteq 1..Len(Jobs)
    BY JobsTypes DEF MutantsInv, MutantsTypeOK, Running
  <2>3. IsFiniteSet(Running)
    <3>1. IsFiniteSet(1..Len(Jobs))
      BY <2>2, FS_Interval
    <3> QED
      BY <2>2, <3>1, FS_Subset
  <2>4. Cardinality(Running') = Cardinality(Running) + 1 /\ Cardinality(Running) \in Nat
    BY <2>1, <2>3, FS_AddElement, FS_CardinalityType
  <2>5. Cardinality(Running') <= Pool
    BY <1>1, <2>4, MutantsAssumption
  <2>6. step' \in [DOMAIN Jobs -> Waits \cup {"mkdir", "copy", "init", "edit"}]
    BY <1>1 DEF MutantsInv, MutantsTypeOK
  <2>7. saw' = [i \in DOMAIN Jobs |-> saw'[i]] /\ head' \in Trees
    BY <1>1 DEF MutantsInv, MutantsTypeOK
  <2> QED
    BY <1>1, <2>5, <2>6, <2>7, TypesStay DEF MutantsInv, MutantsTypeOK
<1>5. ASSUME NEW i \in DOMAIN Jobs PROVE JobInv(i)'
  <2>1. JobInv(i)
    BY DEF MutantsInv
  <2>2. CASE i # j
    BY <1>1, <1>3, <2>1, <2>2, OtherJob DEF JobInv, Owned
  <2>3. CASE i = j
    <3>1. Owned(j)' /\ Based(j)' /\ Fresh(j)' /\ Silent(j)' /\ Told(j)'
      BY <1>1, <1>3, <2>1, <2>3 DEF JobInv, Owned, Based, Fresh, Silent, Told, Active
    <3>2. OwnEditsOf(j)' /\ StoppedForCause(j)'
      BY <1>1, <2>1, <2>3, MutantsAssumption DEF JobInv, Silent, OwnEditsOf, StoppedForCause
    <3> QED
      BY <2>3, <3>1, <3>2 DEF JobInv
  <2> QED
    BY <2>2, <2>3
<1>6. Apart'
  <2>1. \A i \in DOMAIN Jobs : Name(i)' = Name(i) /\ (Active(i)' => Active(i))
    BY <1>2, <1>3 DEF Name, Active
  <2> QED
    BY <1>2, <2>1 DEF MutantsInv, Apart
<1>7. MainInv'
  <2>1. exit = "running" /\ UNCHANGED <<exit, main, taken, printed>>
    BY <1>1 DEF MutantsInv, MainInv, mainVars
  <2>2. taken \in Nat /\ taken <= Len(Jobs) /\ DOMAIN Jobs = 1..Len(Jobs) /\ Len(Jobs) \in Nat
    BY JobsTypes DEF MutantsInv, MutantsTypeOK
  <2>3. \A i \in 1..taken : step'[i] = "done"
    BY <1>1, <1>3, <2>2 DEF MutantsInv, MainInv
  <2>4. main = "raise" => taken < Len(Jobs) /\ step'[taken + 1] = "failed"
    BY <1>1, <1>3, <2>2 DEF MutantsInv, MainInv
  <2>5. EndIsWhole'
    BY <2>1 DEF EndIsWhole
  <2> QED
    BY <1>1, <1>2, <2>1, <2>3, <2>4, <2>5 DEF MutantsInv, MainInv
<1> QED
  BY <1>2, <1>4, <1>5, <1>6, <1>7 DEF MutantsInv

-----------------------------------------------------------------------------
(* The steps of main, and the commits of others. *)

\* What stays of the jobs when none of them moves and no copy in use is touched.
LEMMA JobsStay ==
  ASSUME MutantsInv, UNCHANGED <<asked, step, made, line, base, saw>>,
         \A j \in DOMAIN Jobs : Active(j) => Name(j) \in DOMAIN copies' /\ copies'[Name(j)] = copies[Name(j)]
  PROVE  Jobs' = Jobs /\ (\A j \in DOMAIN Jobs : JobInv(j)') /\ Apart' /\ Running' = Running
<1>1. Jobs' = Jobs
  BY DEF Jobs
<1>2. \A j \in DOMAIN Jobs : JobInv(j)'
  BY OtherJob DEF MutantsInv
<1>3. \A j \in DOMAIN Jobs : Name(j)' = Name(j) /\ Active(j)' = Active(j)
  BY <1>1 DEF Name, Active
<1>4. Apart'
  BY <1>1, <1>3 DEF MutantsInv, Apart
<1>5. Running' = Running
  BY <1>1 DEF Running
<1> QED
  BY <1>1, <1>2, <1>4, <1>5

\* A commit, or no step at all.
LEMMA CommitInv ==
  ASSUME MutantsInv, Commit \/ UNCHANGED mutantsVars
  PROVE  MutantsInv'
<1>1. UNCHANGED <<asked, copies, step, made, line, base, saw, taken, main, printed, exit>> /\ head' \in Trees
  BY DEF Commit, mutantsVars, poolVars, mainVars, MutantsInv, MutantsTypeOK
<1>2. \A j \in DOMAIN Jobs : Active(j) => Name(j) \in DOMAIN copies' /\ copies'[Name(j)] = copies[Name(j)]
  BY <1>1 DEF MutantsInv, JobInv, Owned
<1>3. Jobs' = Jobs /\ (\A j \in DOMAIN Jobs : JobInv(j)') /\ Apart' /\ Running' = Running
  BY <1>1, <1>2, JobsStay
<1>4. MutantsTypeOK'
  <2>1. \A j \in DOMAIN Jobs : Edits(j)' = Edits(j)
    BY <1>3 DEF Edits, Name
  <2> QED
    BY <1>1, <1>3, <2>1 DEF MutantsInv, MutantsTypeOK
<1>5. MainInv'
  <2>1. EndIsWhole'
    <3>1. \A j \in DOMAIN Jobs : Name(j)' = Name(j)
      BY <1>3 DEF Name
    <3> QED
      BY <1>1, <1>3, <3>1 DEF MutantsInv, MainInv, EndIsWhole
  <2> QED
    BY <1>1, <1>3, <2>1 DEF MutantsInv, MainInv
<1> QED
  BY <1>3, <1>4, <1>5 DEF MutantsInv

\* No mutant of the name, or the jobs are submitted.
LEMMA BeginInv ==
  ASSUME MutantsInv, NoSuchMutant \/ Submit
  PROVE  MutantsInv'
<1>1. /\ UNCHANGED <<asked, head, step, made, line, base, saw, taken, printed>> /\ main = "args"
      /\ (main' = "end" /\ exit' = "2") \/ (main' = "collect" /\ exit' = exit)
  BY DEF NoSuchMutant, Submit, poolVars
<1>2. \A j \in DOMAIN Jobs : step[j] = "queued"
  BY <1>1 DEF MutantsInv, MainInv
<1>3. Jobs' = Jobs /\ (\A j \in DOMAIN Jobs : JobInv(j)') /\ Apart' /\ Running' = Running
  BY <1>1, <1>2, JobsStay DEF Active
<1>4. exit = "running" /\ printed = <<>>
  BY <1>1 DEF MutantsInv, MainInv
<1>5. MutantsTypeOK'
  <2>1. \A j \in DOMAIN Jobs : Edits(j)' = Edits(j)
    BY <1>3 DEF Edits, Name
  <2> QED
    BY <1>1, <1>3, <1>4, <2>1 DEF MutantsInv, MutantsTypeOK
<1>6. MainInv'
  <2>1. EndIsWhole'
    BY <1>1, <1>2, <1>3, <1>4 DEF EndIsWhole
  <2> QED
    BY <1>1, <1>2, <1>3, <1>4, <2>1 DEF MutantsInv, MainInv, Waits
<1> QED
  BY <1>3, <1>5, <1>6 DEF MutantsInv

\* The next result, in the order of the jobs.
LEMMA CollectInv ==
  ASSUME MutantsInv, Collect
  PROVE  MutantsInv'
<1>1. /\ UNCHANGED <<asked, head, copies, step, made, line, base, saw, main, printed, exit>>
      /\ main = "collect" /\ taken < Len(Jobs) /\ step[taken + 1] = "done" /\ taken' = taken + 1
  BY DEF Collect, poolVars
<1>2. \A j \in DOMAIN Jobs : Active(j) => Name(j) \in DOMAIN copies' /\ copies'[Name(j)] = copies[Name(j)]
  BY <1>1 DEF MutantsInv, JobInv, Owned
<1>3. Jobs' = Jobs /\ (\A j \in DOMAIN Jobs : JobInv(j)') /\ Apart' /\ Running' = Running
  BY <1>1, <1>2, JobsStay
<1>4. taken \in Nat /\ Len(Jobs) \in Nat /\ exit = "running"
  BY <1>1, JobsTypes DEF MutantsInv, MutantsTypeOK, MainInv
<1>5. MutantsTypeOK'
  <2>1. \A j \in DOMAIN Jobs : Edits(j)' = Edits(j)
    BY <1>3 DEF Edits, Name
  <2>2. taken' \in 0..Len(Jobs)
    BY <1>1, <1>4
  <2> QED
    BY <1>1, <1>3, <2>1, <2>2 DEF MutantsInv, MutantsTypeOK
<1>6. MainInv'
  <2>1. EndIsWhole'
    BY <1>1, <1>4 DEF EndIsWhole
  <2>2. \A i \in 1..taken' : step[i] = "done"
    BY <1>1, <1>4 DEF MutantsInv, MainInv
  <2> QED
    BY <1>1, <1>3, <1>4, <2>1, <2>2 DEF MutantsInv, MainInv
<1> QED
  BY <1>3, <1>5, <1>6 DEF MutantsInv

\* The next result is an exception: what is queued is cancelled.
LEMMA RaiseInv ==
  ASSUME MutantsInv, Raise
  PROVE  MutantsInv'
<1>1. /\ UNCHANGED <<asked, head, copies, made, line, base, saw, taken, printed, exit>>
      /\ main = "collect" /\ taken < Len(Jobs) /\ step[taken + 1] = "failed" /\ main' = "raise"
      /\ step' = [j \in DOMAIN Jobs |-> IF step[j] = "queued" THEN "cancelled" ELSE step[j]]
  BY DEF Raise
<1>2. Jobs' = Jobs
  BY <1>1 DEF Jobs
<1>3. taken \in Nat /\ Len(Jobs) \in Nat /\ DOMAIN Jobs = 1..Len(Jobs) /\ exit = "running"
  BY <1>1, JobsTypes DEF MutantsInv, MutantsTypeOK, MainInv
<1>4. ASSUME NEW j \in DOMAIN Jobs PROVE JobInv(j)'
  <2>1. JobInv(j)
    BY DEF MutantsInv
  <2>2. CASE step[j] # "queued"
    BY <1>1, <2>1, <2>2, OtherJob DEF JobInv, Owned
  <2>3. CASE step[j] = "queued"
    <3>1. Owned(j)' /\ Based(j)' /\ Fresh(j)' /\ Silent(j)' /\ Told(j)'
      BY <1>1, <2>1, <2>3 DEF JobInv, Owned, Based, Fresh, Silent, Told, Active
    <3>2. OwnEditsOf(j)' /\ StoppedForCause(j)'
      BY <1>1, <2>1, <2>3, MutantsAssumption DEF JobInv, Silent, OwnEditsOf, StoppedForCause
    <3> QED
      BY <3>1, <3>2 DEF JobInv
  <2> QED
    BY <2>2, <2>3
<1>5. Apart'
  <2>1. \A i \in DOMAIN Jobs : Name(i)' = Name(i) /\ (Active(i)' => Active(i))
    BY <1>1, <1>2 DEF Name, Active
  <2> QED
    BY <1>2, <2>1 DEF MutantsInv, Apart
<1>6. MutantsTypeOK'
  <2>1. \A j \in DOMAIN Jobs : Edits(j)' = Edits(j)
    BY <1>2 DEF Edits, Name
  <2>2. step' \in [DOMAIN Jobs -> Waits \cup {"mkdir", "copy", "init", "edit"}]
    BY <1>1 DEF MutantsInv, MutantsTypeOK, Waits
  <2>3. Running' \subseteq Running
    BY <1>1, <1>2 DEF Running, Waits
  <2>4. Cardinality(Running') <= Pool
    BY <2>3, PoolStays DEF MutantsInv
  <2> QED
    BY <1>1, <1>2, <2>1, <2>2, <2>4 DEF MutantsInv, MutantsTypeOK
<1>7. MainInv'
  <2>1. EndIsWhole'
    BY <1>1, <1>3 DEF EndIsWhole
  <2>2. \A i \in 1..taken : step'[i] = "done"
    BY <1>1, <1>3 DEF MutantsInv, MainInv
  <2>3. step'[taken + 1] = "failed"
    BY <1>1, <1>3
  <2> QED
    BY <1>1, <1>2, <1>3, <2>1, <2>2, <2>3 DEF MutantsInv, MainInv
<1> QED
  BY <1>2, <1>4, <1>5, <1>6, <1>7 DEF MutantsInv

\* The end after an exception, when no thread is at work.
LEMMA EndRaisedInv ==
  ASSUME MutantsInv, EndRaised
  PROVE  MutantsInv'
<1>1. /\ UNCHANGED <<asked, head, copies, step, made, line, base, saw, taken, printed>>
      /\ main = "raise" /\ Running = {} /\ main' = "end" /\ exit' = "1"
  BY DEF EndRaised, poolVars
<1>2. \A j \in DOMAIN Jobs : Active(j) => Name(j) \in DOMAIN copies' /\ copies'[Name(j)] = copies[Name(j)]
  BY <1>1 DEF MutantsInv, JobInv, Owned
<1>3. Jobs' = Jobs /\ (\A j \in DOMAIN Jobs : JobInv(j)') /\ Apart' /\ Running' = Running
  BY <1>1, <1>2, JobsStay
<1>4. /\ taken \in Nat /\ Len(Jobs) \in Nat /\ DOMAIN Jobs = 1..Len(Jobs) /\ exit = "running" /\ printed = <<>>
      /\ taken < Len(Jobs) /\ step[taken + 1] = "failed" /\ \A i \in 1..taken : step[i] = "done"
  BY <1>1, JobsTypes DEF MutantsInv, MutantsTypeOK, MainInv
<1>5. MutantsTypeOK'
  <2>1. \A j \in DOMAIN Jobs : Edits(j)' = Edits(j)
    BY <1>3 DEF Edits, Name
  <2> QED
    BY <1>1, <1>3, <2>1 DEF MutantsInv, MutantsTypeOK
<1>6. MainInv'
  <2>1. taken + 1 \in DOMAIN Jobs /\ 1..((taken + 1) - 1) = 1..taken
    BY <1>4
  <2>2. \E j \in DOMAIN Jobs : step[j] = "failed" /\ \A i \in 1..(j - 1) : step[i] = "done"
    BY <1>4, <2>1
  <2>3. EndIsWhole'
    BY <1>1, <1>3, <1>4, <2>2 DEF EndIsWhole
  <2>4. \A j \in DOMAIN Jobs : step[j] \in Waits
    BY <1>1 DEF Running
  <2> QED
    BY <1>1, <1>3, <1>4, <2>3, <2>4 DEF MutantsInv, MainInv, Waits
<1> QED
  BY <1>3, <1>5, <1>6 DEF MutantsInv

\* The lines, and the copies removed as far as they can be.
LEMMA ReportInv ==
  ASSUME MutantsInv, Report
  PROVE  MutantsInv'
<1>1. /\ UNCHANGED <<asked, head, step, made, line, base, saw, taken>>
      /\ main = "collect" /\ taken = Len(Jobs) /\ main' = "end" /\ exit' = "0"
      /\ printed' = [j \in DOMAIN Jobs |-> <<Name(j), line[j]>>]
  BY DEF Report, poolVars
<1>2. Len(Jobs) \in Nat /\ DOMAIN Jobs = 1..Len(Jobs)
  BY JobsTypes DEF MutantsInv, MutantsTypeOK
<1>3. \A j \in DOMAIN Jobs : step[j] = "done"
  BY <1>1, <1>2 DEF MutantsInv, MainInv
<1>4. Jobs' = Jobs /\ (\A j \in DOMAIN Jobs : JobInv(j)') /\ Apart' /\ Running' = Running
  BY <1>1, <1>3, JobsStay DEF Active
<1>5. MutantsTypeOK'
  <2>1. \A j \in DOMAIN Jobs : Edits(j)' = Edits(j)
    BY <1>4 DEF Edits, Name
  <2> QED
    BY <1>1, <1>4, <2>1 DEF MutantsInv, MutantsTypeOK
<1>6. MainInv'
  <2>1. Len(printed') = Len(Jobs)
    BY <1>1, <1>2
  <2>2. \A j \in DOMAIN Jobs : line[j] # "none"
    BY <1>3, MutantsAssumption DEF MutantsInv, JobInv, Told
  <2>3. \A j \in DOMAIN Jobs : Name(j)' = Name(j)
    BY <1>4 DEF Name
  <2>4. EndIsWhole'
    BY <1>1, <1>3, <1>4, <2>1, <2>2, <2>3 DEF EndIsWhole
  <2> QED
    BY <1>1, <1>2, <1>3, <1>4, <2>4 DEF MutantsInv, MainInv, Waits
<1> QED
  BY <1>4, <1>5, <1>6 DEF MutantsInv

-----------------------------------------------------------------------------
(* The theorems. *)

\* Nothing is begun.
LEMMA InitInv == MutantsInit => MutantsInv
<1> SUFFICES ASSUME MutantsInit PROVE MutantsInv
  OBVIOUS
<1>1. Len(Jobs) \in Nat /\ DOMAIN Jobs = 1..Len(Jobs) /\ \A j \in DOMAIN Jobs : Len(Edits(j)) \in Nat
  BY JobsTypes DEF MutantsInit
<1>2. MutantsTypeOK
  <2>1. Running = {}
    BY DEF MutantsInit, Running, Waits
  <2>2. Cardinality(Running) <= Pool
    BY <2>1, FS_EmptySet, MutantsAssumption
  <2> QED
    BY <1>1, <2>2 DEF MutantsInit, MutantsTypeOK, Waits
<1>3. ASSUME NEW j \in DOMAIN Jobs PROVE JobInv(j)
  <2>1. step[j] = "queued" /\ made[j] = 0 /\ line[j] = "none" /\ saw[j] = {}
    BY DEF MutantsInit
  <2> QED
    BY <2>1, MutantsAssumption DEF JobInv, Owned, Based, Fresh, Silent, Told, Active, OwnEditsOf, StoppedForCause
<1>4. Apart
  BY DEF MutantsInit, Apart, Active
<1>5. MainInv
  BY DEF MutantsInit, MainInv, EndIsWhole
<1> QED
  BY <1>2, <1>3, <1>4, <1>5 DEF MutantsInv

\* The invariant holds in every state.
LEMMA MutantsInvariant == MutantsSpec => []MutantsInv
<1>1. MutantsInv /\ [MutantsNext]_mutantsVars => MutantsInv'
  <2> SUFFICES ASSUME MutantsInv, [MutantsNext]_mutantsVars PROVE MutantsInv'
    OBVIOUS
  <2>1. CASE Commit \/ UNCHANGED mutantsVars
    BY <2>1, CommitInv
  <2>2. CASE Main
    BY <2>2, BeginInv, CollectInv, RaiseInv, EndRaisedInv, ReportInv DEF Main
  <2>3. ASSUME NEW j \in DOMAIN Jobs, Take(j) \/ Job(j) PROVE MutantsInv'
    BY <2>3, TakeInv, MakeDirInv, CopyTreeInv, InitFailInv, ReplaceInv, NestInv, RunHarnessInv, LoseHarnessInv DEF Job
  <2> QED
    BY <2>1, <2>2, <2>3 DEF MutantsNext
<1> QED
  BY InitInv, <1>1, PTL DEF MutantsSpec

\* mutants.py's header, for any table, trees and number of threads: the harness runs over a tree that
\* was committed with the edits of its mutant alone, whatever other threads and commits do meanwhile.
THEOREM EditsAreItsOwn == MutantsSpec => []OwnEditsAlone
<1>1. MutantsInv => OwnEditsAlone
  BY DEF MutantsInv, JobInv, OwnEditsAlone
<1> QED
  BY MutantsInvariant, <1>1, PTL

\* A mutant is not run only for an edit that the tree does not hold once, or one made before.
THEOREM StopsHaveCauses == MutantsSpec => []StopsForCause
<1>1. MutantsInv => StopsForCause
  BY DEF MutantsInv, JobInv, StopsForCause
<1> QED
  BY MutantsInvariant, <1>1, PTL

\* A run's end is whole: all lines, or the first exception and no thread, or nothing begun.
THEOREM EndsAreWhole == MutantsSpec => []EndIsWhole
<1>1. MutantsInv => EndIsWhole
  BY DEF MutantsInv, MainInv
<1> QED
  BY MutantsInvariant, <1>1, PTL

\* The types, and never more jobs at work than the pool has threads.
THEOREM PoolIsKept == MutantsSpec => []MutantsTypeOK
<1>1. MutantsInv => MutantsTypeOK
  BY DEF MutantsInv
<1> QED
  BY MutantsInvariant, <1>1, PTL
=============================================================================
