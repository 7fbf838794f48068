-------------------------- MODULE TreeChecksProofs --------------------------
(***************************************************************************)
(* For every tree of functions, every tree of files and every content of   *)
(* the tables: what treecheck.py reports is so, and what it passes is in   *)
(* order.  check_no_recursion's walk comes first, then the blanking that   *)
(* the checks share, then the checks.                                      *)
(*                                                                         *)
(* Blanking reads a text from the left and each mode follows from the one  *)
(* before, so its lemmas are inductions along the text.  ByOnes is that    *)
(* induction for a set of numbers, from the well-foundedness of            *)
(* cardinality on finite sets.                                             *)
(***************************************************************************)
EXTENDS TreeChecks, SequenceTheorems, FiniteSetTheorems, WellFoundedInduction, TLAPS

(* The inductive invariant, in named parts. *)

\* Nothing is walked before every file is read.
Fresh ==
  pc = "read" => /\ path = <<>> /\ returned = <<>> /\ bad = {} /\ seen = {}
                 /\ state = [f \in Names |-> 0]

\* The path is a path of calls; state 1 is being on it.
Chain == \A i \in 1..(Len(path) - 1) : path[i + 1] \in Calls(path[i])
OnPath ==
  /\ \A f \in Names : state[f] = 1 => \E i \in 1..Len(path) : path[i] = f
  /\ \A i \in 1..Len(path) : state[path[i]] = 1

\* What is left of a loop is part of its function's calls; what is past was walked, or is being walked.
LeftOver ==
  \A i \in 1..Len(path) :
    /\ left[path[i]] \subseteq Calls(path[i])
    /\ \A c \in Calls(path[i]) \ left[path[i]] :
         bad # {} \/ state[c] = 2 \/ (i < Len(path) /\ c = path[i + 1])

\* State 2 is having returned, after every function it calls unless a cycle was reported.
Walked == \A f \in Names : state[f] = 2 => \E j \in 1..Len(returned) : returned[j] = f
Ordered ==
  \A i \in 1..Len(returned) : \A c \in Calls(returned[i]) :
    bad # {} \/ \E j \in 1..Len(returned) : j < i /\ returned[j] = c

\* A set of functions is noted with the report of its cycle.
Noted == seen # {} => bad # {}

\* At the end every function was walked.
Complete == pc = "done" => \A f \in DOMAIN body : state[f] = 2

WalkInv ==
  /\ TypeOK /\ Fresh /\ Chain /\ PathIsSimple /\ OnPath /\ LeftOver
  /\ Walked /\ Ordered /\ Noted /\ Complete /\ ReportsAreCycles

-----------------------------------------------------------------------------
\* A walk that has not begun keeps the invariant.
LEMMA InitInv == Init => WalkInv
<1> SUFFICES ASSUME Init PROVE WalkInv
  OBVIOUS
<1>1. path = <<>> /\ Len(path) = 0 /\ returned = <<>> /\ Len(returned) = 0 /\ bad = {} /\ seen = {}
  BY DEF Init
<1>2. source \in Seq(Definitions) /\ Len(source) \in Nat
  BY RecursionAssumption DEF Init
<1>3. TypeOK
  BY <1>1, <1>2 DEF Init, TypeOK
<1> QED
  BY <1>1, <1>3 DEF Init, WalkInv, Fresh, Chain, PathIsSimple, OnPath, LeftOver, Walked, Ordered, Noted,
     Complete, ReportsAreCycles

(* Reading: the walk has not begun. *)

\* A definition read keeps the invariant.
LEMMA ReadInv == WalkInv /\ ReadFunction => WalkInv'
<1> SUFFICES ASSUME WalkInv, ReadFunction PROVE WalkInv'
  OBVIOUS
<1>1. /\ pc = "read" /\ path = <<>> /\ returned = <<>> /\ bad = {} /\ seen = {}
      /\ state = [f \in Names |-> 0]
  BY DEF WalkInv, Fresh, ReadFunction
<1>2. /\ pc' = "read" /\ path' = <<>> /\ returned' = <<>> /\ bad' = {} /\ seen' = {}
      /\ state' = [f \in Names |-> 0] /\ left' = left
  BY <1>1 DEF ReadFunction
<1>3. Len(path') = 0 /\ Len(returned') = 0
  BY <1>2
<1>4. source \in Seq(Definitions) /\ Len(source) \in Nat
  BY RecursionAssumption DEF WalkInv, TypeOK
<1>5. read \in Nat /\ read < Len(source)
  BY <1>4 DEF WalkInv, TypeOK, ReadFunction
<1>6. source[read + 1] \in Definitions
  BY <1>4, <1>5
<1>7. /\ DOMAIN body' \subseteq Names /\ DOMAIN body \subseteq DOMAIN body'
      /\ \A f \in DOMAIN body' : body'[f] \subseteq Names
  BY <1>6 DEF WalkInv, TypeOK, ReadFunction, Keep, Definitions
<1>8. left' \in [Names -> SUBSET DOMAIN body']
  BY <1>2, <1>7 DEF WalkInv, TypeOK
<1>9. TypeOK'
  BY <1>2, <1>4, <1>5, <1>7, <1>8 DEF WalkInv, TypeOK, ReadFunction
<1> QED
  BY <1>2, <1>3, <1>9 DEF WalkInv, Fresh, Chain, PathIsSimple, OnPath, LeftOver, Walked, Ordered, Noted,
     Complete, ReportsAreCycles

\* The bodies are read.
LEMMA AllReadInv == WalkInv /\ AllRead => WalkInv'
  BY DEF WalkInv, AllRead, TypeOK, Fresh, Chain, PathIsSimple, OnPath, LeftOver, Walked, Ordered, Noted,
     Complete, ReportsAreCycles, Calls

(* Walking. *)

\* The function on top of the path, and what is left of its loop.
LEMMA TopFacts ==
  ASSUME WalkInv, path # <<>>
  PROVE  /\ Len(path) \in Nat /\ Len(path) >= 1 /\ path[Len(path)] = Top
         /\ Top \in DOMAIN body /\ Top \in Names /\ state[Top] = 1
         /\ left[Top] \subseteq Calls(Top)
<1>1. path \in Seq(DOMAIN body)
  BY DEF WalkInv, TypeOK
<1>2. Len(path) \in Nat /\ Len(path) >= 1
  BY <1>1
<1> QED
  BY <1>1, <1>2 DEF Top, WalkInv, TypeOK, OnPath, LeftOver

\* Calls are names of the dictionary.
LEMMA CallsInside ==
  ASSUME WalkInv, NEW f \in DOMAIN body
  PROVE  Calls(f) \subseteq DOMAIN body /\ Calls(f) \subseteq Names
  BY DEF Calls, WalkInv, TypeOK

\* The walk starts from the next function.
LEMMA WalkNextInv ==
  ASSUME WalkInv, NEW f \in Names, WalkNext(f)
  PROVE  WalkInv'
<1>1. /\ f \in DOMAIN body /\ state[f] = 0 /\ path = <<>> /\ Len(path) = 0
      /\ path \in Seq(DOMAIN body) /\ pc = "walk"
  BY DEF WalkInv, TypeOK, WalkNext, Least
<1>2. path' \in Seq(DOMAIN body) /\ Len(path') = 1 /\ path'[1] = f
  BY <1>1 DEF WalkNext, Enter
<1>3. /\ state' \in [Names -> 0..2] /\ state'[f] = 1
      /\ \A g \in Names : g # f => state'[g] = state[g]
  BY DEF WalkInv, TypeOK, WalkNext, Enter
<1>4. left' \in [Names -> SUBSET DOMAIN body] /\ left'[f] = Calls(f)
  BY <1>1, CallsInside DEF WalkInv, TypeOK, WalkNext
<1>5. /\ pc' = "walk" /\ body' = body /\ bad' = bad /\ seen' = seen /\ returned' = returned
      /\ source' = source /\ read' = read
  BY <1>1 DEF WalkNext
<1>6. TypeOK'
  BY <1>2, <1>3, <1>4, <1>5 DEF WalkInv, TypeOK
<1>7. Chain' /\ PathIsSimple' /\ OnPath'
  <2>1. \A g \in Names : state[g] # 1
    BY <1>1 DEF WalkInv, OnPath
  <2> QED
    BY <1>2, <1>3, <2>1 DEF Chain, PathIsSimple, OnPath
<1>8. LeftOver'
  BY <1>2, <1>4, <1>5 DEF LeftOver, Calls
<1>9. Walked' /\ Ordered' /\ Noted' /\ ReportsAreCycles'
  BY <1>3, <1>5 DEF WalkInv, Walked, Ordered, Noted, ReportsAreCycles, Calls
<1> QED
  BY <1>5, <1>6, <1>7, <1>8, <1>9 DEF WalkInv, Fresh, Complete

\* What the loop of the walk on top reaches: a callee of the top, left in its loop.
LEMMA ReachFacts ==
  ASSUME WalkInv, NEW c \in Names, Reach(c)
  PROVE  pc = "walk" /\ path # <<>> /\ c \in left[Top] /\ c \in Calls(Top) /\ c \in DOMAIN body
  BY TopFacts, CallsInside DEF Reach, Least

\* The walk goes on to a callee not seen before.
LEMMA DescendInv ==
  ASSUME WalkInv, NEW c \in Names, Descend(c)
  PROVE  WalkInv'
<1>1. /\ pc = "walk" /\ path # <<>> /\ c \in left[Top] /\ c \in Calls(Top) /\ c \in DOMAIN body
      /\ state[c] = 0
  BY ReachFacts DEF Descend
<1>2. /\ Len(path) \in Nat /\ Len(path) >= 1 /\ path[Len(path)] = Top /\ Top \in DOMAIN body
      /\ Top \in Names /\ state[Top] = 1
  BY <1>1, TopFacts
<1>3. path \in Seq(DOMAIN body) /\ c # Top
  BY <1>1, <1>2 DEF WalkInv, TypeOK
<1>4. /\ path' \in Seq(DOMAIN body) /\ Len(path') = Len(path) + 1 /\ path'[Len(path) + 1] = c
      /\ \A i \in 1..Len(path) : path'[i] = path[i]
  BY <1>1, <1>2, <1>3 DEF Descend, Enter
<1>5. /\ state' \in [Names -> 0..2] /\ state'[c] = 1
      /\ \A g \in Names : g # c => state'[g] = state[g]
  BY DEF WalkInv, TypeOK, Descend, Enter
<1>6. /\ left' \in [Names -> SUBSET DOMAIN body] /\ left'[c] = Calls(c)
      /\ left'[Top] = left[Top] \ {c}
      /\ \A g \in Names : g # c /\ g # Top => left'[g] = left[g]
  BY <1>1, <1>2, <1>3, CallsInside DEF WalkInv, TypeOK, Descend
<1>7. /\ pc' = "walk" /\ body' = body /\ bad' = bad /\ seen' = seen /\ returned' = returned
      /\ source' = source /\ read' = read
  BY <1>1 DEF Descend
<1>8. TypeOK'
  BY <1>4, <1>5, <1>6, <1>7 DEF WalkInv, TypeOK
<1>9. \A i \in 1..Len(path) : path[i] # c /\ path[i] \in Names /\ path[i] \in DOMAIN body
  BY <1>1, <1>3 DEF WalkInv, OnPath, TypeOK
<1>10. Chain'
  BY <1>1, <1>2, <1>4, <1>7 DEF WalkInv, Chain, Calls
<1>11. PathIsSimple'
  BY <1>2, <1>4, <1>9 DEF WalkInv, PathIsSimple
<1>12. OnPath'
  BY <1>2, <1>4, <1>5, <1>9 DEF WalkInv, OnPath
<1>13. LeftOver'
  <2> SUFFICES ASSUME NEW i \in 1..Len(path')
               PROVE  /\ left'[path'[i]] \subseteq Calls(path'[i])
                      /\ \A d \in Calls(path'[i]) \ left'[path'[i]] :
                           bad' # {} \/ state'[d] = 2 \/ (i < Len(path') /\ d = path'[i + 1])
    BY <1>7 DEF LeftOver, Calls
  <2>1. CASE i = Len(path) + 1
    BY <2>1, <1>4, <1>6, <1>7 DEF Calls
  <2>2. CASE i = Len(path)
    <3>1. path'[i] = Top /\ i \in 1..Len(path)
      BY <2>2, <1>2, <1>4, <1>7 DEF Calls
    <3>2. left[Top] \subseteq Calls(Top)
      BY <1>1, TopFacts
    <3>3. \A d \in Calls(Top) \ left[Top] : bad # {} \/ state[d] = 2
      BY <2>2, <1>2, <3>1 DEF WalkInv, LeftOver
    <3>4. \A d \in Calls(Top) : d \in Names
      BY <1>2, CallsInside
    <3> QED
      BY <2>2, <3>1, <3>2, <3>3, <3>4, <1>1, <1>2, <1>4, <1>5, <1>6, <1>7
  <2>3. CASE i < Len(path)
    <3>1. /\ i \in 1..Len(path) /\ i + 1 \in 1..Len(path) /\ path'[i] = path[i]
          /\ path'[i + 1] = path[i + 1]
      BY <2>3, <1>2, <1>4
    <3>2. path[i] # c /\ path[i] # Top
      BY <2>3, <3>1, <1>2, <1>9 DEF WalkInv, PathIsSimple
    <3>3. left'[path[i]] = left[path[i]]
      BY <3>1, <3>2, <1>6, <1>7, <1>9 DEF Calls
    <3>4. /\ left[path[i]] \subseteq Calls(path[i])
          /\ \A d \in Calls(path[i]) \ left[path[i]] :
               bad # {} \/ state[d] = 2 \/ (i < Len(path) /\ d = path[i + 1])
      BY <3>1 DEF WalkInv, LeftOver
    <3>5. \A d \in Calls(path[i]) : d \in Names
      BY <3>1, <1>9, CallsInside
    <3> QED
      BY <3>1, <3>3, <3>4, <3>5, <1>1, <1>2, <1>4, <1>5, <1>7, <2>3
  <2> QED
    BY <2>1, <2>2, <2>3, <1>2, <1>4
<1>14. Walked' /\ Ordered' /\ Noted' /\ ReportsAreCycles'
  BY <1>5, <1>7 DEF WalkInv, Walked, Ordered, Noted, ReportsAreCycles, Calls
<1> QED
  BY <1>7, <1>8, <1>10, <1>11, <1>12, <1>13, <1>14 DEF WalkInv, Fresh, Complete

\* A callee is taken off the loop of the walk on top, and nothing else of the walk changes: what the
\* two actions that do so, PassBy and CloseCycle, keep.
LEMMA TakenOff ==
  ASSUME WalkInv, NEW c \in Names, Reach(c),
         left' = [left EXCEPT ![Top] = @ \ {c}],
         body' = body, state' = state, path' = path, returned' = returned,
         bad \subseteq bad', bad' # {} \/ state[c] = 2
  PROVE  /\ Chain' /\ PathIsSimple' /\ OnPath' /\ LeftOver' /\ Walked' /\ Ordered'
         /\ left' \in [Names -> SUBSET DOMAIN body]
<1>1. /\ pc = "walk" /\ path # <<>> /\ c \in left[Top] /\ c \in Calls(Top) /\ c \in DOMAIN body
      /\ left[Top] \subseteq Calls(Top) /\ Len(path) \in Nat /\ Len(path) >= 1
      /\ path[Len(path)] = Top /\ Top \in DOMAIN body /\ Top \in Names
  BY ReachFacts, TopFacts
<1>2. /\ left' \in [Names -> SUBSET DOMAIN body] /\ left'[Top] = left[Top] \ {c}
      /\ \A g \in Names : g # Top => left'[g] = left[g]
  BY <1>1 DEF WalkInv, TypeOK
<1>3. Chain' /\ PathIsSimple' /\ OnPath' /\ Walked'
  BY DEF WalkInv, Chain, PathIsSimple, OnPath, Walked, Calls
<1>4. Ordered'
  BY DEF WalkInv, Ordered, Calls
<1>5. LeftOver'
  <2> SUFFICES ASSUME NEW i \in 1..Len(path)
               PROVE  /\ left'[path[i]] \subseteq Calls(path[i])
                      /\ \A d \in Calls(path[i]) \ left'[path[i]] :
                           bad' # {} \/ state[d] = 2 \/ (i < Len(path) /\ d = path[i + 1])
    BY DEF LeftOver, Calls
  <2>1. /\ left[path[i]] \subseteq Calls(path[i])
        /\ \A d \in Calls(path[i]) \ left[path[i]] :
             bad # {} \/ state[d] = 2 \/ (i < Len(path) /\ d = path[i + 1])
    BY DEF WalkInv, LeftOver
  <2>2. path[i] \in Names
    BY DEF WalkInv, TypeOK
  <2>3. CASE path[i] = Top
    BY <2>1, <2>3, <1>2
  <2>4. CASE path[i] # Top
    BY <2>1, <2>2, <2>4, <1>2
  <2> QED
    BY <2>3, <2>4
<1> QED
  BY <1>2, <1>3, <1>4, <1>5

\* A callee that is done.
LEMMA PassByInv ==
  ASSUME WalkInv, NEW c \in Names, PassBy(c)
  PROVE  WalkInv'
<1>1. /\ Chain' /\ PathIsSimple' /\ OnPath' /\ LeftOver' /\ Walked' /\ Ordered'
      /\ left' \in [Names -> SUBSET DOMAIN body]
  BY TakenOff DEF PassBy
<1>2. pc = "walk"
  BY DEF PassBy, Reach
<1> QED
  BY <1>1, <1>2 DEF WalkInv, TypeOK, PassBy, Fresh, Noted, Complete, ReportsAreCycles, Calls

\* What a call of a function on the path closes is a cycle of calls.
LEMMA CycleIsOne ==
  ASSUME WalkInv, NEW c \in Names, Reach(c), state[c] = 1, NEW cyc, cyc = Cycle(c)
  PROVE  /\ cyc \in Seq(Names) /\ Len(cyc) >= 2 /\ cyc[1] = cyc[Len(cyc)]
         /\ \A k \in 1..(Len(cyc) - 1) : cyc[k] \in DOMAIN body /\ cyc[k + 1] \in Calls(cyc[k])
<1>1. /\ path \in Seq(DOMAIN body) /\ Len(path) \in Nat /\ Len(path) >= 1
      /\ path[Len(path)] = Top /\ c \in Calls(Top) /\ c \in DOMAIN body
  BY ReachFacts, TopFacts DEF WalkInv, TypeOK
<1> DEFINE first == CHOOSE i \in DOMAIN path : path[i] = c
           seg == SubSeq(path, first, Len(path))
<1>2. \E i \in DOMAIN path : path[i] = c
  BY <1>1 DEF WalkInv, OnPath
<1>3. first \in 1..Len(path) /\ path[first] = c
  BY <1>1, <1>2
<1>4. cyc = Append(seg, c)
  BY DEF Cycle
<1> HIDE DEF first
<1>5. /\ seg \in Seq(DOMAIN body) /\ Len(seg) = Len(path) - first + 1
      /\ \A k \in 1..(Len(path) - first + 1) : seg[k] = path[first + k - 1]
  <2>1. \A i \in first..Len(path) : path[i] \in DOMAIN body
    BY <1>1, <1>3
  <2> QED
    BY <2>1, <1>1, <1>3, SubSeqProperties
<1> HIDE DEF seg
<1>6. /\ cyc \in Seq(DOMAIN body) /\ Len(cyc) = Len(path) - first + 2
      /\ cyc[Len(path) - first + 2] = c
      /\ \A k \in 1..(Len(path) - first + 1) : cyc[k] = path[first + k - 1]
  BY <1>1, <1>3, <1>4, <1>5
<1>7. cyc \in Seq(Names)
  BY <1>6 DEF WalkInv, TypeOK
<1>8. Len(cyc) >= 2 /\ cyc[1] = c /\ cyc[Len(cyc)] = c
  BY <1>1, <1>3, <1>6
<1>9. ASSUME NEW k \in 1..(Len(cyc) - 1)
      PROVE  cyc[k] \in DOMAIN body /\ cyc[k + 1] \in Calls(cyc[k])
  <2>1. cyc[k] = path[first + k - 1] /\ first + k - 1 \in 1..Len(path)
    BY <1>1, <1>3, <1>6
  <2>2. CASE k = Len(cyc) - 1
    BY <2>1, <2>2, <1>1, <1>3, <1>6
  <2>3. CASE k < Len(cyc) - 1
    <3>0. k + 1 \in 1..(Len(path) - first + 1) /\ first + (k + 1) - 1 = first + k
      BY <2>3, <1>1, <1>3, <1>6
    <3>1. cyc[k + 1] = path[first + k] /\ first + k - 1 \in 1..(Len(path) - 1)
      <4>1. cyc[k + 1] = path[first + (k + 1) - 1]
        BY <3>0, <1>6
      <4>2. k \in Nat /\ k >= 1 /\ k <= Len(path) - first
        BY <3>0, <1>1, <1>3
      <4>3. first + k - 1 \in 1..(Len(path) - 1)
        BY <4>2, <1>1, <1>3
      <4> QED
        BY <3>0, <4>1, <4>3
    <3>2. path[(first + k - 1) + 1] \in Calls(path[first + k - 1])
      BY <3>1 DEF WalkInv, Chain
    <3>3. (first + k - 1) + 1 = first + k
      BY <1>3
    <3> QED
      BY <2>1, <3>1, <3>2, <3>3, <1>1
  <2> QED
    BY <2>2, <2>3, <1>1, <1>3, <1>6
<1> QED
  BY <1>7, <1>8, <1>9

\* A callee on the path: a cycle.
LEMMA CloseCycleInv ==
  ASSUME WalkInv, NEW c \in Names, CloseCycle(c)
  PROVE  WalkInv'
<1> DEFINE cyc == Cycle(c)
<1>1. Reach(c) /\ state[c] = 1
  BY DEF CloseCycle
<1>2. /\ cyc \in Seq(Names) /\ Len(cyc) >= 2 /\ cyc[1] = cyc[Len(cyc)]
      /\ \A k \in 1..(Len(cyc) - 1) : cyc[k] \in DOMAIN body /\ cyc[k + 1] \in Calls(cyc[k])
  BY <1>1, CycleIsOne
<1>3. /\ seen' = seen \cup {RangeOf(cyc)}
      /\ bad' = IF RangeOf(cyc) \in seen THEN bad ELSE bad \cup {cyc}
      /\ left' = [left EXCEPT ![Top] = @ \ {c}]
      /\ UNCHANGED <<source, read, body, state, path, pc, returned>>
  BY DEF CloseCycle
<1> HIDE DEF cyc
<1>4. bad \subseteq bad' /\ bad' # {}
  BY <1>3 DEF WalkInv, Noted
<1>5. /\ Chain' /\ PathIsSimple' /\ OnPath' /\ LeftOver' /\ Walked' /\ Ordered'
      /\ left' \in [Names -> SUBSET DOMAIN body]
  BY <1>1, <1>3, <1>4, TakenOff
<1>6. RangeOf(cyc) \subseteq Names
  BY <1>2 DEF RangeOf
<1>7. TypeOK'
  BY <1>2, <1>3, <1>5, <1>6 DEF WalkInv, TypeOK
<1>8. ReportsAreCycles'
  BY <1>2, <1>3 DEF WalkInv, ReportsAreCycles, Calls
<1>9. Fresh' /\ Noted' /\ Complete'
  BY <1>1, <1>3, <1>4 DEF WalkInv, Reach, Fresh, Noted, Complete
<1> QED
  BY <1>5, <1>7, <1>8, <1>9 DEF WalkInv

\* The top of the path returns: all it calls was walked, and is among the returned, or a cycle was
\* reported.
LEMMA LeaveInv == WalkInv /\ Leave => WalkInv'
<1> SUFFICES ASSUME WalkInv, Leave PROVE WalkInv'
  OBVIOUS
<1>1. /\ pc = "walk" /\ path # <<>> /\ left[Top] = {} /\ path \in Seq(DOMAIN body)
      /\ returned \in Seq(DOMAIN body) /\ Len(returned) \in Nat
  BY DEF WalkInv, TypeOK, Leave
<1>2. /\ Len(path) \in Nat /\ Len(path) >= 1 /\ path[Len(path)] = Top /\ Top \in DOMAIN body
      /\ Top \in Names /\ state[Top] = 1
  BY <1>1, TopFacts
<1> DEFINE n == Len(path)
           m == Len(returned)
<1>3. /\ path' \in Seq(DOMAIN body) /\ Len(path') = n - 1
      /\ \A i \in 1..(n - 1) : path'[i] = path[i]
  <2>1. \A i \in 1..(n - 1) : path[i] \in DOMAIN body
    BY <1>1, <1>2
  <2>2. path' = SubSeq(path, 1, n - 1) /\ 1 \in Int /\ n - 1 \in Int
    BY <1>2 DEF Leave
  <2>3. /\ path' \in Seq(DOMAIN body)
        /\ Len(path') = IF 1 <= n - 1 THEN (n - 1) - 1 + 1 ELSE 0
        /\ \A i \in 1..((n - 1) - 1 + 1) : path'[i] = path[1 + i - 1]
    BY <2>1, <2>2, SubSeqProperties
  <2>4. Len(path') = n - 1
    <3>1. CASE n = 1
      <4>1. ~(1 <= n - 1) /\ n - 1 = 0
        BY <3>1
      <4> QED
        BY <4>1, <2>3
    <3>2. CASE n > 1
      <4>1. 1 <= n - 1 /\ (n - 1) - 1 + 1 = n - 1
        BY <3>2, <1>2
      <4> QED
        BY <4>1, <2>3
    <3>3. n \in Nat /\ n >= 1
      BY <1>2
    <3> HIDE DEF n
    <3> QED
      BY <3>1, <3>2, <3>3
  <2>5. ASSUME NEW i \in 1..(n - 1) PROVE path'[i] = path[i]
    <3>1. i \in 1..((n - 1) - 1 + 1) /\ 1 + i - 1 = i
      BY <1>2
    <3> QED
      BY <3>1, <2>3
  <2> QED
    BY <2>3, <2>4, <2>5
<1>4. /\ returned' \in Seq(DOMAIN body) /\ Len(returned') = m + 1 /\ returned'[m + 1] = Top
      /\ \A j \in 1..m : returned'[j] = returned[j]
  BY <1>1, <1>2 DEF Leave
<1>5. /\ state' \in [Names -> 0..2] /\ state'[Top] = 2
      /\ \A g \in Names : g # Top => state'[g] = state[g]
  BY <1>2 DEF WalkInv, TypeOK, Leave
<1>6. /\ pc' = "walk" /\ body' = body /\ bad' = bad /\ seen' = seen /\ left' = left
      /\ source' = source /\ read' = read
  BY <1>1 DEF Leave
<1>7. TypeOK'
  BY <1>3, <1>4, <1>5, <1>6 DEF WalkInv, TypeOK
<1>8. \A i \in 1..(n - 1) : path[i] # Top /\ path[i] \in Names /\ path[i] \in DOMAIN body
  BY <1>1, <1>2 DEF WalkInv, PathIsSimple, TypeOK
<1>9. Chain' /\ PathIsSimple'
  BY <1>2, <1>3, <1>6 DEF WalkInv, Chain, PathIsSimple, Calls
<1>10. OnPath'
  <2>1. ASSUME NEW f \in Names, state'[f] = 1
        PROVE  \E i \in 1..Len(path') : path'[i] = f
    <3>1. f # Top /\ state[f] = 1
      BY <2>1, <1>5
    <3>2. \E i \in 1..n : path[i] = f
      BY <3>1 DEF WalkInv, OnPath
    <3>3. \E i \in 1..(n - 1) : path[i] = f
      BY <3>1, <3>2, <1>2
    <3> QED
      BY <3>3, <1>3
  <2>2. \A i \in 1..(n - 1) : state'[path[i]] = 1
    BY <1>2, <1>5, <1>8 DEF WalkInv, OnPath
  <2> QED
    BY <2>1, <2>2, <1>3 DEF OnPath
<1>11. LeftOver'
  <2> SUFFICES ASSUME NEW i \in 1..(n - 1)
               PROVE  /\ left[path[i]] \subseteq Calls(path[i])
                      /\ \A d \in Calls(path[i]) \ left[path[i]] :
                           bad # {} \/ state'[d] = 2 \/ (i < n - 1 /\ d = path'[i + 1])
    BY <1>3, <1>6 DEF LeftOver, Calls
  <2>1. /\ left[path[i]] \subseteq Calls(path[i])
        /\ \A d \in Calls(path[i]) \ left[path[i]] :
             bad # {} \/ state[d] = 2 \/ (i < n /\ d = path[i + 1])
    BY <1>2 DEF WalkInv, LeftOver
  <2>2. \A d \in Calls(path[i]) : d \in Names
    BY <1>8, CallsInside
  <2>3. ASSUME NEW d \in Names, state[d] = 2 PROVE state'[d] = 2
    BY <2>3, <1>5
  <2>4. state'[path[i + 1]] = 2 \/ (i < n - 1 /\ path'[i + 1] = path[i + 1])
    BY <1>2, <1>3, <1>5
  <2> QED
    BY <2>1, <2>2, <2>3, <2>4
<1>12. Walked'
  <2> SUFFICES ASSUME NEW f \in Names, state'[f] = 2
               PROVE  \E j \in 1..(m + 1) : returned'[j] = f
    BY <1>4 DEF Walked
  <2>1. CASE f = Top
    BY <2>1, <1>1, <1>4
  <2>2. CASE f # Top
    <3>1. \E j \in 1..m : returned[j] = f
      BY <2>2, <1>5 DEF WalkInv, Walked
    <3> QED
      BY <3>1, <1>1, <1>4
  <2> QED
    BY <2>1, <2>2
<1>13. Ordered'
  <2> SUFFICES ASSUME NEW i \in 1..(m + 1), NEW c \in Calls(returned'[i])
               PROVE  bad # {} \/ \E j \in 1..(m + 1) : j < i /\ returned'[j] = c
    BY <1>4, <1>6 DEF Ordered, Calls
  <2>1. CASE i = m + 1
    <3>1. c \in Calls(Top) \ left[Top] /\ c \in Names
      BY <2>1, <1>1, <1>2, <1>4, CallsInside
    <3>2. bad # {} \/ state[c] = 2
      BY <3>1, <1>2 DEF WalkInv, LeftOver
    <3>3. state[c] = 2 => \E j \in 1..m : returned[j] = c
      BY <3>1 DEF WalkInv, Walked
    <3> QED
      BY <2>1, <3>2, <3>3, <1>1, <1>4
  <2>2. CASE i # m + 1
    <3>1. i \in 1..m /\ c \in Calls(returned[i])
      BY <2>2, <1>1, <1>4
    <3>2. bad # {} \/ \E j \in 1..m : j < i /\ returned[j] = c
      BY <3>1 DEF WalkInv, Ordered
    <3> QED
      BY <3>2, <1>1, <1>4
  <2> QED
    BY <2>1, <2>2
<1>14. ReportsAreCycles'
  BY <1>6 DEF WalkInv, ReportsAreCycles, Calls
<1> QED
  BY <1>6, <1>7, <1>9, <1>10, <1>11, <1>12, <1>13, <1>14 DEF WalkInv, Fresh, Noted, Complete

\* Every function is walked.
LEMMA AllWalkedInv == WalkInv /\ AllWalked => WalkInv'
<1> SUFFICES ASSUME WalkInv, AllWalked PROVE WalkInv'
  OBVIOUS
<1>1. /\ pc = "walk" /\ pc' = "done" /\ Len(path) = 0
      /\ UNCHANGED <<source, read, body, state, path, left, bad, seen, returned>>
      /\ \A g \in DOMAIN body : state[g] # 0
  BY DEF AllWalked
<1>2. \A g \in DOMAIN body : state[g] = 2
  <2> SUFFICES ASSUME NEW g \in DOMAIN body PROVE state[g] = 2
    OBVIOUS
  <2>1. g \in Names /\ state[g] \in 0..2
    BY DEF WalkInv, TypeOK
  <2>2. state[g] # 1
    BY <2>1, <1>1 DEF WalkInv, OnPath
  <2> QED
    BY <2>1, <2>2, <1>1
<1> QED
  BY <1>1, <1>2 DEF WalkInv, TypeOK, Fresh, Chain, PathIsSimple, OnPath, LeftOver, Walked, Ordered, Noted,
     Complete, ReportsAreCycles, Calls

-----------------------------------------------------------------------------
\* Every step keeps the invariant.
LEMMA StepInv == WalkInv /\ [Next]_recursionVars => WalkInv'
<1> SUFFICES ASSUME WalkInv, [Next]_recursionVars PROVE WalkInv'
  OBVIOUS
<1>1. CASE ReadFunction
  BY <1>1, ReadInv
<1>2. CASE AllRead
  BY <1>2, AllReadInv
<1>3. ASSUME NEW f \in Names, WalkNext(f) PROVE WalkInv'
  BY <1>3, WalkNextInv
<1>4. ASSUME NEW c \in Names, CloseCycle(c) PROVE WalkInv'
  BY <1>4, CloseCycleInv
<1>5. ASSUME NEW c \in Names, Descend(c) PROVE WalkInv'
  BY <1>5, DescendInv
<1>6. ASSUME NEW c \in Names, PassBy(c) PROVE WalkInv'
  BY <1>6, PassByInv
<1>7. CASE Leave
  BY <1>7, LeaveInv
<1>8. CASE AllWalked
  BY <1>8, AllWalkedInv
<1>9. CASE UNCHANGED recursionVars
  <2>1. UNCHANGED <<source, read, body, state, path, left, bad, seen, pc, returned>>
    BY <1>9 DEF recursionVars
  <2>2. TypeOK' /\ Fresh' /\ Chain' /\ PathIsSimple' /\ OnPath'
    BY <2>1 DEF WalkInv, TypeOK, Fresh, Chain, PathIsSimple, OnPath, Calls
  <2>3. LeftOver' /\ Walked' /\ Ordered' /\ Noted' /\ Complete' /\ ReportsAreCycles'
    BY <2>1 DEF WalkInv, LeftOver, Walked, Ordered, Noted, Complete, ReportsAreCycles, Calls
  <2> QED
    BY <2>2, <2>3 DEF WalkInv
<1> QED
  BY <1>1, <1>2, <1>3, <1>4, <1>5, <1>6, <1>7, <1>8, <1>9 DEF Next

(* Knots. *)

\* A function in the knot of a reported cycle.
Reported(f) == \E cyc \in bad : Reaches(f, cyc[1]) /\ Reaches(cyc[1], f)

\* A function reaches those further on the path.
PathReaches == \A i, j \in 1..Len(path) : i < j => Reaches(path[i], path[j])

\* The functions noted are those of a reported cycle.
SeenReported == \A s \in seen : \E cyc \in bad : RangeOf(cyc) = s

\* A callee that a loop is past was walked, or is being walked, or closed a reported cycle.
PastLoop ==
  \A i \in 1..Len(path) : \A c \in Calls(path[i]) \ left[path[i]] :
    state[c] = 2 \/ (i < Len(path) /\ c = path[i + 1]) \/ Reported(path[i])

\* A function of a knot is in a reported one when its walk has returned.
Knots == \A f \in DOMAIN body : state[f] = 2 /\ Reaches(f, f) => Reported(f)

KnotInv == PathReaches /\ SeenReported /\ PastLoop /\ Knots

-----------------------------------------------------------------------------
\* A function reaches what it calls.
LEMMA ReachCall == ASSUME NEW f, NEW c \in Calls(f) PROVE Reaches(f, c)
  BY DEF Reaches

\* To reach what reaches h is to reach h.
LEMMA ReachTrans ==
  ASSUME NEW f, NEW g, NEW h, Reaches(f, g), Reaches(g, h)
  PROVE  Reaches(f, h)
<1> SUFFICES ASSUME NEW S \in SUBSET DOMAIN body, Calls(f) \subseteq S, \A x \in S : Calls(x) \subseteq S
             PROVE  h \in S
  BY DEF Reaches
<1>1. g \in S
  BY DEF Reaches
<1> QED
  BY <1>1 DEF Reaches

\* What a function reaches is one it calls, or one reached from one it calls.
LEMMA ReachFirst ==
  ASSUME NEW f, NEW g, Reaches(f, g)
  PROVE  \E c \in Calls(f) : c = g \/ Reaches(c, g)
<1> DEFINE S == {x \in DOMAIN body : \E c \in Calls(f) : c = x \/ Reaches(c, x)}
<1>1. Calls(f) \subseteq S
  BY DEF Calls
<1>2. ASSUME NEW x \in S, NEW d \in Calls(x) PROVE d \in S
  <2>1. PICK c \in Calls(f) : c = x \/ Reaches(c, x)
    OBVIOUS
  <2>2. Reaches(x, d)
    BY ReachCall
  <2>3. Reaches(c, d)
    BY <2>1, <2>2, ReachTrans
  <2>4. d \in DOMAIN body
    BY DEF Calls
  <2> QED
    BY <2>3, <2>4
<1>3. S \in SUBSET DOMAIN body /\ \A x \in S : Calls(x) \subseteq S
  BY <1>2
<1>4. g \in S
  <2> HIDE DEF S
  <2> QED
    BY <1>1, <1>3 DEF Reaches
<1> QED
  BY <1>4

\* A walk of the same bodies that reports no less keeps a function's knot reported.
LEMMA StaysReported ==
  ASSUME body' = body, bad \subseteq bad', NEW f, Reported(f)
  PROVE  Reported(f)'
  BY DEF Reported, Reaches, Calls

\* What a function reaches depends on the bodies alone.
LEMMA SameReach ==
  ASSUME body' = body, NEW f, NEW g
  PROVE  Reaches(f, g)' <=> Reaches(f, g)
  BY DEF Reaches, Calls

\* Before the walk there is nothing to report.
LEMMA KnotsAtFirst == WalkInv /\ pc = "read" => KnotInv
<1> SUFFICES ASSUME WalkInv, pc = "read" PROVE KnotInv
  OBVIOUS
<1>1. path = <<>> /\ Len(path) = 0 /\ seen = {} /\ state = [f \in Names |-> 0]
  BY DEF WalkInv, Fresh
<1>2. \A f \in DOMAIN body : f \in Names
  BY DEF WalkInv, TypeOK
<1> QED
  BY <1>1, <1>2 DEF KnotInv, PathReaches, SeenReported, PastLoop, Knots

\* A step that changes neither the bodies nor the reports, nor what was walked, keeps the knots.
LEMMA KnotsStay ==
  ASSUME KnotInv, body' = body, bad' = bad, seen' = seen, state' = state, path' = path, left' = left
  PROVE  KnotInv'
<1>1. ASSUME NEW f PROVE Reported(f)' = Reported(f)
  BY DEF Reported, Reaches, Calls
<1>2. PathReaches' /\ SeenReported'
  BY DEF KnotInv, PathReaches, SeenReported, Reaches, Calls
<1>3. PastLoop'
  BY DEF KnotInv, PastLoop, Reported, Reaches, Calls
<1>4. Knots'
  BY DEF KnotInv, Knots, Reported, Reaches, Calls
<1> QED
  BY <1>2, <1>3, <1>4 DEF KnotInv

\* A walk begun from the loop over all names is at the start of its own.
LEMMA WalkNextKnots ==
  ASSUME WalkInv, KnotInv, NEW f \in Names, WalkNext(f)
  PROVE  KnotInv'
<1>1. f \in DOMAIN body /\ path = <<>> /\ state \in [Names -> 0..2] /\ left \in [Names -> SUBSET DOMAIN body]
  BY DEF WalkInv, TypeOK, WalkNext, Least
<1>2. Len(path') = 1 /\ path'[1] = f /\ left'[f] = Calls(f) /\ body' = body /\ bad' = bad /\ seen' = seen
  BY <1>1 DEF WalkNext, Enter
<1>3. \A g \in Names : state'[g] = 2 => state[g] = 2
  BY <1>1 DEF WalkNext, Enter
<1>4. PathReaches' /\ PastLoop'
  BY <1>2 DEF PathReaches, PastLoop, Calls
<1>5. SeenReported'
  BY <1>2 DEF KnotInv, SeenReported
<1>6. Knots'
  <2> SUFFICES ASSUME NEW g \in DOMAIN body, state'[g] = 2, Reaches(g, g)' PROVE Reported(g)'
    BY <1>2 DEF Knots
  <2>1. g \in Names /\ Reaches(g, g)
    BY <1>2, SameReach DEF WalkInv, TypeOK
  <2>2. Reported(g)
    BY <2>1, <1>3 DEF KnotInv, Knots
  <2> QED
    BY <2>2, <1>2, StaysReported
<1> QED
  BY <1>4, <1>5, <1>6 DEF KnotInv

\* A callee walked on to is reached from the whole path.
LEMMA DescendKnots ==
  ASSUME WalkInv, KnotInv, NEW c \in Names, Descend(c)
  PROVE  KnotInv'
<1>1. path # <<>> /\ c \in Calls(Top) /\ c \in DOMAIN body /\ state[c] = 0
  BY ReachFacts DEF Descend
<1>2. /\ Len(path) \in Nat /\ Len(path) >= 1 /\ path[Len(path)] = Top /\ Top \in Names /\ state[Top] = 1
      /\ Top \in DOMAIN body
  BY <1>1, TopFacts
<1>3. /\ path \in Seq(DOMAIN body) /\ state \in [Names -> 0..2] /\ left \in [Names -> SUBSET DOMAIN body]
      /\ DOMAIN body \subseteq Names
  BY DEF WalkInv, TypeOK
<1>4. /\ Len(path') = Len(path) + 1 /\ path'[Len(path) + 1] = c
      /\ \A i \in 1..Len(path) : path'[i] = path[i]
  BY <1>1, <1>2, <1>3 DEF Descend, Enter
<1>5. body' = body /\ bad' = bad /\ seen' = seen
  BY DEF Descend
<1>6. \A g \in Names : (state'[g] = 2 => state[g] = 2) /\ (state[g] = 2 => state'[g] = 2)
  BY <1>1, <1>3 DEF Descend, Enter
<1>7. /\ left'[c] = Calls(c) /\ left'[Top] = left[Top] \ {c}
      /\ \A g \in Names : g # c /\ g # Top => left'[g] = left[g]
  BY <1>1, <1>2, <1>3 DEF Descend
<1>8. ASSUME NEW i \in 1..Len(path) PROVE Reaches(path[i], c)
  <2>1. Reaches(Top, c)
    BY <1>1, ReachCall
  <2>2. CASE i = Len(path)
    BY <2>1, <2>2, <1>2
  <2>3. CASE i < Len(path)
    <3>1. Reaches(path[i], Top)
      BY <2>3, <1>2 DEF KnotInv, PathReaches
    <3> QED
      BY <2>1, <3>1, ReachTrans
  <2> QED
    BY <2>2, <2>3, <1>2
<1>9. PathReaches'
  <2> SUFFICES ASSUME NEW i \in 1..(Len(path) + 1), NEW j \in 1..(Len(path) + 1), i < j
               PROVE  Reaches(path'[i], path'[j])
    BY <1>4, <1>5 DEF PathReaches, Reaches, Calls
  <2>1. i \in 1..Len(path) /\ path'[i] = path[i]
    BY <1>2, <1>4
  <2>2. CASE j = Len(path) + 1
    BY <2>1, <2>2, <1>4, <1>8
  <2>3. CASE j \in 1..Len(path)
    <3>1. path'[j] = path[j] /\ Reaches(path[i], path[j])
      BY <2>1, <2>3, <1>4 DEF KnotInv, PathReaches
    <3> QED
      BY <2>1, <3>1
  <2> QED
    BY <2>2, <2>3, <1>2
<1>10. PastLoop'
  <2> SUFFICES ASSUME NEW i \in 1..(Len(path) + 1), NEW d \in Calls(path'[i]), d \notin left'[path'[i]]
               PROVE  state'[d] = 2 \/ (i < Len(path) + 1 /\ d = path'[i + 1]) \/ Reported(path'[i])
    BY <1>4, <1>5 DEF PastLoop, Reported, Reaches, Calls
  <2>0. d \in Names
    BY <1>3 DEF Calls
  <2>1. CASE i = Len(path) + 1
    BY <2>1, <1>4, <1>7
  <2>2. CASE i \in 1..Len(path) /\ path[i] = Top
    <3>1. i = Len(path) /\ path'[i] = Top
      BY <2>2, <1>2, <1>4 DEF WalkInv, PathIsSimple
    <3>2. CASE d = c
      BY <3>1, <3>2, <1>2, <1>4
    <3>3. CASE d # c
      <4>1. d \in Calls(path[i]) \ left[path[i]]
        BY <3>1, <3>3, <2>2, <1>7
      <4>2. state[d] = 2 \/ Reported(path[i])
        BY <4>1, <3>1, <2>2, <1>2 DEF KnotInv, PastLoop
      <4> QED
        BY <4>2, <3>1, <2>0, <2>2, <1>6
    <3> QED
      BY <3>2, <3>3
  <2>3. CASE i \in 1..Len(path) /\ path[i] # Top
    <3>1. path'[i] = path[i] /\ i < Len(path) /\ path[i] \in Names /\ state[path[i]] = 1
      BY <2>3, <1>2, <1>3, <1>4 DEF WalkInv, OnPath
    <3>2. left'[path[i]] = left[path[i]]
      BY <3>1, <2>3, <1>1, <1>7
    <3>3. state[d] = 2 \/ d = path[i + 1] \/ Reported(path[i])
      BY <3>1, <3>2, <2>3 DEF KnotInv, PastLoop
    <3>4. path'[i + 1] = path[i + 1]
      BY <3>1, <1>2, <1>4
    <3> QED
      BY <3>1, <3>3, <3>4, <2>0, <1>6, <1>2
  <2> QED
    BY <2>1, <2>2, <2>3, <1>2
<1>11. SeenReported'
  BY <1>5 DEF KnotInv, SeenReported
<1>12. Knots'
  <2> SUFFICES ASSUME NEW g \in DOMAIN body, state'[g] = 2, Reaches(g, g)' PROVE Reported(g)'
    BY <1>5 DEF Knots
  <2>1. g \in Names /\ Reaches(g, g)
    BY <1>5, SameReach DEF WalkInv, TypeOK
  <2>2. Reported(g)
    BY <2>1, <1>6 DEF KnotInv, Knots
  <2> QED
    BY <2>2, <1>5, StaysReported
<1> QED
  BY <1>9, <1>10, <1>11, <1>12 DEF KnotInv

\* The loop of the top of the path goes past a callee c that was walked, or closed a reported cycle.
LEMMA PastOne ==
  ASSUME WalkInv, KnotInv, NEW c \in Names, Reach(c), left' = [left EXCEPT ![Top] = @ \ {c}],
         body' = body, state' = state, path' = path, bad \subseteq bad',
         state[c] = 2 \/ Reported(Top)'
  PROVE  PathReaches' /\ PastLoop' /\ Knots'
<1>1. path # <<>>
  BY ReachFacts
<1>2. /\ Len(path) \in Nat /\ Len(path) >= 1 /\ path[Len(path)] = Top /\ Top \in Names
      /\ left \in [Names -> SUBSET DOMAIN body] /\ path \in Seq(DOMAIN body) /\ DOMAIN body \subseteq Names
  BY <1>1, TopFacts DEF WalkInv, TypeOK
<1>3. PathReaches'
  BY DEF KnotInv, PathReaches, Reaches, Calls
<1>4. PastLoop'
  <2> SUFFICES ASSUME NEW i \in 1..Len(path), NEW d \in Calls(path[i]), d \notin left'[path[i]],
                      ~(state[d] = 2), ~(i < Len(path) /\ d = path[i + 1])
               PROVE  Reported(path[i])'
    BY DEF PastLoop, Reported, Reaches, Calls
  <2>1. CASE d \notin left[path[i]]
    <3>1. Reported(path[i])
      BY <2>1 DEF KnotInv, PastLoop
    <3> QED
      BY <3>1, StaysReported
  <2>2. CASE d \in left[path[i]]
    <3>1. path[i] \in Names /\ path[i] = Top /\ d = c
      BY <2>2, <1>2
    <3>2. Reported(Top)'
      BY <3>1
    <3>3. PICK cyc \in bad' : Reaches(Top, cyc[1])' /\ Reaches(cyc[1], Top)'
      BY <3>2 DEF Reported
    <3>4. Top' = path[i]
      BY <3>1 DEF Top
    <3>5. Reaches(path[i], cyc[1]) /\ Reaches(cyc[1], path[i])
      BY <3>3, <3>4 DEF Reaches, Calls
    <3> QED
      BY <3>5 DEF Reported, Reaches, Calls
  <2> QED
    BY <2>1, <2>2
<1>5. Knots'
  <2> SUFFICES ASSUME NEW g \in DOMAIN body, state[g] = 2, Reaches(g, g)' PROVE Reported(g)'
    BY DEF Knots
  <2>1. Reaches(g, g)
    BY SameReach
  <2>2. Reported(g)
    BY <2>1 DEF KnotInv, Knots
  <2> QED
    BY <2>2, StaysReported
<1> QED
  BY <1>3, <1>4, <1>5

\* The functions of a cycle closed: those of the path from c on.
LEMMA CycleRange ==
  ASSUME WalkInv, NEW c \in Names, Reach(c), state[c] = 1, NEW x \in RangeOf(Cycle(c))
  PROVE  \E i, j \in 1..Len(path) : i <= j /\ path[i] = c /\ path[j] = x
<1>1. path \in Seq(DOMAIN body) /\ Len(path) \in Nat /\ Len(path) >= 1 /\ c \in DOMAIN body
  BY ReachFacts, TopFacts DEF WalkInv, TypeOK
<1> DEFINE first == CHOOSE i \in DOMAIN path : path[i] = c
           seg == SubSeq(path, first, Len(path))
<1>2. first \in 1..Len(path) /\ path[first] = c
  <2>1. \E i \in DOMAIN path : path[i] = c
    BY <1>1 DEF WalkInv, OnPath
  <2> QED
    BY <2>1, <1>1
<1>3. Cycle(c) = Append(seg, c)
  BY DEF Cycle
<1> HIDE DEF first
<1>4. /\ seg \in Seq(DOMAIN body) /\ Len(seg) = Len(path) - first + 1
      /\ \A k \in 1..(Len(path) - first + 1) : seg[k] = path[first + k - 1]
  <2>1. \A i \in first..Len(path) : path[i] \in DOMAIN body
    BY <1>1, <1>2
  <2> QED
    BY <2>1, <1>1, <1>2, SubSeqProperties
<1> HIDE DEF seg
<1>5. PICK k \in 1..(Len(seg) + 1) : x = Append(seg, c)[k]
  BY <1>3, <1>4 DEF RangeOf
<1>6. CASE k = Len(seg) + 1
  <2>1. x = c
    BY <1>6, <1>5, <1>4
  <2> QED
    BY <2>1, <1>2
<1>7. CASE k \in 1..Len(seg)
  <2>1. x = path[first + k - 1]
    BY <1>7, <1>5, <1>4
  <2>2. first + k - 1 \in 1..Len(path) /\ first <= first + k - 1
    BY <1>7, <1>4, <1>2, <1>1
  <2> QED
    BY <2>1, <2>2, <1>2
<1> QED
  BY <1>6, <1>7, <1>4, <1>1, <1>2

\* A call that closes a cycle: the knot of the function on top is a reported one.
LEMMA CloseCycleKnots ==
  ASSUME WalkInv, KnotInv, NEW c \in Names, CloseCycle(c)
  PROVE  KnotInv'
<1> DEFINE cyc == Cycle(c)
<1>1. Reach(c) /\ state[c] = 1
  BY DEF CloseCycle
<1>2. /\ path # <<>> /\ c \in Calls(Top) /\ Len(path) \in Nat /\ Len(path) >= 1
      /\ path[Len(path)] = Top
  BY <1>1, ReachFacts, TopFacts
<1>3. /\ cyc \in Seq(Names) /\ Len(cyc) >= 2
  BY <1>1, CycleIsOne
<1>4. ASSUME NEW x \in RangeOf(cyc) PROVE Reaches(Top, x) /\ Reaches(x, Top)
  <2>1. PICK i, j \in 1..Len(path) : i <= j /\ path[i] = c /\ path[j] = x
    BY <1>1, CycleRange
  <2>2. Reaches(Top, c)
    BY <1>2, ReachCall
  <2>3. Reaches(Top, x)
    <3>1. CASE i = j
      BY <3>1, <2>1, <2>2
    <3>2. CASE i < j
      <4>1. Reaches(c, x)
        BY <3>2, <2>1 DEF KnotInv, PathReaches
      <4> QED
        BY <4>1, <2>2, ReachTrans
    <3> QED
      BY <3>1, <3>2, <2>1
  <2>4. CASE j = Len(path)
    BY <2>4, <2>3, <2>1, <1>2
  <2>5. CASE j < Len(path)
    <3>1. Reaches(path[j], path[Len(path)])
      BY <2>5, <1>2 DEF KnotInv, PathReaches
    <3> QED
      BY <3>1, <2>3, <2>1, <1>2
  <2> QED
    BY <2>4, <2>5, <2>1, <1>2
<1>5. /\ seen' = seen \cup {RangeOf(cyc)} /\ (RangeOf(cyc) \in seen => bad' = bad)
      /\ (RangeOf(cyc) \notin seen => bad' = bad \cup {cyc})
      /\ left' = [left EXCEPT ![Top] = @ \ {c}]
      /\ UNCHANGED <<body, state, path>>
  BY DEF CloseCycle
<1>6. bad \subseteq bad'
  BY <1>5
<1>7. \E d \in bad' : RangeOf(d) = RangeOf(cyc) /\ d[1] \in RangeOf(cyc)
  <2>1. CASE RangeOf(cyc) \in seen
    <3>1. PICK d \in bad : RangeOf(d) = RangeOf(cyc)
      BY <2>1 DEF KnotInv, SeenReported
    <3>2. d \in Seq(Names) /\ Len(d) >= 2
      BY DEF WalkInv, ReportsAreCycles, TypeOK
    <3>3. d[1] \in RangeOf(d)
      BY <3>2 DEF RangeOf
    <3> QED
      BY <3>1, <3>3, <1>6
  <2>2. CASE RangeOf(cyc) \notin seen
    <3>1. cyc[1] \in RangeOf(cyc)
      <4> HIDE DEF cyc
      <4> QED
        BY <1>3 DEF RangeOf
    <3>2. cyc \in bad'
      BY <2>2, <1>5
    <3> QED
      BY <3>1, <3>2
  <2> QED
    BY <2>1, <2>2
<1> HIDE DEF cyc
<1>8. Reported(Top)'
  <2>1. PICK d \in bad' : RangeOf(d) = RangeOf(cyc) /\ d[1] \in RangeOf(cyc)
    BY <1>7
  <2>2. Reaches(Top, d[1]) /\ Reaches(d[1], Top)
    BY <2>1, <1>4
  <2>3. Top' = Top /\ body' = body
    BY <1>5 DEF Top
  <2>4. Reaches(Top, d[1])' /\ Reaches(d[1], Top)'
    BY <2>2, <2>3 DEF Reaches, Calls
  <2> QED
    BY <2>1, <2>4 DEF Reported
<1>9. SeenReported'
  BY <1>5, <1>6, <1>7 DEF KnotInv, SeenReported
<1>10. PathReaches' /\ PastLoop' /\ Knots'
  BY <1>1, <1>5, <1>6, <1>8, PastOne
<1> QED
  BY <1>9, <1>10 DEF KnotInv

\* A callee that was walked.
LEMMA PassByKnots ==
  ASSUME WalkInv, KnotInv, NEW c \in Names, PassBy(c)
  PROVE  KnotInv'
<1>1. /\ Reach(c) /\ state[c] = 2 /\ left' = [left EXCEPT ![Top] = @ \ {c}]
      /\ UNCHANGED <<body, state, path, bad, seen>>
  BY DEF PassBy
<1>2. PathReaches' /\ PastLoop' /\ Knots'
  BY <1>1, PastOne
<1>3. SeenReported'
  BY <1>1 DEF KnotInv, SeenReported
<1> QED
  BY <1>2, <1>3 DEF KnotInv

\* A sequence without its last.
LEMMA Butlast ==
  ASSUME NEW S, NEW s \in Seq(S), s # <<>>
  PROVE  /\ Len(SubSeq(s, 1, Len(s) - 1)) = Len(s) - 1
         /\ \A i \in 1..(Len(s) - 1) : SubSeq(s, 1, Len(s) - 1)[i] = s[i]
<1>1. Len(s) \in Nat /\ Len(s) >= 1
  OBVIOUS
<1> DEFINE n == Len(s) - 1
<1>2. n \in Nat /\ n < Len(s)
  BY <1>1
<1>3. \A i \in 1..n : s[i] \in S
  BY <1>1, <1>2
<1>4. /\ Len(SubSeq(s, 1, n)) = IF 1 <= n THEN n - 1 + 1 ELSE 0
      /\ \A i \in 1..(n - 1 + 1) : SubSeq(s, 1, n)[i] = s[1 + i - 1]
  BY <1>2, <1>3, SubSeqProperties
<1> HIDE DEF n
<1>5. (IF 1 <= n THEN n - 1 + 1 ELSE 0) = n
  BY <1>2
<1>6. ASSUME NEW i \in 1..n PROVE SubSeq(s, 1, n)[i] = s[i]
  <2>1. i \in 1..(n - 1 + 1) /\ 1 + i - 1 = i
    BY <1>2
  <2> QED
    BY <2>1, <1>4
<1> QED
  BY <1>4, <1>5, <1>6 DEF n

\* A walk that returns has been past all its callees: one of them leads back to it, and that one's
\* knot, which is its own, is reported.
LEMMA LeaveKnots == WalkInv /\ WalkInv' /\ KnotInv /\ Leave => KnotInv'
<1> SUFFICES ASSUME WalkInv, WalkInv', KnotInv, Leave PROVE KnotInv'
  OBVIOUS
<1>1. path # <<>> /\ left[Top] = {}
  BY DEF Leave
<1>2. /\ Len(path) \in Nat /\ Len(path) >= 1 /\ path[Len(path)] = Top /\ Top \in Names /\ state[Top] = 1
      /\ Top \in DOMAIN body
  BY <1>1, TopFacts
<1>3. path \in Seq(DOMAIN body) /\ state \in [Names -> 0..2] /\ DOMAIN body \subseteq Names
  BY DEF WalkInv, TypeOK
<1>4. /\ Len(path') = Len(path) - 1
      /\ \A i \in 1..(Len(path) - 1) : path'[i] = path[i]
  <2>1. path' = SubSeq(path, 1, Len(path) - 1)
    BY DEF Leave
  <2> QED
    BY <2>1, <1>2, <1>3, Butlast
<1>5. body' = body /\ bad' = bad /\ seen' = seen /\ left' = left
  BY DEF Leave
<1>6. state'[Top] = 2 /\ \A g \in Names : g # Top => state'[g] = state[g]
  BY <1>2, <1>3 DEF Leave
<1>7. PathReaches'
  <2> SUFFICES ASSUME NEW i \in 1..(Len(path) - 1), NEW j \in 1..(Len(path) - 1), i < j
               PROVE  Reaches(path'[i], path'[j])
    BY <1>4, <1>5 DEF PathReaches, Reaches, Calls
  <2>1. i \in 1..Len(path) /\ j \in 1..Len(path) /\ path'[i] = path[i] /\ path'[j] = path[j]
    BY <1>2, <1>4
  <2> QED
    BY <2>1 DEF KnotInv, PathReaches
<1>8. PastLoop'
  <2> SUFFICES ASSUME NEW i \in 1..Len(path'), NEW d \in (Calls(path[i]) \ left[path[i]])'
               PROVE  (state[d] = 2 \/ (i < Len(path) /\ d = path[i + 1]) \/ Reported(path[i]))'
    BY DEF PastLoop
  <2>6. i \in 1..(Len(path) - 1) /\ d \in Calls(path'[i]) /\ d \notin left[path'[i]]
    BY <1>4, <1>5 DEF Calls
  <2> SUFFICES state'[d] = 2 \/ (i < Len(path) - 1 /\ d = path'[i + 1]) \/ Reported(path[i])'
    BY <1>4
  <2>1. i \in 1..Len(path) /\ path'[i] = path[i] /\ d \in Names
    BY <2>6, <1>2, <1>3, <1>4 DEF Calls
  <2>2. state[d] = 2 \/ d = path[i + 1] \/ Reported(path[i])
    BY <2>6, <2>1 DEF KnotInv, PastLoop
  <2>5. Reported(path[i]) => Reported(path[i])'
    BY <2>1, <1>5 DEF Reported, Reaches, Calls
  <2>3. state[d] = 2 => state'[d] = 2
    BY <2>1, <1>2, <1>6
  <2>4. CASE d = path[i + 1]
    <3>1. CASE i = Len(path) - 1
      BY <3>1, <2>4, <1>2, <1>6
    <3>2. CASE i < Len(path) - 1
      BY <3>2, <2>4, <1>2, <1>4
    <3> QED
      BY <3>1, <3>2, <2>6, <1>2
  <2> QED
    BY <2>2, <2>3, <2>4, <2>5
<1>9. SeenReported'
  BY <1>5 DEF KnotInv, SeenReported
<1>10. Knots'
  <2> SUFFICES ASSUME NEW g \in DOMAIN body, state'[g] = 2, Reaches(g, g)' PROVE Reported(g)'
    BY <1>5 DEF Knots
  <2>1. g \in Names /\ Reaches(g, g)
    BY <1>5, SameReach DEF WalkInv, TypeOK
  <2>2. CASE g # Top
    <3>1. Reported(g)
      BY <2>1, <2>2, <1>6 DEF KnotInv, Knots
    <3> QED
      BY <3>1, <1>5, StaysReported
  <2>3. CASE g = Top
    <3>1. PICK c \in Calls(Top) : c = Top \/ Reaches(c, Top)
      BY <2>1, <2>3, ReachFirst
    <3>2. c \in DOMAIN body
      BY DEF Calls
    <3>3. state[c] = 2 \/ Reported(Top)
      <4>1. Len(path) \in 1..Len(path) /\ c \in Calls(path[Len(path)]) \ left[path[Len(path)]]
        BY <1>1, <1>2
      <4> QED
        BY <4>1, <1>2 DEF KnotInv, PastLoop
    <3>4. CASE Reported(Top)
      BY <3>4, <2>3, <1>5, StaysReported
    <3>5. CASE state[c] = 2
      <4>1. Reaches(c, Top) /\ Reaches(Top, c)
        BY <3>1, <3>5, <1>2, ReachCall
      <4>2. Reaches(c, c)
        BY <4>1, ReachTrans
      <4>3. PICK cyc \in bad : Reaches(c, cyc[1]) /\ Reaches(cyc[1], c)
        BY <4>2, <3>2, <3>5 DEF KnotInv, Knots, Reported
      <4>4. Reaches(Top, cyc[1]) /\ Reaches(cyc[1], Top)
        BY <4>1, <4>3, ReachTrans
      <4>5. Reported(Top)
        BY <4>4 DEF Reported
      <4> QED
        BY <4>5, <2>3, <1>5, StaysReported
    <3> QED
      BY <3>3, <3>4, <3>5
  <2> QED
    BY <2>2, <2>3
<1> QED
  BY <1>7, <1>8, <1>9, <1>10 DEF KnotInv

\* Every step keeps the knots.
LEMMA KnotStep == WalkInv /\ KnotInv /\ [Next]_recursionVars => KnotInv'
<1> SUFFICES ASSUME WalkInv, KnotInv, [Next]_recursionVars PROVE KnotInv'
  OBVIOUS
<1>0. WalkInv'
  BY StepInv
<1>1. CASE ReadFunction
  <2>1. pc' = "read"
    BY <1>1 DEF ReadFunction
  <2>2. path' = <<>> /\ Len(path') = 0 /\ seen' = {} /\ state' = [f \in Names |-> 0]
    BY <2>1, <1>0 DEF WalkInv, Fresh
  <2>3. \A f \in DOMAIN body' : f \in Names
    BY <1>0 DEF WalkInv, TypeOK
  <2> QED
    BY <2>2, <2>3 DEF KnotInv, PathReaches, SeenReported, PastLoop, Knots
<1>2. CASE AllRead
  BY <1>2, KnotsStay DEF AllRead
<1>3. ASSUME NEW f \in Names, WalkNext(f) PROVE KnotInv'
  BY <1>3, WalkNextKnots
<1>4. ASSUME NEW c \in Names, CloseCycle(c) PROVE KnotInv'
  BY <1>4, CloseCycleKnots
<1>5. ASSUME NEW c \in Names, Descend(c) PROVE KnotInv'
  BY <1>5, DescendKnots
<1>6. ASSUME NEW c \in Names, PassBy(c) PROVE KnotInv'
  BY <1>6, PassByKnots
<1>7. CASE Leave
  BY <1>7, <1>0, LeaveKnots
<1>8. CASE AllWalked
  BY <1>8, KnotsStay DEF AllWalked
<1>9. CASE UNCHANGED recursionVars
  BY <1>9, KnotsStay DEF recursionVars
<1> QED
  BY <1>1, <1>2, <1>3, <1>4, <1>5, <1>6, <1>7, <1>8, <1>9 DEF Next

-----------------------------------------------------------------------------
(* Natural numbers: a set of them has a least, and holds all when it holds 0 and each next one. *)

\* A set of natural numbers that is not empty has a least.
LEMMA LeastNat ==
  ASSUME NEW T, T \subseteq Nat, T # {}
  PROVE  \E x \in T : \A y \in T : x <= y
<1> DEFINE U == {1..n : n \in T}
           R == StrictSubsetOrdering(Nat)
<1>1. IsWellFoundedOn(R, FiniteSubsetsOf(Nat))
  BY FS_StrictSubsetOrderingWellFounded
<1>2. U \subseteq FiniteSubsetsOf(Nat)
  <2>1. ASSUME NEW n \in T PROVE 1..n \subseteq Nat /\ IsFiniteSet(1..n)
    BY FS_Interval
  <2> QED
    BY <2>1 DEF FiniteSubsetsOf
<1>6. U # {}
  OBVIOUS
<1> HIDE DEF R
<1>3. PICK u \in U : \A v \in U : ~(<<v, u>> \in R)
  <2> HIDE DEF U
  <2> QED
    BY <1>1, <1>2, <1>6, WFMin
<1>4. PICK x \in T : u = 1..x
  BY <1>3
<1>5. ASSUME NEW y \in T, y < x PROVE FALSE
  <2>1. x \in 1..x /\ x \notin 1..y /\ 1..y \subseteq 1..x
    BY <1>5
  <2>2. 1..y \in SUBSET Nat /\ 1..x \in SUBSET Nat /\ 1..y # 1..x
    BY <2>1
  <2>3. <<1..y, 1..x>> \in R
    BY <2>1, <2>2 DEF R, StrictSubsetOrdering
  <2> QED
    BY <2>3, <1>3, <1>4
<1> QED
  BY <1>5

\* A set of numbers that holds 0, and n + 1 with n, holds them all.
LEMMA ByOnes ==
  ASSUME NEW S, 0 \in S, \A n \in Nat : n \in S => n + 1 \in S
  PROVE  \A n \in Nat : n \in S
<1> DEFINE T == Nat \ S
<1>1. ASSUME T # {} PROVE FALSE
  <2>1. PICK x \in T : \A y \in T : x <= y
    <3>1. T \subseteq Nat
      OBVIOUS
    <3> HIDE DEF T
    <3> QED
      BY <3>1, <1>1, LeastNat
  <2>2. x \in Nat /\ x # 0
    BY <2>1
  <2>3. x - 1 \in Nat /\ x - 1 \notin T /\ (x - 1) + 1 = x
    BY <2>1, <2>2
  <2> QED
    BY <2>1, <2>3
<1> QED
  BY <1>1

\* A bounded set of natural numbers that is not empty has a greatest.
LEMMA GreatestNat ==
  ASSUME NEW n \in Nat, NEW T, \A x \in T : x \in 0..n, T # {}
  PROVE  \E x \in T : \A y \in T : y <= x
<1> DEFINE V == {n - x : x \in T}
<1>1. V \subseteq Nat /\ V # {}
  OBVIOUS
<1>2. PICK v \in V : \A y \in V : v <= y
  <2> HIDE DEF V
  <2> QED
    BY <1>1, LeastNat
<1>3. PICK x \in T : v = n - x
  BY <1>2
<1>4. ASSUME NEW y \in T PROVE y <= x
  <2>1. n - x <= n - y
    BY <1>2, <1>3
  <2> QED
    BY <2>1
<1> QED
  BY <1>4

(* The reference: the modes of a text, and what stands in them. *)

\* The modes of a text: it begins in the code, and each lexeme takes its mode to the next.
LEMMA ModesAre ==
  ASSUME NEW S, NEW t \in Seq(S)
  PROVE  /\ Modes(t)[1] = "code"
         /\ \A k \in 1..Len(t) : Modes(t)[k + 1] = After(Modes(t)[k], t[k])
<1> DEFINE Pass(f, n) == f = [k \in 1..(n + 1) |-> IF k = 1 THEN "code" ELSE After(f[k - 1], t[k - 1])]
           Able == {n \in Nat : \E f : Pass(f, n)}
<1>1. 0 \in Able
  <2>1. Pass([k \in 1..1 |-> "code"], 0)
    OBVIOUS
  <2> QED
    BY <2>1
<1>2. ASSUME NEW n \in Nat, n \in Able PROVE n + 1 \in Able
  <2>1. PICK f : Pass(f, n)
    BY <1>2
  <2> DEFINE g == [k \in 1..(n + 2) |-> IF k = 1 THEN "code" ELSE After(f[k - 1], t[k - 1])]
  <2>2. ASSUME NEW k \in 1..(n + 1) PROVE g[k] = f[k]
    BY <2>1
  <2>3. ASSUME NEW k \in 1..(n + 2) PROVE g[k] = IF k = 1 THEN "code" ELSE After(g[k - 1], t[k - 1])
    <3>1. CASE k = 1
      BY <3>1
    <3>2. CASE k # 1
      <4>1. k - 1 \in 1..(n + 1)
        BY <3>2
      <4>2. g[k - 1] = f[k - 1]
        BY <4>1, <2>2
      <4>3. g[k] = After(f[k - 1], t[k - 1])
        BY <3>2
      <4> QED
        BY <3>2, <4>2, <4>3
    <3> QED
      BY <3>1, <3>2
  <2>4. g = [k \in 1..(n + 2) |-> g[k]]
    OBVIOUS
  <2> HIDE DEF g
  <2>5. Pass(g, n + 1)
    <3>1. (n + 1) + 1 = n + 2
      OBVIOUS
    <3> QED
      BY <2>3, <2>4, <3>1
  <2> QED
    BY <2>5
<1>3. Len(t) \in Able
  <2>1. \A n \in Nat : n \in Able
    <3> HIDE DEF Able
    <3> QED
      BY <1>1, <1>2, ByOnes
  <2> QED
    BY <2>1
<1>4. PICK f : Pass(f, Len(t))
  BY <1>3
<1>5. Modes(t) = [k \in 1..(Len(t) + 1) |-> IF k = 1 THEN "code" ELSE After(Modes(t)[k - 1], t[k - 1])]
  BY <1>4 DEF Modes
<1> HIDE DEF Pass, Able
<1>6. Len(t) \in Nat
  OBVIOUS
<1>7. ASSUME NEW k \in 1..Len(t) PROVE Modes(t)[k + 1] = After(Modes(t)[k], t[k])
  <2>1. k + 1 \in 1..(Len(t) + 1) /\ k + 1 # 1 /\ (k + 1) - 1 = k
    BY <1>6
  <2> QED
    BY <2>1, <1>5
<1>8. Modes(t)[1] = "code"
  BY <1>5, <1>6
<1> QED
  BY <1>7, <1>8

\* A mode that the lexemes from a to b - 1 stay in is that of each position from a to b.
LEMMA ModeStays ==
  ASSUME NEW S, NEW t \in Seq(S), NEW m, NEW a \in 1..(Len(t) + 1), NEW b \in 1..(Len(t) + 1),
         Modes(t)[a] = m, \A j \in a..(b - 1) : After(m, t[j]) = m
  PROVE  \A j \in a..b : Modes(t)[j] = m
<1> DEFINE Able == {n \in Nat : a + n <= b => Modes(t)[a + n] = m}
<1>1. 0 \in Able
  OBVIOUS
<1>2. ASSUME NEW n \in Nat, n \in Able PROVE n + 1 \in Able
  <2> SUFFICES ASSUME a + (n + 1) <= b PROVE Modes(t)[a + (n + 1)] = m
    OBVIOUS
  <2>1. Modes(t)[a + n] = m /\ a + n \in 1..Len(t) /\ a + n \in a..(b - 1)
    BY <1>2
  <2>2. Modes(t)[(a + n) + 1] = After(m, t[a + n])
    BY <2>1, ModesAre
  <2>3. (a + n) + 1 = a + (n + 1)
    OBVIOUS
  <2> QED
    BY <2>1, <2>2, <2>3
<1>3. \A n \in Nat : n \in Able
  <2> HIDE DEF Able
  <2> QED
    BY <1>1, <1>2, ByOnes
<1>4. ASSUME NEW j \in a..b PROVE Modes(t)[j] = m
  <2>1. j - a \in Nat /\ a + (j - a) = j /\ j <= b
    OBVIOUS
  <2>2. j - a \in Able
    BY <2>1, <1>3
  <2> QED
    BY <2>1, <2>2
<1> QED
  BY <1>4

\* Find gives the first position that holds x, or the one past the end.
LEMMA FindIs ==
  ASSUME NEW S, text \in Seq(S), NEW x, NEW k \in 1..(Len(text) + 1), NEW e, e = Find(x, k)
  PROVE  /\ e \in k..(Len(text) + 1)
         /\ \A j \in k..(e - 1) : text[j] # x
         /\ e <= Len(text) => text[e] = x
<1> DEFINE T == {j \in k..Len(text) : text[j] = x} \cup {Len(text) + 1}
<1>1. Len(text) \in Nat /\ T \subseteq Nat /\ T # {} /\ Len(text) + 1 \in T
  OBVIOUS
<1>2. \E y \in T : \A z \in T : y <= z
  <2> HIDE DEF T
  <2> QED
    BY <1>1, LeastNat
<1>3. e \in T /\ \A z \in T : e <= z
  BY <1>2 DEF Find, Min
<1>4. ASSUME NEW j \in k..(e - 1) PROVE text[j] # x
  <2>1. j \notin T /\ j \in k..Len(text)
    BY <1>3, <1>1
  <2> QED
    BY <2>1
<1> QED
  BY <1>3, <1>4, <1>1

\* Where a literal ends: all of it stands in a literal, and the code goes on after its end.
LEMMA LiteralEndIs ==
  ASSUME NEW S, text \in Seq(S), at \in Nat, at < Len(text), NEW quote \in Quotes,
         NEW m \in {"double", "single"}, quote = <<m>>, Modes(text)[at + 2] = m,
         NEW e, e = LiteralEnd(quote)
  PROVE  /\ e \in (at + 2)..(Len(text) + 2)
         /\ \A k \in (at + 2)..e : k <= Len(text) => Modes(text)[k] \notin {"code", "line", "block"}
         /\ e <= Len(text) => Modes(text)[e + 1] = "code"
<1> DEFINE L == Len(text)
           Pass(f, n) ==
             f = [j \in (L + 2 - n)..(L + 2) |->
                    IF j > L \/ text[j] \in {quote, LineEnd} THEN j
                    ELSE IF text[j] = Backslash THEN f[j + 2] ELSE f[j + 1]]
           Able == {n \in Nat : \E f : Pass(f, n)}
<1>0. L \in Nat
  OBVIOUS
<1> HIDE DEF L
<1>1. 0 \in Able
  <2>1. Pass([j \in (L + 2)..(L + 2) |-> L + 2], 0)
    <3>1. \A j \in (L + 2)..(L + 2) : j = L + 2 /\ j > L
      BY <1>0
    <3>2. L + 2 - 0 = L + 2
      BY <1>0
    <3> QED
      BY <3>1, <3>2
  <2> QED
    BY <2>1
<1>2. ASSUME NEW n \in Nat, n \in Able PROVE n + 1 \in Able
  <2>1. PICK f : Pass(f, n)
    BY <1>2
  <2> DEFINE g == [j \in (L + 2 - (n + 1))..(L + 2) |->
                     IF j > L \/ text[j] \in {quote, LineEnd} THEN j
                     ELSE IF text[j] = Backslash THEN f[j + 2] ELSE f[j + 1]]
  <2>2. ASSUME NEW j \in (L + 2 - n)..(L + 2) PROVE g[j] = f[j]
    <3>1. j \in (L + 2 - (n + 1))..(L + 2)
      BY <1>0
    <3> QED
      BY <2>1, <3>1
  <2>3. ASSUME NEW j \in (L + 2 - (n + 1))..(L + 2)
        PROVE  g[j] = IF j > L \/ text[j] \in {quote, LineEnd} THEN j
                      ELSE IF text[j] = Backslash THEN g[j + 2] ELSE g[j + 1]
    <3>1. CASE j > L
      BY <3>1
    <3>2. CASE ~(j > L)
      <4>1. j + 1 \in (L + 2 - n)..(L + 2) /\ j + 2 \in (L + 2 - n)..(L + 2)
        BY <3>2, <1>0
      <4>2. g[j + 1] = f[j + 1] /\ g[j + 2] = f[j + 2]
        BY <4>1, <2>2
      <4>3. g[j] = IF j > L \/ text[j] \in {quote, LineEnd} THEN j
                   ELSE IF text[j] = Backslash THEN f[j + 2] ELSE f[j + 1]
        OBVIOUS
      <4> HIDE DEF g
      <4> QED
        BY <4>2, <4>3
    <3> QED
      BY <3>1, <3>2
  <2>4. g = [j \in (L + 2 - (n + 1))..(L + 2) |-> g[j]]
    OBVIOUS
  <2> HIDE DEF g
  <2>5. Pass(g, n + 1)
    BY <2>3, <2>4
  <2> HIDE DEF Pass
  <2> QED
    BY <2>5
<1>3. L - at \in Able
  <2>1. \A n \in Nat : n \in Able
    <3> HIDE DEF Able
    <3> QED
      BY <1>1, <1>2, ByOnes
  <2>2. L - at \in Nat
    BY <1>0 DEF L
  <2> QED
    BY <2>1, <2>2
<1>4. L + 2 - (L - at) = at + 2
  BY <1>0
<1>5. \E f : f = [j \in (at + 2)..(L + 2) |->
                    IF j > L \/ text[j] \in {quote, LineEnd} THEN j
                    ELSE IF text[j] = Backslash THEN f[j + 2] ELSE f[j + 1]]
  BY <1>3, <1>4
<1> DEFINE end == CHOOSE f : f = [j \in (at + 2)..(L + 2) |->
                    IF j > L \/ text[j] \in {quote, LineEnd} THEN j
                    ELSE IF text[j] = Backslash THEN f[j + 2] ELSE f[j + 1]]
<1>6. end = [j \in (at + 2)..(L + 2) |->
                    IF j > L \/ text[j] \in {quote, LineEnd} THEN j
                    ELSE IF text[j] = Backslash THEN end[j + 2] ELSE end[j + 1]]
  BY <1>5
<1>7. e = end[at + 2]
  BY DEF LiteralEnd, L
<1> HIDE DEF end, Pass, Able
<1>8. ASSUME NEW j \in (at + 2)..(L + 2)
      PROVE  end[j] = IF j > L \/ text[j] \in {quote, LineEnd} THEN j
                      ELSE IF text[j] = Backslash THEN end[j + 2] ELSE end[j + 1]
  BY <1>6
<1> DEFINE Good(j) ==
             /\ end[j] \in j..(L + 2)
             /\ j <= L + 1 /\ Modes(text)[j] = m =>
                  /\ \A k \in j..end[j] : k <= L => Modes(text)[k] \notin {"code", "line", "block"}
                  /\ end[j] <= L => Modes(text)[end[j] + 1] = "code"
           Fine == {n \in Nat : \A i \in 0..n : i <= L - at => Good(L + 2 - i)}
<1>9. ASSUME NEW k \in 1..L, Modes(text)[k] = m
      PROVE  /\ text[k] \in {quote, LineEnd} => Modes(text)[k + 1] = "code"
             /\ text[k] \notin {quote, LineEnd, Backslash} => Modes(text)[k + 1] = m
             /\ text[k] = Backslash =>
                  Modes(text)[k + 1] = (IF m = "double" THEN "skip double" ELSE "skip single")
  <2>1. Modes(text)[k + 1] = After(m, text[k])
    BY <1>9, ModesAre DEF L
  <2>2. text[k] \in {quote, LineEnd} => After(m, text[k]) = "code"
    BY DEF After
  <2>3. text[k] \notin {quote, LineEnd, Backslash} => After(m, text[k]) = m
    BY DEF After
  <2>4. text[k] = Backslash => After(m, text[k]) = (IF m = "double" THEN "skip double" ELSE "skip single")
    <3>1. Backslash \notin {<<m>>, LineEnd}
      BY DEF Backslash, LineEnd
    <3> QED
      BY <3>1 DEF After
  <2> QED
    BY <2>1, <2>2, <2>3, <2>4
<1>10. ASSUME NEW k \in 1..L, Modes(text)[k] = (IF m = "double" THEN "skip double" ELSE "skip single")
       PROVE  Modes(text)[k + 1] = m
  <2>1. Modes(text)[k + 1] = After(Modes(text)[k], text[k])
    BY <1>10, ModesAre DEF L
  <2> QED
    BY <2>1, <1>10 DEF After
<1>11. ASSUME NEW j \in (at + 2)..(L + 2), j <= L => Good(j + 1) /\ Good(j + 2) PROVE Good(j)
  <2>1. CASE j > L
    <3>1. end[j] = j
      BY <2>1, <1>8
    <3>2. j <= L + 1 => j = L + 1
      BY <2>1, <1>0
    <3> QED
      BY <3>1, <2>1, <1>0
  <2>2. CASE j <= L /\ text[j] \in {quote, LineEnd}
    <3>1. end[j] = j /\ j \in 1..L
      BY <2>2, <1>8, <1>0
    <3>2. Modes(text)[j] = m => Modes(text)[j + 1] = "code"
      BY <3>1, <2>2, <1>9
    <3>3. \A k \in j..end[j] : k = j
      BY <3>1
    <3> QED
      BY <3>1, <3>2, <3>3, <1>0
  <2>3. CASE j <= L /\ text[j] \notin {quote, LineEnd, Backslash}
    <3>1. end[j] = end[j + 1] /\ j \in 1..L /\ Good(j + 1)
      BY <2>3, <1>8, <1>0, <1>11
    <3>2. Modes(text)[j] = m => Modes(text)[j + 1] = m
      BY <3>1, <2>3, <1>9
    <3>3. end[j] \in j..(L + 2) /\ \A k \in j..end[j] : k = j \/ k \in (j + 1)..end[j]
      BY <3>1, <1>0
    <3> QED
      BY <3>1, <3>2, <3>3, <1>0
  <2>4. CASE j <= L /\ text[j] = Backslash /\ Backslash \notin {quote, LineEnd}
    <3>1. end[j] = end[j + 2] /\ j \in 1..L /\ Good(j + 2)
      <4>1. text[j] \notin {quote, LineEnd} /\ ~(j > L)
        BY <2>4, <1>0
      <4>2. end[j] = end[j + 2]
        BY <4>1, <2>4, <1>8
      <4>3. j \in 1..L
        BY <4>1, <1>0
      <4> QED
        BY <4>2, <4>3, <2>4, <1>11
    <3>2. Modes(text)[j] = m => Modes(text)[j + 1] = (IF m = "double" THEN "skip double" ELSE "skip single")
      BY <3>1, <2>4, <1>9
    <3>3. Modes(text)[j] = m /\ j + 1 <= L => Modes(text)[j + 2] = m
      <4>1. SUFFICES ASSUME Modes(text)[j] = m, j + 1 <= L PROVE Modes(text)[j + 2] = m
        OBVIOUS
      <4>2. j + 1 \in 1..L /\ (j + 1) + 1 = j + 2
        BY <3>1, <4>1, <1>0
      <4>3. Modes(text)[(j + 1) + 1] = m
        BY <3>2, <4>1, <4>2, <1>10
      <4> QED
        BY <4>2, <4>3
    <3>4. end[j] \in j..(L + 2) /\ \A k \in j..end[j] : k = j \/ k = j + 1 \/ k \in (j + 2)..end[j]
      BY <3>1, <1>0
    <3>5. m \notin {"code", "line", "block"} /\ (IF m = "double" THEN "skip double" ELSE "skip single") \notin {"code", "line", "block"}
      OBVIOUS
    <3>6. ASSUME j <= L + 1, Modes(text)[j] = m, NEW k \in j..end[j], k <= L
          PROVE  Modes(text)[k] \notin {"code", "line", "block"}
      <4>1. CASE k = j
        BY <4>1, <3>5, <3>6
      <4>2. CASE k = j + 1
        BY <4>2, <3>2, <3>5, <3>6
      <4>3. CASE k \in (j + 2)..end[j]
        <5>1. j + 1 <= L /\ j + 2 <= L + 1
          BY <4>3, <3>1, <3>6, <1>0
        <5> QED
          BY <4>3, <5>1, <3>1, <3>3, <3>6
      <4> QED
        BY <4>1, <4>2, <4>3, <3>4
    <3>7. ASSUME j <= L + 1, Modes(text)[j] = m, end[j] <= L PROVE Modes(text)[end[j] + 1] = "code"
      <4>1. j + 2 <= L
        BY <3>1, <3>7, <1>0
      <4>2. j + 1 <= L /\ j + 2 <= L + 1
        BY <4>1, <3>1, <1>0
      <4> QED
        BY <4>2, <3>1, <3>3, <3>7
    <3> QED
      BY <3>4, <3>6, <3>7
  <2>5. Backslash \notin {quote, LineEnd}
    BY DEF Backslash, LineEnd
  <2> QED
    BY <2>1, <2>2, <2>3, <2>4, <2>5, <1>0
<1> HIDE DEF Good
<1>12. 0 \in Fine
  <2>1. ASSUME 0 <= L - at PROVE Good(L + 2 - 0)
    <3>1. L + 2 \in (at + 2)..(L + 2) /\ ~(L + 2 <= L) /\ L + 2 - 0 = L + 2
      BY <2>1, <1>0
    <3> QED
      BY <3>1, <1>11
  <2> QED
    BY <2>1
<1>13. ASSUME NEW n \in Nat, n \in Fine PROVE n + 1 \in Fine
  <2> SUFFICES ASSUME n + 1 <= L - at PROVE Good(L + 2 - (n + 1))
    <3>1. \A i \in 0..(n + 1) : i \in 0..n \/ i = n + 1
      OBVIOUS
    <3> QED
      BY <3>1, <1>13
  <2> DEFINE j == L + 2 - (n + 1)
  <2>1. j \in (at + 2)..(L + 2) /\ j + 1 = L + 2 - n
    BY <1>0
  <2>2. Good(j + 1)
    <3>1. n \in 0..n /\ n <= L - at
      BY <1>0
    <3> QED
      BY <3>1, <2>1, <1>13
  <2>3. j <= L => Good(j + 2)
    <3> SUFFICES ASSUME j <= L PROVE Good(j + 2)
      OBVIOUS
    <3>1. n - 1 \in 0..n /\ n - 1 <= L - at /\ j + 2 = L + 2 - (n - 1)
      BY <1>0
    <3> QED
      BY <3>1, <1>13
  <2> HIDE DEF j
  <2>4. Good(j)
    BY <2>1, <2>2, <2>3, <1>11
  <2> QED
    BY <2>4 DEF j
<1>14. Good(at + 2)
  <2>1. \A n \in Nat : n \in Fine
    <3> HIDE DEF Fine
    <3> QED
      BY <1>12, <1>13, ByOnes
  <2>2. L - at \in Nat /\ L - at \in 0..(L - at)
    BY <1>0 DEF L
  <2> QED
    BY <2>1, <2>2, <1>4
<1>15. at + 2 <= L + 1
  BY <1>0 DEF L
<1> QED
  BY <1>14, <1>15, <1>7 DEF Good, L

(* Texts, blanked. *)

IsSeq(s) == \E S : s \in Seq(S)

\* What blanking makes of the first n lexemes of a text: the code is kept and nothing else is, and a
\* line's end is one still, but for those that a literal swallows.
BlankedAt(t, o, k) ==
  /\ k \in InCode(t) => o[k] = t[k]
  /\ k \notin InCode(t) => o[k] \in {Space, LineEnd} \cup Quotes
  /\ (o[k] = LineEnd) = (t[k] = LineEnd) \/ (k \in InLiteral(t) /\ t[k] = LineEnd)
Blanked(t, o, n) == \A k \in 1..n : BlankedAt(t, o, k)

\* The loop of blank stands in the code, or at the end of a line comment's line.
Reading ==
  /\ at \in 0..Len(text) /\ IsSeq(out) /\ Len(out) = at
  /\ Blanked(text, out, at)
  /\ at < Len(text) =>
       \/ Modes(text)[at + 1] = "code"
       \/ Modes(text)[at + 1] = "line" /\ text[at + 1] = LineEnd

(* The loop of blank. *)

\* A function on 1..n is a sequence of length n.
LEMMA FunctionIsSeq ==
  ASSUME NEW n \in Nat, NEW T, NEW f \in [1..n -> T]
  PROVE  f \in Seq(T) /\ Len(f) = n
  OBVIOUS

\* What a turn of the loop does to the invariant, when what it gives for each lexeme is right.
LEMMA TurnKept ==
  ASSUME NEW S, text \in Seq(S), Reading, text' = text,
         NEW end \in (at + 1)..Len(text), at' = end,
         NEW f, f = [k \in 1..(end - at) |-> f[k]], out' = out \o f,
         \A k \in (at + 1)..end : BlankedAt(text, [j \in {k} |-> f[k - at]], k),
         end < Len(text) =>
           \/ Modes(text)[end + 1] = "code"
           \/ Modes(text)[end + 1] = "line" /\ text[end + 1] = LineEnd
  PROVE  Reading'
<1>1. /\ at \in Nat /\ end \in Nat /\ Len(text) \in Nat /\ Len(out) = at
      /\ IsSeq(out)
  BY DEF Reading
<1>2. /\ Len(out') = end /\ IsSeq(out')
      /\ \A k \in 1..at : out'[k] = out[k]
      /\ \A k \in (at + 1)..end : out'[k] = f[k - at]
  <2>1. PICK Q : out \in Seq(Q)
    BY <1>1 DEF IsSeq
  <2> DEFINE T == Q \cup {f[k] : k \in 1..(end - at)}
  <2>2. f \in [1..(end - at) -> T] /\ end - at \in Nat
    BY <1>1
  <2>3. out \in Seq(T)
    BY <2>1
  <2> HIDE DEF T
  <2>4. f \in Seq(T) /\ Len(f) = end - at
    BY <2>2, FunctionIsSeq
  <2>5. /\ out \o f \in Seq(T) /\ Len(out \o f) = at + (end - at)
        /\ \A k \in 1..(at + (end - at)) : (out \o f)[k] = IF k <= at THEN out[k] ELSE f[k - at]
    BY <2>3, <2>4, <1>1, ConcatProperties
  <2>6. at + (end - at) = end
    BY <1>1
  <2>7. IsSeq(out')
    BY <2>5 DEF IsSeq
  <2> QED
    BY <2>5, <2>6, <2>7, <1>1
<1>3. ASSUME NEW k \in 1..end PROVE BlankedAt(text, out', k)
  <2>1. CASE k \in 1..at
    BY <2>1, <1>2 DEF Reading, Blanked, BlankedAt
  <2>2. CASE k \in (at + 1)..end
    <3>1. BlankedAt(text, [j \in {k} |-> f[k - at]], k) /\ out'[k] = f[k - at]
      BY <2>2, <1>2
    <3> QED
      BY <3>1 DEF BlankedAt
  <2> QED
    BY <2>1, <2>2, <1>1
<1>4. Blanked(text, out', end)
  BY <1>3 DEF Blanked
<1>5. at' \in 0..Len(text') /\ Len(out') = at' /\ Blanked(text', out', at')
  BY <1>1, <1>2, <1>4
<1>6. at' < Len(text') =>
        \/ Modes(text')[at' + 1] = "code"
        \/ Modes(text')[at' + 1] = "line" /\ text'[at' + 1] = LineEnd
  OBVIOUS
<1> QED
  BY <1>2, <1>5, <1>6 DEF Reading

\* A line comment, up to the end of its line.
LEMMA LineCommentKept ==
  ASSUME NEW S, text \in Seq(S), Reading, LineComment
  PROVE  Reading'
<1> DEFINE e == Find(LineEnd, at + 1)
           f == [k \in 1..((e - 1) - at) |-> Space]
<1>1. /\ at \in Nat /\ at < Len(text) /\ text[at + 1] = LineOpener /\ Len(text) \in Nat
      /\ at + 1 \in 1..(Len(text) + 1) /\ at + 1 \in 1..Len(text)
  BY DEF Reading, LineComment, Starts
<1>2. LineOpener # LineEnd
  BY DEF LineOpener, LineEnd
<1>3. /\ e \in (at + 1)..(Len(text) + 1) /\ (\A j \in (at + 1)..(e - 1) : text[j] # LineEnd)
      /\ (e <= Len(text) => text[e] = LineEnd)
  BY <1>1, FindIs
<1>4. at' = e - 1 /\ out' = out \o f /\ text' = text
  BY DEF LineComment, Give
<1> HIDE DEF e
<1>5. e # at + 1
  BY <1>1, <1>2, <1>3
<1>6. e - 1 \in (at + 1)..Len(text) /\ at + 2 \in 1..(Len(text) + 1) /\ e \in 1..(Len(text) + 1)
  BY <1>1, <1>3, <1>5
<1>7. Modes(text)[at + 1] = "code"
  BY <1>1, <1>2 DEF Reading
<1>8. Modes(text)[at + 2] = "line" /\ After("code", LineOpener) = "line"
  <2>1. Modes(text)[(at + 1) + 1] = After("code", LineOpener)
    BY <1>1, <1>7, ModesAre
  <2>2. After("code", LineOpener) = "line"
    BY DEF After, LineOpener, BlockOpener
  <2>3. (at + 1) + 1 = at + 2
    BY <1>1
  <2> QED
    BY <2>1, <2>2, <2>3
<1>9. ASSUME NEW x, x # LineEnd PROVE After("line", x) = "line"
  BY <1>9 DEF After
<1>10. \A j \in (at + 2)..e : Modes(text)[j] = "line"
  <2>1. \A j \in (at + 2)..(e - 1) : After("line", text[j]) = "line"
    <3>1. ASSUME NEW j \in (at + 2)..(e - 1) PROVE After("line", text[j]) = "line"
      <4>1. j \in (at + 1)..(e - 1)
        BY <1>1, <1>6
      <4> QED
        BY <4>1, <1>3, <1>9
    <3> QED
      BY <3>1
  <2> QED
    <3>1. Modes(text)[at + 2] = "line" /\ at + 2 \in 1..(Len(text) + 1) /\ e \in 1..(Len(text) + 1)
      BY <1>6, <1>8
    <3> HIDE DEF f
    <3> QED
      BY <2>1, <3>1, ModeStays
<1>11. ASSUME NEW k \in (at + 1)..(e - 1)
       PROVE  BlankedAt(text, [j \in {k} |-> f[k - at]], k)
  <2>1. f[k - at] = Space /\ text[k] # LineEnd /\ k \in DOMAIN text
    BY <1>1, <1>3, <1>6
  <2>2. k \notin InCode(text)
    <3>1. CASE k = at + 1
      BY <3>1, <1>1, <1>7, <1>8 DEF InCode
    <3>2. CASE k \in (at + 2)..e
      <4>1. Modes(text)[k] = "line" /\ After("line", text[k]) = "line"
        BY <3>2, <2>1, <1>9, <1>10
      <4> QED
        BY <4>1 DEF InCode
    <3> QED
      BY <3>1, <3>2, <1>1, <1>6
  <2>3. Space # LineEnd
    BY DEF Space, LineEnd
  <2> HIDE DEF f
  <2> QED
    BY <2>1, <2>2, <2>3 DEF BlankedAt
<1>12. e - 1 < Len(text) => Modes(text)[(e - 1) + 1] = "line" /\ text[(e - 1) + 1] = LineEnd
  BY <1>1, <1>3, <1>6, <1>10
<1>13. f = [k \in 1..((e - 1) - at) |-> f[k]]
  OBVIOUS
<1> HIDE DEF f
<1> QED
  BY <1>4, <1>6, <1>11, <1>12, <1>13, TurnKept

\* A block comment, to its closer or to the end of the text.
LEMMA BlockCommentKept ==
  ASSUME NEW S, text \in Seq(S), Reading, BlockComment
  PROVE  Reading'
<1> DEFINE e == Find(BlockCloser, at + 2)
           end == Upto(e)
           f == [k \in 1..(end - at) |-> IF text[at + k] = LineEnd THEN LineEnd ELSE Space]
<1>1. /\ at \in Nat /\ at < Len(text) /\ text[at + 1] = BlockOpener /\ Len(text) \in Nat
      /\ at + 2 \in 1..(Len(text) + 1) /\ at + 1 \in 1..Len(text)
  BY DEF Reading, BlockComment, Starts
<1>2. BlockOpener # LineEnd
  BY DEF BlockOpener, LineEnd
<1>3. /\ e \in (at + 2)..(Len(text) + 1) /\ (\A j \in (at + 2)..(e - 1) : text[j] # BlockCloser)
      /\ (e <= Len(text) => text[e] = BlockCloser)
  BY <1>1, FindIs
<1>4. at' = end /\ out' = out \o f /\ text' = text
  BY DEF BlockComment, Give
<1> HIDE DEF e
<1>5. /\ end \in (at + 1)..Len(text) /\ (end < Len(text) => end = e) /\ end <= e
      /\ e \in 1..(Len(text) + 1)
  BY <1>1, <1>3 DEF Upto
<1> HIDE DEF end
<1>7. Modes(text)[at + 1] = "code"
  BY <1>1, <1>2 DEF Reading
<1>8. Modes(text)[at + 2] = "block" /\ After("code", BlockOpener) = "block"
  <2>1. Modes(text)[(at + 1) + 1] = After("code", BlockOpener)
    BY <1>1, <1>7, ModesAre
  <2>2. After("code", BlockOpener) = "block" /\ (at + 1) + 1 = at + 2
    BY <1>1 DEF After, BlockOpener, LineOpener
  <2> QED
    BY <2>1, <2>2
<1>9. ASSUME NEW x, x # BlockCloser PROVE After("block", x) = "block"
  BY <1>9 DEF After
<1>10. \A j \in (at + 2)..e : Modes(text)[j] = "block"
  <2>1. \A j \in (at + 2)..(e - 1) : After("block", text[j]) = "block"
    BY <1>3, <1>9
  <2> QED
    BY <2>1, <1>1, <1>5, <1>8, ModeStays
<1>11. ASSUME NEW k \in (at + 1)..end
       PROVE  BlankedAt(text, [j \in {k} |-> f[k - at]], k)
  <2>1. k - at \in 1..(end - at) /\ at + (k - at) = k /\ k \in DOMAIN text
    BY <1>1, <1>5
  <2>2. f[k - at] = IF text[k] = LineEnd THEN LineEnd ELSE Space
    BY <2>1
  <2>3. k \notin InCode(text)
    <3>1. CASE k = at + 1
      BY <3>1, <1>1, <1>7, <1>8 DEF InCode
    <3>2. CASE k \in (at + 2)..e
      <4>1. Modes(text)[k] = "block"
        BY <3>2, <1>10
      <4> QED
        BY <4>1 DEF InCode
    <3> QED
      BY <3>1, <3>2, <1>1, <1>5
  <2>4. Space # LineEnd
    BY DEF Space, LineEnd
  <2> HIDE DEF f
  <2>5. f[k - at] \in {Space, LineEnd} /\ ((f[k - at] = LineEnd) = (text[k] = LineEnd))
    BY <2>2, <2>4
  <2> QED
    BY <2>3, <2>5 DEF BlankedAt
<1>12. end < Len(text) => Modes(text)[end + 1] = "code"
  <2> SUFFICES ASSUME end < Len(text) PROVE Modes(text)[end + 1] = "code"
    OBVIOUS
  <2>1. end = e /\ e \in 1..Len(text) /\ text[e] = BlockCloser /\ Modes(text)[e] = "block"
    BY <1>1, <1>3, <1>5, <1>10
  <2>2. Modes(text)[e + 1] = After("block", BlockCloser)
    BY <2>1, ModesAre
  <2> QED
    BY <2>1, <2>2 DEF After
<1>13. f = [k \in 1..(end - at) |-> f[k]]
  OBVIOUS
<1> HIDE DEF f
<1> QED
  BY <1>4, <1>5, <1>11, <1>12, <1>13, TurnKept

\* A literal, from its quote to its end.
LEMMA LiteralKept ==
  ASSUME NEW S, text \in Seq(S), Reading, Literal
  PROVE  Reading'
<1>0. PICK quote \in Quotes :
        /\ Starts(quote) /\ text' = text /\ at' = Upto(LiteralEnd(quote))
        /\ out' = out \o [k \in 1..(Upto(LiteralEnd(quote)) - at) |->
                            IF at + k \in {at + 1, Upto(LiteralEnd(quote))} THEN quote ELSE Space]
  BY DEF Literal, Give
<1> DEFINE e == LiteralEnd(quote)
           end == Upto(e)
           f == [k \in 1..(end - at) |-> IF at + k \in {at + 1, end} THEN quote ELSE Space]
<1>1. /\ at \in Nat /\ at < Len(text) /\ text[at + 1] = quote /\ Len(text) \in Nat
      /\ at + 1 \in 1..Len(text)
  BY <1>0 DEF Reading, Starts
<1>2. PICK m \in {"double", "single"} : quote = <<m>>
  BY DEF Quotes
<1>3. quote # LineEnd /\ Space # LineEnd /\ quote \notin {LineOpener, BlockOpener}
  BY <1>2 DEF LineEnd, Space, LineOpener, BlockOpener
<1>4. Modes(text)[at + 1] = "code"
  BY <1>1, <1>3 DEF Reading
<1>5. Modes(text)[at + 2] = m /\ After("code", quote) = m
  <2>1. Modes(text)[(at + 1) + 1] = After("code", quote)
    BY <1>1, <1>4, ModesAre
  <2>2. After("code", quote) = m
    <3>1. CASE m = "double"
      BY <3>1, <1>2, <1>3 DEF After
    <3>2. CASE m = "single"
      <4>1. quote = <<"single">> /\ quote # <<"double">>
        BY <3>2, <1>2
      <4> QED
        BY <4>1, <3>2, <1>3 DEF After
    <3> QED
      BY <3>1, <3>2
  <2>3. (at + 1) + 1 = at + 2
    BY <1>1
  <2> QED
    BY <2>1, <2>2, <2>3
<1>6. /\ e \in (at + 2)..(Len(text) + 2)
      /\ \A k \in (at + 2)..e : k <= Len(text) => Modes(text)[k] \notin {"code", "line", "block"}
      /\ e <= Len(text) => Modes(text)[e + 1] = "code"
  BY <1>1, <1>2, <1>5, LiteralEndIs
<1>7. at' = end /\ out' = out \o f /\ text' = text
  BY <1>0
<1> HIDE DEF e
<1>8. end \in (at + 1)..Len(text) /\ (end < Len(text) => end = e) /\ end <= e
  BY <1>1, <1>6 DEF Upto
<1> HIDE DEF end
<1>9. ASSUME NEW k \in (at + 1)..end
      PROVE  BlankedAt(text, [j \in {k} |-> f[k - at]], k)
  <2>1. k - at \in 1..(end - at) /\ at + (k - at) = k /\ k \in DOMAIN text /\ k <= Len(text)
    BY <1>1, <1>8
  <2>2. f[k - at] \in {quote, Space}
    BY <2>1
  <2> HIDE DEF f
  <2>3. f[k - at] # LineEnd /\ f[k - at] \in {Space, LineEnd} \cup Quotes
    BY <2>2, <1>3
  <2>4. CASE k = at + 1
    <3>1. m # "code" /\ Modes(text)[k] = "code" /\ After(Modes(text)[k], text[k]) = m
      BY <2>4, <1>1, <1>4, <1>5
    <3>2. k \notin InCode(text) /\ text[k] # LineEnd
      BY <3>1, <2>4, <1>1, <1>3 DEF InCode
    <3> QED
      BY <3>2, <2>3 DEF BlankedAt
  <2>5. CASE k \in (at + 2)..e
    <3>1. Modes(text)[k] \notin {"code", "line", "block"}
      BY <2>5, <2>1, <1>6
    <3>2. k \notin InCode(text) /\ k \in InLiteral(text)
      BY <3>1, <2>1 DEF InCode, InLiteral
    <3> QED
      BY <3>2, <2>3 DEF BlankedAt
  <2> QED
    BY <2>4, <2>5, <1>1, <1>8, <1>6
<1>10. end < Len(text) => Modes(text)[end + 1] = "code"
  BY <1>1, <1>6, <1>8
<1>11. f = [k \in 1..(end - at) |-> f[k]]
  OBVIOUS
<1> HIDE DEF f
<1> QED
  BY <1>7, <1>8, <1>9, <1>10, <1>11, TurnKept

\* A lexeme of the code, or the end of a line comment's line.
LEMMA CodeKept ==
  ASSUME NEW S, text \in Seq(S), Reading, Code
  PROVE  Reading'
<1> DEFINE f == [k \in 1..((at + 1) - at) |-> text[at + k]]
<1>1. /\ at \in Nat /\ at < Len(text) /\ Len(text) \in Nat /\ at + 1 \in 1..Len(text)
      /\ text[at + 1] \notin Quotes \cup {LineOpener, BlockOpener}
      /\ at + 1 \in (at + 1)..Len(text)
  BY DEF Reading, Code
<1>2. at' = at + 1 /\ out' = out \o f /\ text' = text
  BY DEF Code, Give
<1>3. /\ Modes(text)[at + 1] \in {"code", "line"}
      /\ After(Modes(text)[at + 1], text[at + 1]) = "code"
  <2>1. CASE Modes(text)[at + 1] = "code"
    <3>1. text[at + 1] \notin {<<"double">>, <<"single">>, LineOpener, BlockOpener}
      BY <1>1 DEF Quotes
    <3> QED
      BY <2>1, <3>1 DEF After
  <2>2. CASE Modes(text)[at + 1] = "line" /\ text[at + 1] = LineEnd
    BY <2>2 DEF After
  <2> QED
    BY <2>1, <2>2, <1>1 DEF Reading
<1>4. Modes(text)[(at + 1) + 1] = "code"
  BY <1>1, <1>3, ModesAre
<1>5. ASSUME NEW k \in (at + 1)..(at + 1)
      PROVE  BlankedAt(text, [j \in {k} |-> f[k - at]], k)
  <2>1. k = at + 1 /\ f[k - at] = text[k]
    BY <1>1
  <2>2. k \in InCode(text)
    BY <2>1, <1>1, <1>3 DEF InCode
  <2> HIDE DEF f
  <2> QED
    BY <2>1, <2>2 DEF BlankedAt
<1>6. f = [k \in 1..((at + 1) - at) |-> f[k]]
  OBVIOUS
<1> HIDE DEF f
<1> QED
  BY <1>1, <1>2, <1>4, <1>5, <1>6, TurnKept

\* A text about to be read.
LEMMA ReadingBegins ==
  ASSUME NEW S, text \in Seq(S), at = 0, out = <<>>
  PROVE  Reading
<1>1. Modes(text)[1] = "code" /\ Len(text) \in Nat /\ Len(out) = 0
  BY ModesAre
<1>2. IsSeq(out)
  <2>1. out \in Seq({})
    OBVIOUS
  <2> QED
    BY <2>1 DEF IsSeq
<1>3. Blanked(text, out, 0)
  BY DEF Blanked
<1> QED
  BY <1>1, <1>2, <1>3 DEF Reading

-----------------------------------------------------------------------------
(* The checks: what each has found in the files it is past. *)

Stages == {"layering", "blank", "declare", "raise", "constants", "accumulate", "recursion", "specs", "done"}

\* How many files the check of a stage is past, given the stages before it.
Past(before, s) == IF stage \in before THEN 0 ELSE IF stage = s THEN file ELSE Len(tree)
Layered    == Past({}, "layering")
Kept       == Past({"layering"}, "blank")
Declared   == Past({"layering", "blank"}, "declare")
Raises     == Past({"layering", "blank", "declare"}, "raise")
Constants  == Past({"layering", "blank", "declare", "raise"}, "constants")
Accumulate == Past({"layering", "blank", "declare", "raise", "constants"}, "accumulate")

TreeTypes ==
  /\ stage \in Stages /\ file \in 0..Len(tree)
  /\ \E t \in Trees : tree = t.files
  /\ IsSeq(texts)

LayeringKept == \A i \in 1..Layered : LayeringOf(i) \subseteq findings

\* The text being blanked is that of the next file, and those before it are blanked.
TextsKept ==
  /\ stage \in {"layering", "blank"} => text = TextOf(Kept + 1)
  /\ Len(texts) = Kept
  /\ \A i \in 1..Kept : /\ IsSeq(texts[i])
                        /\ Len(texts[i]) = Len(tree[i].text)
                        /\ Blanked(tree[i].text, texts[i], Len(tree[i].text))

\* The names the texts declare or raise.
Mentioned == UNION {Named("error", tree[i].text) \cup Named("fail", tree[i].text) : i \in DOMAIN tree}

\* Each name's declarers so far.
Declarers ==
  /\ DOMAIN decl = Mentioned
  /\ \A n \in DOMAIN decl :
       /\ decl[n] \in Seq(Nat)
       /\ \A k \in DOMAIN decl[n] : decl[n][k] \in 1..Declared /\ n \in Named("error", texts[decl[n][k]])
       /\ \A i \in 1..Declared : n \in Named("error", texts[i]) => \E k \in DOMAIN decl[n] : decl[n][k] = i

RaisesKept == \A i \in 1..Raises : \A n \in Named("fail", texts[i]) : <<DeclaredBy(n, i), n>> \in raised

BudgetKept ==
  stage \notin {"layering", "blank", "declare", "raise"} =>
    \A r \in raised : WithinBudget(r[1], r[2]) \/ findings # {}

ConstantsKept ==
  \A i \in 1..Constants :
    /\ IsLimits(tree[i]) => LimitsMatch(texts[i]) \/ findings # {}
    /\ ~IsLimits(tree[i]) => Literals(i) \subseteq findings

AccumulateKept ==
  \A i \in 1..Accumulate : Guarded(tree[i]) =>
    \A k \in DOMAIN texts[i] : ~Accumulates(texts[i], k) \/ findings # {}

\* The line of a finding is that of its place in the blanked text.
LinesKept ==
  \A f \in Lined : /\ f.file \in DOMAIN texts /\ f.at \in DOMAIN texts[f.file]
                   /\ f.line = LineOf(texts[f.file], f.at)

TreeInv ==
  /\ TreeTypes /\ Reading /\ LayeringKept /\ TextsKept /\ Declarers /\ RaisesKept /\ BudgetKept
  /\ ConstantsKept /\ AccumulateKept /\ LinesKept

-----------------------------------------------------------------------------
\* The files of a tree, and the words of their texts.
LEMMA TreeShape ==
  ASSUME TreeTypes
  PROVE  /\ Len(tree) \in Nat /\ DOMAIN tree = 1..Len(tree) /\ IsSeq(tree)
         /\ \A i \in 1..Len(tree) :
              /\ IsSeq(tree[i].text)
              /\ \A k \in Words("use", tree[i].text) : tree[i].text[k][2] \in 0..Len(tree)
              /\ \A k \in Words("product", tree[i].text) : tree[i].text[k] = <<"product">>
              /\ \A k \in Words("fixed", tree[i].text) :
                   tree[i].text[k] = <<"fixed", tree[i].text[k][2], tree[i].text[k][3]>>
<1>1. PICK t \in Trees : tree = t.files
  BY DEF TreeTypes
<1>2. tree \in Seq({tree[i] : i \in DOMAIN tree})
  BY <1>1, TreesAssumption
<1>3. Len(tree) \in Nat /\ DOMAIN tree = 1..Len(tree) /\ IsSeq(tree)
  <2> DEFINE Q == {tree[i] : i \in DOMAIN tree}
  <2>1. tree \in Seq(Q)
    BY <1>2
  <2> HIDE DEF Q
  <2> QED
    BY <2>1, LenProperties DEF IsSeq
<1>4. ASSUME NEW i \in 1..Len(tree)
      PROVE  /\ IsSeq(tree[i].text)
             /\ \A k \in Words("use", tree[i].text) : tree[i].text[k][2] \in 0..Len(tree)
             /\ \A k \in Words("product", tree[i].text) : tree[i].text[k] = <<"product">>
             /\ \A k \in Words("fixed", tree[i].text) :
                  tree[i].text[k] = <<"fixed", tree[i].text[k][2], tree[i].text[k][3]>>
  <2> DEFINE x == t.files[i].text
             Q == {x[k] : k \in DOMAIN x}
  <2>1. i \in DOMAIN t.files
    BY <1>1, <1>3
  <2>2. x \in Seq(Q)
    BY <2>1, TreesAssumption
  <2>3. /\ \A k \in Words("use", x) : x[k][2] \in 0..Len(t.files)
        /\ \A k \in Words("product", x) : x[k] = <<"product">>
        /\ \A k \in Words("fixed", x) : x[k] = <<"fixed", x[k][2], x[k][3]>>
    BY <2>1, TreesAssumption
  <2> HIDE DEF Q
  <2>4. IsSeq(x)
    BY <2>2 DEF IsSeq
  <2>5. x = tree[i].text
    BY <1>1
  <2> HIDE DEF x
  <2> QED
    BY <2>3, <2>4, <2>5, <1>1
<1> QED
  BY <1>3, <1>4

\* The text of a file, or of none.
LEMMA TextShape == ASSUME TreeTypes, NEW i PROVE IsSeq(TextOf(i))
<1>1. CASE i \in DOMAIN tree
  BY <1>1, TreeShape DEF TextOf
<1>2. CASE i \notin DOMAIN tree
  <2>1. <<>> \in Seq({})
    OBVIOUS
  <2> QED
    BY <2>1, <1>2 DEF TextOf, IsSeq
<1> QED
  BY <1>1, <1>2

\* A tree of no check begun.
LEMMA TreeInitInv == TreeInit => TreeInv
<1> SUFFICES ASSUME TreeInit PROVE TreeInv
  OBVIOUS
<1>1. /\ stage = "layering" /\ file = 0 /\ texts = <<>> /\ raised = {} /\ findings = {}
      /\ text = TextOf(1) /\ at = 0 /\ out = <<>>
  BY DEF TreeInit
<1>2. (\E t \in Trees : tree = t.files) /\ Len(texts) = 0
  BY <1>1 DEF TreeInit
<1>3. IsSeq(texts)
  <2>1. texts \in Seq({})
    BY <1>1
  <2> QED
    BY <2>1 DEF IsSeq
<1>4. Len(tree) \in Nat
  <2>1. PICK t \in Trees : tree = t.files
    BY <1>2
  <2>2. tree \in Seq({tree[i] : i \in DOMAIN tree})
    BY <2>1, TreesAssumption
  <2> DEFINE Q == {tree[i] : i \in DOMAIN tree}
  <2>3. tree \in Seq(Q)
    BY <2>2
  <2> HIDE DEF Q
  <2> QED
    BY <2>3
<1>5. TreeTypes
  BY <1>1, <1>2, <1>3, <1>4 DEF TreeTypes, Stages
<1>6. /\ Layered = 0 /\ Kept = 0 /\ Declared = 0 /\ Raises = 0 /\ Constants = 0 /\ Accumulate = 0
  BY <1>1 DEF Layered, Kept, Declared, Raises, Constants, Accumulate, Past
<1>7. Reading
  <2>1. PICK S : text \in Seq(S)
    BY <1>1, <1>5, TextShape DEF IsSeq
  <2> QED
    BY <2>1, <1>1, ReadingBegins
<1>8. TextsKept
  BY <1>1, <1>2, <1>6 DEF TextsKept
<1>9. Declarers
  <2>1. \A n \in DOMAIN decl : decl[n] = <<>>
    BY DEF TreeInit
  <2>2. <<>> \in Seq(Nat) /\ DOMAIN <<>> = {}
    OBVIOUS
  <2>3. DOMAIN decl = Mentioned
    BY DEF TreeInit, Mentioned
  <2>4. ASSUME NEW n \in DOMAIN decl
        PROVE  decl[n] \in Seq(Nat) /\ DOMAIN decl[n] = {}
    BY <2>1, <2>2
  <2> QED
    BY <2>3, <2>4, <1>6 DEF Declarers
<1> QED
  BY <1>1, <1>5, <1>6, <1>7, <1>8, <1>9 DEF TreeInv, LayeringKept, RaisesKept, BudgetKept, ConstantsKept,
     AccumulateKept, LinesKept, Lined

(* What a step leaves alone stays as it is: one lemma for each part of the invariant. *)

\* The layering.
LEMMA LayeringStays ==
  ASSUME TreeInv, tree' = tree, findings \subseteq findings', Layered' = Layered
  PROVE  LayeringKept'
<1>1. ASSUME NEW i PROVE LayeringOf(i)' = LayeringOf(i)
  BY DEF LayeringOf
<1> QED
  BY <1>1 DEF TreeInv, LayeringKept

\* The blanked texts, and the one being read.
LEMMA TextsStay ==
  ASSUME TreeInv, tree' = tree, texts' = texts, Kept' = Kept, UNCHANGED lexicalVars,
         stage' \in {"layering", "blank"} => stage \in {"layering", "blank"}
  PROVE  Reading' /\ TextsKept'
<1>1. text' = text /\ at' = at /\ out' = out
  BY DEF lexicalVars
<1>2. Reading'
  BY <1>1 DEF TreeInv, Reading
<1>3. TextOf(Kept + 1)' = TextOf(Kept + 1)
  BY DEF TextOf
<1> QED
  BY <1>1, <1>2, <1>3 DEF TreeInv, TextsKept

\* The declarations.
LEMMA DeclarersStay ==
  ASSUME TreeInv, tree' = tree, texts' = texts, decl' = decl, Declared' = Declared
  PROVE  Declarers'
<1>1. Mentioned' = Mentioned
  BY DEF Mentioned
<1> QED
  BY <1>1 DEF TreeInv, Declarers

\* The raises.
LEMMA RaisesStay ==
  ASSUME TreeInv, texts' = texts, decl' = decl, raised \subseteq raised', Raises' = Raises
  PROVE  RaisesKept'
<1>1. ASSUME NEW n, NEW i PROVE DeclaredBy(n, i)' = DeclaredBy(n, i)
  BY DEF DeclaredBy
<1> QED
  BY <1>1 DEF TreeInv, RaisesKept

\* The error budget.
LEMMA BudgetStays ==
  ASSUME TreeInv, tree' = tree, raised' = raised, findings \subseteq findings',
         stage' \notin {"layering", "blank", "declare", "raise"} =>
           stage \notin {"layering", "blank", "declare", "raise"}
  PROVE  BudgetKept'
<1>1. ASSUME NEW d, NEW n PROVE WithinBudget(d, n)' = WithinBudget(d, n)
  BY DEF WithinBudget, LayerOf
<1> QED
  BY <1>1 DEF TreeInv, BudgetKept

\* The constants.
LEMMA ConstantsStay ==
  ASSUME TreeInv, tree' = tree, texts' = texts, findings \subseteq findings', Constants' = Constants
  PROVE  ConstantsKept'
<1>1. ASSUME NEW i PROVE Literals(i)' = Literals(i)
  BY DEF Literals
<1> QED
  BY <1>1 DEF TreeInv, ConstantsKept

\* The accumulations.
LEMMA AccumulateStays ==
  ASSUME TreeInv, tree' = tree, texts' = texts, findings \subseteq findings', Accumulate' = Accumulate
  PROVE  AccumulateKept'
  BY DEF TreeInv, AccumulateKept

\* The lines, when what is added to the findings is right.
LEMMA LinesStay ==
  ASSUME TreeInv, texts' = texts,
         \A f \in findings' : f \in findings \/
           (f.check \in {"constants", "accumulate"} /\ f.at # 0 =>
              /\ f.file \in DOMAIN texts /\ f.at \in DOMAIN texts[f.file]
              /\ f.line = LineOf(texts[f.file], f.at))
  PROVE  LinesKept'
<1> SUFFICES ASSUME NEW f \in findings', f.check \in {"constants", "accumulate"}, f.at # 0
             PROVE  /\ f.file \in DOMAIN texts /\ f.at \in DOMAIN texts[f.file]
                    /\ f.line = LineOf(texts[f.file], f.at)
  BY DEF LinesKept, Lined
<1>1. CASE f \in findings
  BY <1>1 DEF TreeInv, LinesKept, Lined
<1> QED
  BY <1>1

\* All of it, when only the stage and the count of files change.
LEMMA AllStays ==
  ASSUME TreeInv, UNCHANGED <<tree, texts, decl, raised, findings, lexicalVars>>, TreeTypes',
         Layered' = Layered, Kept' = Kept, Declared' = Declared, Raises' = Raises,
         Constants' = Constants, Accumulate' = Accumulate,
         stage' \in {"layering", "blank"} => stage \in {"layering", "blank"},
         stage' \notin {"layering", "blank", "declare", "raise"} =>
           stage \notin {"layering", "blank", "declare", "raise"}
  PROVE  TreeInv'
<1>1. LayeringKept' /\ Reading' /\ TextsKept'
  BY LayeringStays, TextsStay
<1>2. Declarers' /\ RaisesKept' /\ BudgetKept'
  BY DeclarersStay, RaisesStay, BudgetStays
<1>3. ConstantsKept' /\ AccumulateKept'
  BY ConstantsStay, AccumulateStays
<1>4. LinesKept'
  <2>1. \A f \in findings' : f \in findings
    OBVIOUS
  <2> QED
    BY <2>1, LinesStay
<1> QED
  BY <1>1, <1>2, <1>3, <1>4 DEF TreeInv

(* The steps. *)

\* A check at a file: the file is one of the tree.
LEMMA HereFacts ==
  ASSUME TreeInv, NEW s, InStage(s)
  PROVE  /\ stage = s /\ file \in Nat /\ file < Len(tree) /\ Len(tree) \in Nat
         /\ file + 1 \in 1..Len(tree) /\ file + 1 \in 0..Len(tree) /\ Here = tree[file + 1]
  BY TreeShape DEF TreeInv, TreeTypes, InStage, Here

\* The layering of the next file.
LEMMA CheckLayeringInv == TreeInv /\ CheckLayering => TreeInv'
<1> SUFFICES ASSUME TreeInv, CheckLayering PROVE TreeInv'
  OBVIOUS
<1>1. /\ stage = "layering" /\ file \in Nat /\ file < Len(tree) /\ Len(tree) \in Nat
      /\ file + 1 \in 0..Len(tree)
  BY HereFacts DEF CheckLayering
<1>2. /\ file' = file + 1 /\ tree' = tree /\ stage' = stage /\ texts' = texts /\ decl' = decl
      /\ raised' = raised /\ UNCHANGED lexicalVars /\ findings' = findings \cup LayeringOf(file + 1)
  BY DEF CheckLayering, NextFile
<1>3. /\ Layered = file /\ Layered' = file + 1
      /\ Kept' = Kept /\ Declared' = Declared /\ Raises' = Raises /\ Constants' = Constants
      /\ Accumulate' = Accumulate
  BY <1>1, <1>2 DEF Layered, Kept, Declared, Raises, Constants, Accumulate, Past
<1>4. TreeTypes'
  BY <1>1, <1>2 DEF TreeInv, TreeTypes
<1>5. LayeringKept'
  <2>1. ASSUME NEW i PROVE LayeringOf(i)' = LayeringOf(i)
    BY <1>2 DEF LayeringOf
  <2>2. ASSUME NEW i \in 1..(file + 1) PROVE LayeringOf(i) \subseteq findings'
    <3>1. CASE i \in 1..file
      BY <3>1, <1>2, <1>3 DEF TreeInv, LayeringKept
    <3>2. CASE i = file + 1
      BY <3>2, <1>2
    <3> QED
      BY <3>1, <3>2, <1>1
  <2> QED
    BY <2>1, <2>2, <1>3 DEF LayeringKept
<1>6. Reading' /\ TextsKept' /\ Declarers' /\ RaisesKept'
  BY <1>2, <1>3, TextsStay, DeclarersStay, RaisesStay
<1>7. BudgetKept' /\ ConstantsKept' /\ AccumulateKept'
  BY <1>2, <1>3, BudgetStays, ConstantsStay, AccumulateStays
<1>8. LinesKept'
  <2>1. \A f \in LayeringOf(file + 1) : f.check = "layering"
    BY DEF LayeringOf, About, At
  <2> QED
    BY <2>1, <1>2, LinesStay
<1> QED
  BY <1>4, <1>5, <1>6, <1>7, <1>8 DEF TreeInv

\* A turn of blank's loop.
LEMMA BlankOnInv == TreeInv /\ BlankOn => TreeInv'
<1> SUFFICES ASSUME TreeInv, BlankOn PROVE TreeInv'
  OBVIOUS
<1>1. stage = "blank"
  BY DEF BlankOn, InStage
<1>2. /\ file' = file /\ tree' = tree /\ stage' = stage /\ texts' = texts /\ decl' = decl
      /\ raised' = raised /\ findings' = findings
  BY DEF BlankOn
<1>3. /\ Layered' = Layered /\ Kept' = Kept /\ Declared' = Declared /\ Raises' = Raises
      /\ Constants' = Constants /\ Accumulate' = Accumulate
  BY <1>2 DEF Layered, Kept, Declared, Raises, Constants, Accumulate, Past
<1>4. TreeTypes'
  BY <1>2 DEF TreeInv, TreeTypes
<1>5. Reading' /\ text' = text
  <2>1. text = TextOf(Kept + 1)
    BY <1>1 DEF TreeInv, TextsKept
  <2>2. IsSeq(text)
    BY <2>1, TextShape DEF TreeInv
  <2>3. PICK S : text \in Seq(S)
    BY <2>2 DEF IsSeq
  <2>4. LineComment \/ BlockComment \/ Literal \/ Code
    BY DEF BlankOn, Blank
  <2>5. text' = text
    BY <2>4 DEF LineComment, BlockComment, Literal, Code, Give
  <2> QED
    BY <2>3, <2>4, <2>5, LineCommentKept, BlockCommentKept, LiteralKept, CodeKept DEF TreeInv
<1>6. TextsKept'
  <2>1. TextOf(Kept + 1)' = TextOf(Kept + 1)
    BY <1>2, <1>3 DEF TextOf
  <2> QED
    BY <2>1, <1>2, <1>3, <1>5 DEF TreeInv, TextsKept
<1>7. LayeringKept' /\ Declarers' /\ RaisesKept'
  BY <1>2, <1>3, LayeringStays, DeclarersStay, RaisesStay
<1>8. BudgetKept' /\ ConstantsKept' /\ AccumulateKept' /\ LinesKept'
  BY <1>2, <1>3, BudgetStays, ConstantsStay, AccumulateStays, LinesStay
<1> QED
  BY <1>4, <1>5, <1>6, <1>7, <1>8 DEF TreeInv

\* A text blanked: the next one is about to be read.
LEMMA KeepBlankedInv == TreeInv /\ KeepBlanked => TreeInv'
<1> SUFFICES ASSUME TreeInv, KeepBlanked PROVE TreeInv'
  OBVIOUS
<1>1. /\ stage = "blank" /\ file \in Nat /\ file < Len(tree) /\ Len(tree) \in Nat
      /\ file + 1 \in 0..Len(tree) /\ file + 1 \in 1..Len(tree)
  BY HereFacts DEF KeepBlanked
<1>2. /\ file' = file + 1 /\ tree' = tree /\ stage' = stage /\ texts' = Append(texts, out) /\ decl' = decl
      /\ raised' = raised /\ findings' = findings /\ text' = TextOf(file + 2) /\ at' = 0 /\ out' = <<>>
      /\ at = Len(text)
  BY DEF KeepBlanked, NextFile
<1>3. /\ Kept = file /\ Kept' = file + 1 /\ Layered' = Layered
      /\ Declared = 0 /\ Raises = 0 /\ Constants = 0 /\ Accumulate = 0
      /\ Declared' = 0 /\ Raises' = 0 /\ Constants' = 0 /\ Accumulate' = 0
  BY <1>1, <1>2 DEF Layered, Kept, Declared, Raises, Constants, Accumulate, Past
<1>4. /\ IsSeq(texts') /\ Len(texts') = file + 1 /\ texts'[file + 1] = out
      /\ \A i \in 1..file : texts'[i] = texts[i]
  <2>1. PICK S : texts \in Seq(S)
    BY DEF TreeInv, TreeTypes, IsSeq
  <2>2. Len(texts) = file
    BY <1>3 DEF TreeInv, TextsKept
  <2>3. texts \in Seq(S \cup {out})
    BY <2>1
  <2> DEFINE T == S \cup {out}
  <2>4. texts \in Seq(T) /\ out \in T
    BY <2>3
  <2> HIDE DEF T
  <2>5. texts' \in Seq(T) /\ Len(texts') = file + 1 /\ texts'[file + 1] = out
        /\ \A i \in 1..file : texts'[i] = texts[i]
    BY <2>2, <2>4, <1>1, <1>2
  <2> QED
    BY <2>5 DEF IsSeq
<1>5. TreeTypes'
  BY <1>1, <1>2, <1>4 DEF TreeInv, TreeTypes
<1>6. Reading'
  <2>1. IsSeq(text')
    BY <1>2, TextShape DEF TreeInv
  <2>2. PICK S : text' \in Seq(S)
    BY <2>1 DEF IsSeq
  <2>3. Modes(text')[1] = "code" /\ Len(text') \in Nat
    BY <2>2, ModesAre
  <2>4. IsSeq(out') /\ Len(out') = 0
    <3>1. <<>> \in Seq({})
      OBVIOUS
    <3> QED
      BY <3>1, <1>2 DEF IsSeq
  <2>5. Blanked(text', out', 0)
    BY DEF Blanked
  <2> QED
    BY <2>3, <2>4, <2>5, <1>2 DEF Reading
<1>7. TextsKept'
  <2>1. text = tree[file + 1].text
    BY <1>1, <1>3, TreeShape DEF TreeInv, TextsKept, TextOf
  <2>2. IsSeq(out) /\ Len(out) = Len(text) /\ Blanked(text, out, Len(text))
    BY <1>2 DEF TreeInv, Reading
  <2>3. ASSUME NEW i \in 1..(file + 1)
        PROVE  /\ IsSeq(texts'[i]) /\ Len(texts'[i]) = Len(tree[i].text)
               /\ Blanked(tree[i].text, texts'[i], Len(tree[i].text))
    <3>1. CASE i \in 1..file
      BY <3>1, <1>3, <1>4 DEF TreeInv, TextsKept
    <3>2. CASE i = file + 1
      BY <3>2, <2>1, <2>2, <1>4
    <3> QED
      BY <3>1, <3>2, <1>1
  <2>4. TextOf(Kept + 1)' = TextOf(file + 2)
    <3>1. (file + 1) + 1 = file + 2
      BY <1>1
    <3> QED
      BY <3>1, <1>2, <1>3 DEF TextOf
  <2> QED
    BY <2>3, <2>4, <1>2, <1>3, <1>4 DEF TextsKept
<1>8. Declarers'
  <2>1. \A n \in DOMAIN decl : decl[n] \in Seq(Nat) /\ \A k \in DOMAIN decl[n] : decl[n][k] \in 1..0
    BY <1>3 DEF TreeInv, Declarers
  <2>2. Mentioned' = Mentioned
    BY <1>2 DEF Mentioned
  <2> QED
    BY <2>1, <2>2, <1>2, <1>3 DEF TreeInv, Declarers
<1>9. RaisesKept' /\ ConstantsKept' /\ AccumulateKept'
  BY <1>3 DEF RaisesKept, ConstantsKept, AccumulateKept
<1>10. LayeringKept' /\ BudgetKept'
  BY <1>2, <1>3, LayeringStays, BudgetStays
<1>11. LinesKept'
  <2> SUFFICES ASSUME NEW f \in findings, f.check \in {"constants", "accumulate"}, f.at # 0
               PROVE  /\ f.file \in DOMAIN texts' /\ f.at \in DOMAIN texts'[f.file]
                      /\ f.line = LineOf(texts'[f.file], f.at)
    BY <1>2 DEF LinesKept, Lined
  <2>1. /\ f.file \in DOMAIN texts /\ f.at \in DOMAIN texts[f.file] /\ f.line = LineOf(texts[f.file], f.at)
    BY DEF TreeInv, LinesKept, Lined
  <2>2. DOMAIN texts = 1..file /\ DOMAIN texts' = 1..(file + 1)
    BY <1>3, <1>4, LenProperties DEF TreeInv, TreeTypes, TextsKept, IsSeq
  <2>3. f.file \in DOMAIN texts' /\ texts'[f.file] = texts[f.file]
    BY <2>1, <2>2, <1>1, <1>4
  <2> QED
    BY <2>1, <2>3
<1> QED
  BY <1>5, <1>6, <1>7, <1>8, <1>9, <1>10, <1>11 DEF TreeInv

\* The declarations of the next file.
LEMMA DeclareInv == TreeInv /\ Declare => TreeInv'
<1> SUFFICES ASSUME TreeInv, Declare PROVE TreeInv'
  OBVIOUS
<1>1. /\ stage = "declare" /\ file \in Nat /\ file < Len(tree) /\ Len(tree) \in Nat
      /\ file + 1 \in 0..Len(tree)
  BY HereFacts DEF Declare
<1>2. /\ file' = file + 1 /\ tree' = tree /\ stage' = stage /\ texts' = texts
      /\ decl' = [n \in DOMAIN decl |-> IF n \in Named("error", texts[file + 1])
                                        THEN Append(decl[n], file + 1) ELSE decl[n]]
      /\ raised' = raised /\ UNCHANGED lexicalVars /\ findings' = findings
  BY DEF Declare, NextFile
<1>3. /\ Declared = file /\ Declared' = file + 1
      /\ Layered' = Layered /\ Kept' = Kept /\ Constants' = Constants /\ Accumulate' = Accumulate
      /\ Raises' = 0
  BY <1>1, <1>2 DEF Layered, Kept, Declared, Raises, Constants, Accumulate, Past
<1>4. TreeTypes'
  BY <1>1, <1>2 DEF TreeInv, TreeTypes
<1>5. Declarers'
  <2>1. ASSUME NEW n \in DOMAIN decl
        PROVE  /\ decl'[n] \in Seq(Nat)
               /\ \A k \in DOMAIN decl'[n] :
                    decl'[n][k] \in 1..(file + 1) /\ n \in Named("error", texts[decl'[n][k]])
               /\ \A i \in 1..(file + 1) :
                    n \in Named("error", texts[i]) => \E k \in DOMAIN decl'[n] : decl'[n][k] = i
    <3>1. /\ decl[n] \in Seq(Nat)
          /\ \A k \in DOMAIN decl[n] : decl[n][k] \in 1..file /\ n \in Named("error", texts[decl[n][k]])
          /\ \A i \in 1..file : n \in Named("error", texts[i]) => \E k \in DOMAIN decl[n] : decl[n][k] = i
      BY <1>3 DEF TreeInv, Declarers
    <3>2. CASE n \notin Named("error", texts[file + 1])
      <4>1. decl'[n] = decl[n]
        BY <3>2, <1>2
      <4> QED
        BY <4>1, <3>1, <3>2, <1>1
    <3>3. CASE n \in Named("error", texts[file + 1])
      <4> DEFINE m == Len(decl[n])
      <4>1. decl'[n] = Append(decl[n], file + 1)
        BY <3>3, <1>2
      <4>2. /\ m \in Nat /\ DOMAIN decl[n] = 1..m /\ decl'[n] \in Seq(Nat) /\ DOMAIN decl'[n] = 1..(m + 1)
            /\ decl'[n][m + 1] = file + 1 /\ \A k \in 1..m : decl'[n][k] = decl[n][k]
        BY <4>1, <3>1, <1>1
      <4> HIDE DEF m
      <4>3. ASSUME NEW k \in DOMAIN decl'[n]
            PROVE  decl'[n][k] \in 1..(file + 1) /\ n \in Named("error", texts[decl'[n][k]])
        <5>1. CASE k = m + 1
          BY <5>1, <4>2, <3>3, <1>1
        <5>2. CASE k \in 1..m
          <6>1. decl'[n][k] = decl[n][k] /\ k \in DOMAIN decl[n]
            BY <5>2, <4>2
          <6>2. decl[n][k] \in 1..file /\ n \in Named("error", texts[decl[n][k]])
            BY <6>1, <3>1
          <6>3. decl[n][k] \in 1..(file + 1)
            BY <6>2, <1>1
          <6> QED
            BY <6>1, <6>2, <6>3
        <5> QED
          BY <5>1, <5>2, <4>2
      <4>4. ASSUME NEW i \in 1..(file + 1), n \in Named("error", texts[i])
            PROVE  \E k \in DOMAIN decl'[n] : decl'[n][k] = i
        <5>1. CASE i = file + 1
          BY <5>1, <4>2
        <5>2. CASE i \in 1..file
          <6>1. PICK k \in 1..m : decl[n][k] = i
            BY <5>2, <4>4, <4>2, <3>1
          <6> QED
            BY <6>1, <4>2
        <5> QED
          BY <5>1, <5>2, <1>1
      <4> QED
        BY <4>2, <4>3, <4>4
    <3> QED
      BY <3>2, <3>3
  <2>2. Mentioned' = Mentioned
    BY <1>2 DEF Mentioned
  <2>3. DOMAIN decl' = DOMAIN decl /\ DOMAIN decl = Mentioned
    BY <1>2 DEF TreeInv, Declarers
  <2> QED
    BY <2>1, <2>2, <2>3, <1>2, <1>3 DEF Declarers
<1>6. LayeringKept' /\ Reading' /\ TextsKept'
  BY <1>2, <1>3, LayeringStays, TextsStay
<1>7. RaisesKept'
  BY <1>3 DEF RaisesKept
<1>8. BudgetKept' /\ ConstantsKept' /\ AccumulateKept' /\ LinesKept'
  BY <1>2, <1>3, BudgetStays, ConstantsStay, AccumulateStays, LinesStay
<1> QED
  BY <1>4, <1>5, <1>6, <1>7, <1>8 DEF TreeInv

\* The raises of the next file.
LEMMA RaiseInv == TreeInv /\ Raise => TreeInv'
<1> SUFFICES ASSUME TreeInv, Raise PROVE TreeInv'
  OBVIOUS
<1>1. /\ stage = "raise" /\ file \in Nat /\ file < Len(tree) /\ Len(tree) \in Nat
      /\ file + 1 \in 0..Len(tree)
  BY HereFacts DEF Raise
<1>2. /\ file' = file + 1 /\ tree' = tree /\ stage' = stage /\ texts' = texts /\ decl' = decl
      /\ raised' = raised \cup {<<DeclaredBy(n, file + 1), n>> : n \in Named("fail", texts[file + 1])}
      /\ UNCHANGED lexicalVars /\ findings' = findings
  BY DEF Raise, NextFile
<1>3. /\ Raises = file /\ Raises' = file + 1 /\ Layered' = Layered /\ Kept' = Kept
      /\ Declared' = Declared /\ Constants' = Constants /\ Accumulate' = Accumulate
  BY <1>1, <1>2 DEF Layered, Kept, Declared, Raises, Constants, Accumulate, Past
<1>4. TreeTypes'
  BY <1>1, <1>2 DEF TreeInv, TreeTypes
<1>5. RaisesKept'
  <2>1. ASSUME NEW i \in 1..(file + 1), NEW n \in Named("fail", texts[i])
        PROVE  <<DeclaredBy(n, i), n>> \in raised'
    <3>1. CASE i \in 1..file
      BY <3>1, <1>2, <1>3 DEF TreeInv, RaisesKept
    <3>2. CASE i = file + 1
      BY <3>2, <1>2
    <3> QED
      BY <3>1, <3>2, <1>1
  <2>2. ASSUME NEW n, NEW i PROVE DeclaredBy(n, i)' = DeclaredBy(n, i)
    BY <1>2 DEF DeclaredBy
  <2> QED
    BY <2>1, <2>2, <1>2, <1>3 DEF RaisesKept
<1>6. BudgetKept'
  BY <1>1, <1>2 DEF BudgetKept
<1>7. LayeringKept' /\ Reading' /\ TextsKept' /\ Declarers'
  BY <1>2, <1>3, LayeringStays, TextsStay, DeclarersStay
<1>8. ConstantsKept' /\ AccumulateKept' /\ LinesKept'
  BY <1>2, <1>3, ConstantsStay, AccumulateStays, LinesStay
<1> QED
  BY <1>4, <1>5, <1>6, <1>7, <1>8 DEF TreeInv

\* The identities raised are held to the budget.
LEMMA CheckErrorBudgetInv == TreeInv /\ CheckErrorBudget => TreeInv'
<1> SUFFICES ASSUME TreeInv, CheckErrorBudget PROVE TreeInv'
  OBVIOUS
<1> DEFINE Over == {Raised(r[1], r[2]) : r \in {r \in raised : ~WithinBudget(r[1], r[2])}}
<1>1. /\ stage = "raise" /\ file = Len(tree) /\ stage' = "constants" /\ file' = 0
      /\ tree' = tree /\ texts' = texts /\ decl' = decl /\ raised' = raised /\ UNCHANGED lexicalVars
      /\ findings' = findings \cup Over
  BY DEF CheckErrorBudget, Turn
<1>2. Len(tree) \in Nat
  BY TreeShape DEF TreeInv
<1>3. /\ Raises' = Raises /\ Layered' = Layered /\ Kept' = Kept
      /\ Declared' = Declared /\ Constants' = Constants /\ Accumulate' = Accumulate
  BY <1>1 DEF Layered, Kept, Declared, Raises, Constants, Accumulate, Past
<1>4. TreeTypes'
  BY <1>1, <1>2 DEF TreeInv, TreeTypes, Stages
<1>5. BudgetKept'
  <2>1. ASSUME NEW r \in raised, ~WithinBudget(r[1], r[2]) PROVE findings' # {}
    <3>1. Raised(r[1], r[2]) \in Over
      BY <2>1
    <3> HIDE DEF Over
    <3> QED
      BY <3>1, <1>1
  <2>2. ASSUME NEW d, NEW n PROVE WithinBudget(d, n)' = WithinBudget(d, n)
    BY <1>1 DEF WithinBudget, LayerOf
  <2> QED
    BY <2>1, <2>2, <1>1 DEF BudgetKept
<1>6. \A f \in Over : f.check = "budget"
  BY DEF Raised
<1> HIDE DEF Over
<1>7. LayeringKept' /\ Reading' /\ TextsKept' /\ Declarers' /\ RaisesKept'
  BY <1>1, <1>3, LayeringStays, TextsStay, DeclarersStay, RaisesStay
<1>8. ConstantsKept' /\ AccumulateKept' /\ LinesKept'
  BY <1>1, <1>3, <1>6, ConstantsStay, AccumulateStays, LinesStay
<1> QED
  BY <1>4, <1>5, <1>7, <1>8 DEF TreeInv

\* The texts are one for each file when blanking is over.
LEMMA AllTexts ==
  ASSUME TreeInv, stage \notin {"layering", "blank"}
  PROVE  Kept = Len(tree) /\ Len(texts) = Len(tree) /\ DOMAIN texts = 1..Len(tree)
  BY LenProperties DEF TreeInv, TreeTypes, TextsKept, Kept, Past, IsSeq

\* The constants of the next file.
LEMMA CheckConstantsNamedInv == TreeInv /\ CheckConstantsNamed => TreeInv'
<1> SUFFICES ASSUME TreeInv, CheckConstantsNamed PROVE TreeInv'
  OBVIOUS
<1> DEFINE more == IF ~IsLimits(Here) THEN Literals(file + 1)
                   ELSE IF LimitsMatch(texts[file + 1]) THEN {} ELSE {About("constants", file + 1)}
<1>1. /\ stage = "constants" /\ file \in Nat /\ file < Len(tree) /\ Len(tree) \in Nat
      /\ file + 1 \in 0..Len(tree) /\ file + 1 \in 1..Len(tree) /\ Here = tree[file + 1]
  BY HereFacts DEF CheckConstantsNamed
<1>2. /\ file' = file + 1 /\ tree' = tree /\ stage' = stage /\ texts' = texts /\ decl' = decl
      /\ raised' = raised /\ UNCHANGED lexicalVars /\ findings' = findings \cup more
  BY DEF CheckConstantsNamed, NextFile
<1>3. /\ Constants = file /\ Constants' = file + 1 /\ Raises' = Raises /\ Layered' = Layered
      /\ Kept' = Kept /\ Declared' = Declared /\ Accumulate' = Accumulate
  BY <1>1, <1>2 DEF Layered, Kept, Declared, Raises, Constants, Accumulate, Past
<1>4. TreeTypes'
  BY <1>1, <1>2 DEF TreeInv, TreeTypes
<1>5. ConstantsKept'
  <2>1. ASSUME NEW i \in 1..(file + 1)
        PROVE  /\ IsLimits(tree[i]) => LimitsMatch(texts[i]) \/ findings' # {}
               /\ ~IsLimits(tree[i]) => Literals(i) \subseteq findings'
    <3>1. CASE i \in 1..file
      BY <3>1, <1>2, <1>3 DEF TreeInv, ConstantsKept
    <3>2. CASE i = file + 1 /\ ~IsLimits(Here)
      <4>1. more = Literals(i)
        BY <3>2
      <4> HIDE DEF more
      <4> QED
        BY <4>1, <3>2, <1>1, <1>2
    <3>3. CASE i = file + 1 /\ IsLimits(Here) /\ ~LimitsMatch(texts[i])
      <4>1. more = {About("constants", i)}
        BY <3>3
      <4> HIDE DEF more
      <4> QED
        BY <4>1, <3>3, <1>1, <1>2
    <3>4. CASE i = file + 1 /\ IsLimits(Here) /\ LimitsMatch(texts[i])
      BY <3>4, <1>1
    <3> QED
      BY <3>1, <3>2, <3>3, <3>4, <1>1
  <2>2. ASSUME NEW i PROVE Literals(i)' = Literals(i)
    BY <1>2 DEF Literals
  <2> QED
    BY <2>1, <2>2, <1>2, <1>3 DEF ConstantsKept
<1>6. LinesKept'
  <2>1. ASSUME NEW f \in more, f.at # 0
        PROVE  /\ f.file \in DOMAIN texts /\ f.at \in DOMAIN texts[f.file]
               /\ f.line = LineOf(texts[f.file], f.at)
    <3>1. f \in Literals(file + 1)
      <4>1. ASSUME f = About("constants", file + 1) PROVE FALSE
        BY <4>1, <2>1 DEF About, At
      <4> QED
        BY <4>1
    <3>2. PICK k \in Words("int", texts[file + 1]) :
            f = At("constants", file + 1, k, LineOf(texts[file + 1], k))
      BY <3>1 DEF Literals
    <3>3. f.file = file + 1 /\ f.at = k /\ f.line = LineOf(texts[file + 1], k)
      BY <3>2 DEF At
    <3>4. k \in DOMAIN texts[file + 1]
      BY DEF Words
    <3>5. file + 1 \in DOMAIN texts
      BY <1>1, AllTexts
    <3> QED
      BY <3>3, <3>4, <3>5
  <2> HIDE DEF more
  <2> QED
    BY <2>1, <1>2, LinesStay
<1> HIDE DEF more
<1>7. LayeringKept' /\ Reading' /\ TextsKept' /\ Declarers' /\ RaisesKept'
  BY <1>2, <1>3, LayeringStays, TextsStay, DeclarersStay, RaisesStay
<1>8. BudgetKept' /\ AccumulateKept'
  BY <1>2, <1>3, BudgetStays, AccumulateStays
<1> QED
  BY <1>4, <1>5, <1>6, <1>7, <1>8 DEF TreeInv

\* The accumulations of the next file.
LEMMA CheckNoRawAccumulateInv == TreeInv /\ CheckNoRawAccumulate => TreeInv'
<1> SUFFICES ASSUME TreeInv, CheckNoRawAccumulate PROVE TreeInv'
  OBVIOUS
<1> DEFINE raw == {At("accumulate", file + 1, k, LineOf(texts[file + 1], k)) :
                     k \in {k \in DOMAIN texts[file + 1] : Accumulates(texts[file + 1], k)}}
           more == IF ~Guarded(Here) THEN {} ELSE raw
<1>1. /\ stage = "accumulate" /\ file \in Nat /\ file < Len(tree) /\ Len(tree) \in Nat
      /\ file + 1 \in 0..Len(tree) /\ file + 1 \in 1..Len(tree) /\ Here = tree[file + 1]
  BY HereFacts DEF CheckNoRawAccumulate
<1>2. /\ file' = file + 1 /\ tree' = tree /\ stage' = stage /\ texts' = texts /\ decl' = decl
      /\ raised' = raised /\ UNCHANGED lexicalVars /\ findings' = findings \cup more
  BY DEF CheckNoRawAccumulate, NextFile
<1>3. /\ Accumulate = file /\ Accumulate' = file + 1 /\ Raises' = Raises /\ Layered' = Layered
      /\ Kept' = Kept /\ Declared' = Declared /\ Constants' = Constants
  BY <1>1, <1>2 DEF Layered, Kept, Declared, Raises, Constants, Accumulate, Past
<1>4. TreeTypes'
  BY <1>1, <1>2 DEF TreeInv, TreeTypes
<1>5. AccumulateKept'
  <2>1. ASSUME NEW i \in 1..(file + 1), Guarded(tree[i]), NEW k \in DOMAIN texts[i], Accumulates(texts[i], k)
        PROVE  findings' # {}
    <3>1. CASE i \in 1..file
      BY <3>1, <2>1, <1>2, <1>3 DEF TreeInv, AccumulateKept
    <3>2. CASE i = file + 1
      <4>1. At("accumulate", file + 1, k, LineOf(texts[file + 1], k)) \in raw /\ more = raw
        BY <3>2, <2>1, <1>1
      <4> HIDE DEF raw, more
      <4> QED
        BY <4>1, <1>2
    <3> QED
      BY <3>1, <3>2, <1>1
  <2> QED
    BY <2>1, <1>2, <1>3 DEF AccumulateKept
<1>6. LinesKept'
  <2>1. ASSUME NEW f \in more
        PROVE  /\ f.file \in DOMAIN texts /\ f.at \in DOMAIN texts[f.file]
               /\ f.line = LineOf(texts[f.file], f.at)
    <3>1. PICK k \in DOMAIN texts[file + 1] :
            f = At("accumulate", file + 1, k, LineOf(texts[file + 1], k))
      BY <2>1
    <3>2. f.file = file + 1 /\ f.at = k /\ f.line = LineOf(texts[file + 1], k)
      BY <3>1 DEF At
    <3>3. file + 1 \in DOMAIN texts
      BY <1>1, AllTexts
    <3> QED
      BY <3>2, <3>3
  <2> HIDE DEF more
  <2> QED
    BY <2>1, <1>2, LinesStay
<1> HIDE DEF more
<1>7. LayeringKept' /\ Reading' /\ TextsKept' /\ Declarers' /\ RaisesKept'
  BY <1>2, <1>3, LayeringStays, TextsStay, DeclarersStay, RaisesStay
<1>8. BudgetKept' /\ ConstantsKept'
  BY <1>2, <1>3, BudgetStays, ConstantsStay
<1> QED
  BY <1>4, <1>5, <1>6, <1>7, <1>8 DEF TreeInv

\* A step of the walk, or none.
LEMMA ElsewhereInv ==
  ASSUME TreeInv, UNCHANGED <<tree, stage, file, texts, decl, raised, findings, lexicalVars>>
  PROVE  TreeInv'
<1>1. TreeTypes'
  BY DEF TreeInv, TreeTypes
<1>2. /\ Layered' = Layered /\ Kept' = Kept /\ Declared' = Declared /\ Raises' = Raises
      /\ Constants' = Constants /\ Accumulate' = Accumulate
  BY DEF Layered, Kept, Declared, Raises, Constants, Accumulate, Past
<1> QED
  BY <1>1, <1>2, AllStays

\* The turn to the check after the recursion, and the citations of the next file: all checks before are
\* past every file.
LEMMA SpecsInv == TreeInv /\ (EndRecursion \/ CheckSpecsCurrent) => TreeInv'
<1> SUFFICES ASSUME TreeInv, EndRecursion \/ CheckSpecsCurrent PROVE TreeInv'
  OBVIOUS
<1>1. /\ stage \in {"recursion", "specs"} /\ stage' = "specs"
      /\ UNCHANGED <<tree, texts, decl, raised, findings, lexicalVars>>
  BY DEF EndRecursion, CheckSpecsCurrent, InStage, NextFile
<1>2. file' \in 0..Len(tree)
  <2>1. CASE EndRecursion
    BY <2>1 DEF EndRecursion, TreeInv, TreeTypes
  <2>2. CASE CheckSpecsCurrent
    BY <2>2, HereFacts DEF CheckSpecsCurrent, NextFile
  <2> QED
    BY <2>1, <2>2
<1>3. TreeTypes'
  BY <1>1, <1>2 DEF TreeInv, TreeTypes, Stages
<1>4. /\ Layered' = Layered /\ Kept' = Kept /\ Declared' = Declared /\ Raises' = Raises
      /\ Constants' = Constants /\ Accumulate' = Accumulate
  BY <1>1 DEF Layered, Kept, Declared, Raises, Constants, Accumulate, Past
<1> QED
  BY <1>1, <1>3, <1>4, AllStays

\* A turn to the next check: the one before is past every file.
LEMMA TurnOnInv == TreeInv /\ TurnOn => TreeInv'
<1> SUFFICES ASSUME TreeInv, TurnOn PROVE TreeInv'
  OBVIOUS
<1>1. /\ UNCHANGED <<tree, texts, decl, raised, findings, lexicalVars>>
      /\ file = Len(tree) /\ file' = 0
      /\ \/ stage = "layering" /\ stage' = "blank"
         \/ stage = "blank" /\ stage' = "declare"
         \/ stage = "declare" /\ stage' = "raise"
         \/ stage = "constants" /\ stage' = "accumulate"
         \/ stage = "accumulate" /\ stage' = "recursion"
         \/ stage = "specs" /\ stage' = "done"
  BY DEF TurnOn, Turn
<1>2. Len(tree) \in Nat
  BY TreeShape DEF TreeInv
<1>3. TreeTypes'
  BY <1>1, <1>2 DEF TreeInv, TreeTypes, Stages
<1>4. /\ Layered' = Layered /\ Kept' = Kept /\ Declared' = Declared /\ Raises' = Raises
      /\ Constants' = Constants /\ Accumulate' = Accumulate
  BY <1>1 DEF Layered, Kept, Declared, Raises, Constants, Accumulate, Past
<1>5. stage' \in {"layering", "blank"} => stage \in {"layering", "blank"}
  BY <1>1
<1>6. stage' \notin {"layering", "blank", "declare", "raise"} =>
        stage \notin {"layering", "blank", "declare", "raise"}
  BY <1>1
<1> QED
  BY <1>1, <1>3, <1>4, <1>5, <1>6, AllStays

\* Every step keeps the invariant.
LEMMA TreeStepInv == TreeInv /\ [TreeNext]_treeVars => TreeInv'
<1> SUFFICES ASSUME TreeInv, [TreeNext]_treeVars PROVE TreeInv'
  OBVIOUS
<1>1. CASE CheckLayering \/ BlankOn \/ KeepBlanked
  BY <1>1, CheckLayeringInv, BlankOnInv, KeepBlankedInv
<1>2. CASE Declare \/ Raise \/ CheckErrorBudget
  BY <1>2, DeclareInv, RaiseInv, CheckErrorBudgetInv
<1>3. CASE CheckConstantsNamed \/ CheckNoRawAccumulate
  BY <1>3, CheckConstantsNamedInv, CheckNoRawAccumulateInv
<1>4. CASE CheckNoRecursion
  BY <1>4, ElsewhereInv DEF CheckNoRecursion
<1>5. CASE EndRecursion \/ CheckSpecsCurrent
  BY <1>5, SpecsInv
<1>6. CASE TurnOn
  BY <1>6, TurnOnInv
<1>7. CASE UNCHANGED treeVars
  BY <1>7, ElsewhereInv DEF treeVars
<1> QED
  BY <1>1, <1>2, <1>3, <1>4, <1>5, <1>6, <1>7 DEF TreeNext

(* What the invariant says of a tree that passed. *)

\* No more texts are blanked than there are files.
LEMMA KeptBounds == TreeInv => \A i \in 1..Kept : i \in 1..Len(tree)
<1> SUFFICES ASSUME TreeInv PROVE \A i \in 1..Kept : i \in 1..Len(tree)
  OBVIOUS
<1> DEFINE l == Len(tree)
           n == Kept
<1>1. l \in Nat /\ file \in 0..l
  BY TreeShape DEF TreeInv, TreeTypes
<1>2. n = 0 \/ n = file \/ n = l
  BY DEF Kept, Past
<1> HIDE DEF l, n
<1>3. \A i \in 1..n : i \in 1..l
  BY <1>1, <1>2
<1> QED
  BY <1>3 DEF l, n

\* A blank is a word of none of these kinds.
LEMMA BlankIsNoWord ==
  ASSUME NEW kind, kind \notin {"space", "line end", "double", "single"},
         NEW x \in {Space, LineEnd} \cup Quotes
  PROVE  x[1] # kind
<1>1. CASE x = <<"space">>
  BY <1>1
<1>2. CASE x = <<"line end">>
  BY <1>2
<1>3. CASE x = <<"double">>
  BY <1>3
<1>4. CASE x = <<"single">>
  BY <1>4
<1> QED
  BY <1>1, <1>2, <1>3, <1>4 DEF Space, LineEnd, Quotes

\* The code of a blanked text is the text's, and nothing else is a word.
LEMMA KeptWords ==
  ASSUME TreeInv, NEW i \in 1..Kept, NEW kind, kind \notin {"space", "line end", "double", "single"}
  PROVE  Words(kind, texts[i]) = InCode(tree[i].text) \cap Words(kind, tree[i].text)
         /\ \A k \in Words(kind, texts[i]) : texts[i][k] = tree[i].text[k]
<1>1. /\ IsSeq(texts[i]) /\ Len(texts[i]) = Len(tree[i].text)
      /\ Blanked(tree[i].text, texts[i], Len(tree[i].text))
  BY DEF TreeInv, TextsKept
<1>2. i \in 1..Len(tree)
  BY KeptBounds
<1>3. IsSeq(tree[i].text)
  BY <1>2, TreeShape DEF TreeInv
<1>4. DOMAIN texts[i] = 1..Len(tree[i].text) /\ DOMAIN tree[i].text = 1..Len(tree[i].text)
  BY <1>1, <1>3, LenProperties DEF IsSeq
<1>5. \A x \in {Space, LineEnd} \cup Quotes : x[1] # kind
  BY BlankIsNoWord
<1>6. ASSUME NEW k \in DOMAIN texts[i]
      PROVE  /\ k \in InCode(tree[i].text) => texts[i][k] = tree[i].text[k]
             /\ k \notin InCode(tree[i].text) => texts[i][k][1] # kind
  <2>1. BlankedAt(tree[i].text, texts[i], k)
    BY <1>1, <1>4 DEF Blanked
  <2> QED
    BY <2>1, <1>5 DEF BlankedAt
<1> QED
  BY <1>4, <1>6 DEF Words

\* At the end each check is past every file.
LEMMA AllPast ==
  ASSUME TreeInv, stage = "done"
  PROVE  /\ Layered = Len(tree) /\ Kept = Len(tree) /\ Declared = Len(tree) /\ Raises = Len(tree)
         /\ Constants = Len(tree) /\ Accumulate = Len(tree) /\ Len(tree) \in Nat
         /\ DOMAIN tree = 1..Len(tree)
  BY TreeShape DEF TreeInv, Layered, Kept, Declared, Raises, Constants, Accumulate, Past

\* What stands outside the code is blank, in every text blanked.
LEMMA CodeIsKept == TreeInv => OnlyCodeIsKept
<1> SUFFICES ASSUME TreeInv, NEW i \in DOMAIN texts, NEW k \in DOMAIN texts[i]
             PROVE  IF k \in InCode(tree[i].text) THEN texts[i][k] = tree[i].text[k]
                    ELSE texts[i][k] \in {Space, LineEnd} \cup Quotes
  BY DEF OnlyCodeIsKept
<1>1. Len(texts) = Kept /\ DOMAIN texts = 1..Kept
  BY LenProperties DEF TreeInv, TreeTypes, TextsKept, IsSeq
<1>2. /\ IsSeq(texts[i]) /\ Len(texts[i]) = Len(tree[i].text)
      /\ Blanked(tree[i].text, texts[i], Len(tree[i].text))
  BY <1>1 DEF TreeInv, TextsKept
<1>3. DOMAIN texts[i] = 1..Len(tree[i].text)
  BY <1>2, LenProperties DEF IsSeq
<1>4. BlankedAt(tree[i].text, texts[i], k)
  BY <1>2, <1>3 DEF Blanked
<1> QED
  BY <1>4 DEF BlankedAt

\* A line is lost in a literal, or it is the file's.
LEMMA LinesAreLost == TreeInv => LinesLostInLiterals
<1> SUFFICES ASSUME TreeInv, NEW f \in Lined,
                    \A k \in 1..(f.at - 1) :
                      ~(k \in InLiteral(tree[f.file].text) /\ tree[f.file].text[k] = LineEnd)
             PROVE  f.line = LineOf(tree[f.file].text, f.at)
  BY DEF LinesLostInLiterals
<1>1. f.file \in DOMAIN texts /\ f.at \in DOMAIN texts[f.file] /\ f.line = LineOf(texts[f.file], f.at)
  BY DEF TreeInv, LinesKept
<1> DEFINE i == f.file
           n == f.at
           t == tree[i].text
           o == texts[i]
<1>2. Len(texts) = Kept /\ DOMAIN texts = 1..Kept
  BY LenProperties DEF TreeInv, TreeTypes, TextsKept, IsSeq
<1>3. IsSeq(o) /\ Len(o) = Len(t) /\ Blanked(t, o, Len(t))
  BY <1>1, <1>2 DEF TreeInv, TextsKept
<1>4. DOMAIN o = 1..Len(t) /\ Len(t) \in Nat
  BY <1>3, LenProperties DEF IsSeq
<1>5. n \in 1..Len(t)
  BY <1>1, <1>4
<1>6. ASSUME NEW k \in 1..(n - 1) PROVE (o[k] = LineEnd) = (t[k] = LineEnd)
  <2>1. BlankedAt(t, o, k)
    BY <1>3, <1>4, <1>5 DEF Blanked
  <2> QED
    BY <2>1 DEF BlankedAt
<1> HIDE DEF i, n, t, o
<1>7. {k \in 1..(n - 1) : o[k] = LineEnd} = {k \in 1..(n - 1) : t[k] = LineEnd}
  BY <1>6
<1>8. LineOf(o, n) = LineOf(t, n)
  BY <1>7 DEF LineOf
<1> QED
  BY <1>1, <1>8 DEF i, n, t, o

\* A tree that passed imports by the table.
LEMMA ImportsKept ==
  ASSUME TreeInv, Clean, NEW i \in DOMAIN tree, tree[i].layer # Root
  PROVE  /\ tree[i].layer \in DOMAIN MayImport
         /\ \A k \in Words("use", tree[i].text) : tree[i].text[k][2] # 0 =>
              tree[tree[i].text[k][2]].layer \in MayImport[tree[i].layer] \cup {tree[i].layer}
<1>1. LayeringOf(i) = {}
  BY AllPast DEF TreeInv, LayeringKept, Clean
<1>2. tree[i].layer \in DOMAIN MayImport
  <2>1. tree[i].layer \notin DOMAIN MayImport => LayeringOf(i) = {About("layering", i)}
    BY DEF LayeringOf
  <2> QED
    BY <2>1, <1>1
<1>3. ASSUME NEW k \in Words("use", tree[i].text), tree[i].text[k][2] # 0,
             Forbidden(tree[i].layer, tree[tree[i].text[k][2]].layer)
      PROVE  FALSE
  <2>1. At("layering", i, k, 0) \in LayeringOf(i)
    BY <1>2, <1>3 DEF LayeringOf
  <2> QED
    BY <2>1, <1>1
<1> QED
  BY <1>2, <1>3 DEF Forbidden

\* A tree that passed has its bounds in their place.
LEMMA BoundsKept == TreeInv /\ Clean => BoundsHaveTheirPlace
<1> SUFFICES ASSUME TreeInv, Clean, NEW i \in DOMAIN tree
             PROVE  IF IsLimits(tree[i])
                    THEN /\ {<<"fixed", n, Bounds[n]>> : n \in DOMAIN Bounds} \subseteq InCodeOf(i, "fixed")
                         /\ {w[2] : w \in InCodeOf(i, "fixed")} \subseteq DOMAIN Bounds
                    ELSE \A w \in InCodeOf(i, "int") : \A n \in DOMAIN Bounds : w[2] # Bounds[n]
  BY DEF BoundsHaveTheirPlace
<1>1. /\ stage = "done" /\ findings = {} /\ i \in 1..Kept /\ i \in 1..Constants /\ i \in 1..Len(tree)
  BY AllPast DEF Clean
<1>2. /\ Words("fixed", texts[i]) = InCode(tree[i].text) \cap Words("fixed", tree[i].text)
      /\ \A k \in Words("fixed", texts[i]) : texts[i][k] = tree[i].text[k]
  BY <1>1, KeptWords
<1>3. /\ Words("int", texts[i]) = InCode(tree[i].text) \cap Words("int", tree[i].text)
      /\ \A k \in Words("int", texts[i]) : texts[i][k] = tree[i].text[k]
  BY <1>1, KeptWords
<1>4. ASSUME IsLimits(tree[i])
      PROVE  /\ {<<"fixed", n, Bounds[n]>> : n \in DOMAIN Bounds} \subseteq InCodeOf(i, "fixed")
             /\ {w[2] : w \in InCodeOf(i, "fixed")} \subseteq DOMAIN Bounds
  <2>1. LimitsMatch(texts[i])
    BY <1>1, <1>4 DEF TreeInv, ConstantsKept
  <2>2. ASSUME NEW n \in DOMAIN Bounds PROVE <<"fixed", n, Bounds[n]>> \in InCodeOf(i, "fixed")
    <3> DEFINE S == {k \in Words("fixed", texts[i]) : texts[i][k][2] = n}
    <3>1. Values(texts[i], n) = {Bounds[n]}
      BY <2>1 DEF LimitsMatch
    <3>2. S # {} /\ texts[i][Max(S)][3] = Bounds[n]
      <4>1. Values(texts[i], n) = IF S = {} THEN {} ELSE {texts[i][Max(S)][3]}
        BY DEF Values
      <4> HIDE DEF S
      <4> QED
        BY <4>1, <3>1
    <3>3. \A x \in S : x \in 0..Len(tree[i].text)
      <4>1. IsSeq(tree[i].text)
        BY <1>1, TreeShape DEF TreeInv
      <4>2. DOMAIN tree[i].text = 1..Len(tree[i].text) /\ Len(tree[i].text) \in Nat
        BY <4>1, LenProperties DEF IsSeq
      <4> QED
        BY <4>2, <1>2 DEF Words
    <3>4. Len(tree[i].text) \in Nat
      BY <1>1, TreeShape, LenProperties DEF TreeInv, IsSeq
    <3>5. Max(S) \in S
      <4> HIDE DEF S
      <4>1. \E x \in S : \A y \in S : y <= x
        BY <3>2, <3>3, <3>4, GreatestNat
      <4>2. \E x \in S : \A y \in S : x >= y
        BY <4>1, <3>3
      <4> QED
        BY <4>2 DEF Max
    <3> DEFINE k == Max(S)
    <3>6. k \in Words("fixed", texts[i]) /\ texts[i][k][2] = n /\ texts[i][k][3] = Bounds[n]
      BY <3>2, <3>5
    <3> HIDE DEF k
    <3>7. /\ k \in InCode(tree[i].text) /\ k \in Words("fixed", tree[i].text)
          /\ texts[i][k] = tree[i].text[k]
      BY <3>6, <1>2
    <3>8. tree[i].text[k] = <<"fixed", tree[i].text[k][2], tree[i].text[k][3]>>
      BY <3>7, <1>1, TreeShape DEF TreeInv
    <3>9. tree[i].text[k] = <<"fixed", n, Bounds[n]>>
      BY <3>6, <3>7, <3>8
    <3> QED
      BY <3>7, <3>9 DEF InCodeOf
  <2>3. ASSUME NEW w \in InCodeOf(i, "fixed") PROVE w[2] \in DOMAIN Bounds
    <3>1. PICK k \in InCode(tree[i].text) \cap Words("fixed", tree[i].text) : w = tree[i].text[k]
      BY DEF InCodeOf
    <3>2. k \in Words("fixed", texts[i]) /\ texts[i][k] = w
      BY <3>1, <1>2
    <3>3. w[2] \in Named("fixed", texts[i])
      BY <3>2 DEF Named
    <3> QED
      BY <3>3, <2>1 DEF LimitsMatch
  <2> QED
    BY <2>2, <2>3
<1>5. ASSUME ~IsLimits(tree[i]), NEW w \in InCodeOf(i, "int"), NEW n \in DOMAIN Bounds, w[2] = Bounds[n]
      PROVE  FALSE
  <2>1. Literals(i) = {}
    BY <1>1, <1>5 DEF TreeInv, ConstantsKept
  <2>2. PICK k \in InCode(tree[i].text) \cap Words("int", tree[i].text) : w = tree[i].text[k]
    BY DEF InCodeOf
  <2>3. k \in Words("int", texts[i]) /\ texts[i][k] = w
    BY <2>2, <1>3
  <2>4. BoundAt(texts[i], k)
    BY <2>3, <1>5 DEF BoundAt
  <2>5. At("constants", i, k, LineOf(texts[i], k)) \in Literals(i)
    BY <2>3, <2>4 DEF Literals
  <2> QED
    BY <2>1, <2>5
<1> QED
  BY <1>4, <1>5

\* A tree that passed multiplies and accumulates in arith.npk alone.
LEMMA ArithmeticKept == TreeInv /\ Clean => ArithmeticIsGuarded
<1> SUFFICES ASSUME TreeInv, Clean, NEW i \in DOMAIN tree, Guarded(tree[i])
             PROVE  InCodeOf(i, "product") = {} /\ <<"sum", FALSE>> \notin InCodeOf(i, "sum")
  BY DEF ArithmeticIsGuarded
<1>1. findings = {} /\ i \in 1..Kept /\ i \in 1..Accumulate /\ i \in 1..Len(tree)
  BY AllPast DEF Clean
<1>2. ASSUME NEW k \in DOMAIN texts[i] PROVE ~Accumulates(texts[i], k)
  BY <1>1, <1>2 DEF TreeInv, AccumulateKept
<1>3. ASSUME NEW k \in InCode(tree[i].text) \cap Words("product", tree[i].text) PROVE FALSE
  <2>1. k \in Words("product", texts[i]) /\ texts[i][k] = tree[i].text[k]
    BY <1>1, KeptWords
  <2>2. tree[i].text[k] = <<"product">>
    BY <1>1, TreeShape DEF TreeInv
  <2>3. k \in DOMAIN texts[i]
    BY <2>1 DEF Words
  <2> QED
    BY <2>1, <2>2, <2>3, <1>2 DEF Accumulates
<1>4. ASSUME NEW k \in InCode(tree[i].text) \cap Words("sum", tree[i].text),
             tree[i].text[k] = <<"sum", FALSE>>
      PROVE  FALSE
  <2>1. k \in Words("sum", texts[i]) /\ texts[i][k] = tree[i].text[k]
    BY <1>1, KeptWords
  <2>2. k \in DOMAIN texts[i]
    BY <2>1 DEF Words
  <2> QED
    BY <2>1, <2>2, <1>2, <1>4 DEF Accumulates
<1> QED
  BY <1>3, <1>4 DEF InCodeOf

\* A tree that passed keeps the tables.
LEMMA TablesKept == TreeInv => CleanTreeKeepsTables
<1>1. TreeInv /\ Clean => ImportsKeepTheTable
  <2> SUFFICES ASSUME TreeInv, Clean, NEW i \in DOMAIN tree, tree[i].layer # Root,
                      NEW u \in InCodeOf(i, "use"), u[2] # 0
               PROVE  tree[u[2]].layer \in MayImport[tree[i].layer] \cup {tree[i].layer}
    BY DEF ImportsKeepTheTable
  <2>1. PICK k \in Words("use", tree[i].text) : u = tree[i].text[k]
    BY DEF InCodeOf
  <2> QED
    BY <2>1, ImportsKept
<1> QED
  BY <1>1, BoundsKept, ArithmeticKept DEF CleanTreeKeepsTables

\* The names a text declares once it is blanked are those its code declares.
LEMMA DeclaredNames ==
  ASSUME TreeInv, NEW i \in 1..Kept
  PROVE  Named("error", texts[i]) = DeclaredIn(i)
<1>1. /\ Words("error", texts[i]) = InCode(tree[i].text) \cap Words("error", tree[i].text)
      /\ \A k \in Words("error", texts[i]) : texts[i][k] = tree[i].text[k]
  BY KeptWords
<1>2. ASSUME NEW n \in Named("error", texts[i]) PROVE n \in DeclaredIn(i)
  <2>1. PICK k \in Words("error", texts[i]) : n = texts[i][k][2]
    BY DEF Named
  <2>2. tree[i].text[k] \in InCodeOf(i, "error")
    BY <1>1 DEF InCodeOf
  <2> QED
    BY <2>1, <2>2, <1>1 DEF DeclaredIn
<1>3. ASSUME NEW n \in DeclaredIn(i) PROVE n \in Named("error", texts[i])
  <2>1. PICK w \in InCodeOf(i, "error") : n = w[2]
    BY DEF DeclaredIn
  <2>2. PICK k \in InCode(tree[i].text) \cap Words("error", tree[i].text) : w = tree[i].text[k]
    BY DEF InCodeOf
  <2> QED
    BY <2>1, <2>2, <1>1 DEF Named
<1> QED
  BY <1>2, <1>3

\* A name raised in a tree that passed is one its layer may declare.
LEMMA RaisedKept == TreeInv => RaisedWhereListed
<1> SUFFICES ASSUME TreeInv, Clean, Compiles, DeclaredOnce, NEW i \in DOMAIN tree, tree[i].layer # Root,
                    NEW w \in InCodeOf(i, "fail")
             PROVE  w[2] \in ErrorNames \cap Declarable(tree[i].layer)
  BY DEF RaisedWhereListed
<1> DEFINE n == w[2]
           d == DeclaredBy(n, i)
<1>1. /\ stage = "done" /\ findings = {} /\ Len(tree) \in Nat /\ i \in 1..Len(tree)
      /\ Kept = Len(tree) /\ Declared = Len(tree) /\ Raises = Len(tree) /\ DOMAIN tree = 1..Len(tree)
  BY AllPast DEF Clean
<1>2. PICK k \in InCode(tree[i].text) \cap Words("fail", tree[i].text) : w = tree[i].text[k]
  BY DEF InCodeOf
<1>3. k \in Words("fail", texts[i]) /\ texts[i][k] = w
  BY <1>1, <1>2, KeptWords
<1>4. n \in Named("fail", texts[i]) /\ n \in Named("fail", tree[i].text)
  BY <1>2, <1>3 DEF Named
<1>5. <<d, n>> \in raised
  BY <1>1, <1>4 DEF TreeInv, RaisesKept
<1>6. WithinBudget(d, n)
  <2>1. WithinBudget(<<d, n>>[1], <<d, n>>[2])
    BY <1>1, <1>5 DEF TreeInv, BudgetKept
  <2> QED
    BY <2>1
<1>7. n \in ErrorNames /\ n \in Declarable(LayerOf(d))
  BY <1>6 DEF WithinBudget
<1>8. n \in DOMAIN decl
  BY <1>1, <1>4 DEF TreeInv, Declarers, Mentioned
<1>9. /\ decl[n] \in Seq(Nat) /\ DOMAIN decl[n] = 1..Len(decl[n]) /\ Len(decl[n]) \in Nat
      /\ \A j \in DOMAIN decl[n] : decl[n][j] \in DOMAIN tree /\ n \in DeclaredIn(decl[n][j])
      /\ \A j \in DOMAIN tree : n \in DeclaredIn(j) => \E m \in DOMAIN decl[n] : decl[n][m] = j
  <2>1. decl[n] \in Seq(Nat)
    BY <1>8 DEF TreeInv, Declarers
  <2>2. ASSUME NEW j \in DOMAIN decl[n] PROVE decl[n][j] \in DOMAIN tree /\ n \in DeclaredIn(decl[n][j])
    <3>1. decl[n][j] \in 1..Len(tree) /\ n \in Named("error", texts[decl[n][j]])
      BY <1>1, <1>8 DEF TreeInv, Declarers
    <3> QED
      BY <3>1, <1>1, DeclaredNames
  <2>3. ASSUME NEW j \in DOMAIN tree, n \in DeclaredIn(j) PROVE \E m \in DOMAIN decl[n] : decl[n][m] = j
    <3>1. n \in Named("error", texts[j])
      BY <2>3, <1>1, DeclaredNames
    <3> QED
      BY <3>1, <1>1, <1>8 DEF TreeInv, Declarers
  <2> QED
    BY <2>1, <2>2, <2>3, LenProperties
<1>10. Resolves(i, n)
  BY DEF Compiles
<1> HIDE DEF n, d
<1>11. CASE n \in DeclaredIn(i)
  <2>1. d = i
    BY <1>9, <1>11 DEF d, DeclaredBy
  <2>2. LayerOf(d) = tree[i].layer
    BY <2>1, <1>1 DEF LayerOf
  <2> QED
    BY <2>2, <1>7 DEF n
<1>12. CASE n \notin DeclaredIn(i) /\ \E u \in InCodeOf(i, "use") : u[2] # 0 /\ n \in DeclaredIn(u[2])
  <2>1. PICK u \in InCodeOf(i, "use") : u[2] # 0 /\ n \in DeclaredIn(u[2])
    BY <1>12
  <2>2. PICK p \in Words("use", tree[i].text) : u = tree[i].text[p]
    BY DEF InCodeOf
  <2> DEFINE j == u[2]
  <2>3. j \in DOMAIN tree
    <3>1. j \in 0..Len(tree)
      BY <2>2, <1>1, TreeShape DEF TreeInv
    <3> QED
      BY <3>1, <2>1, <1>1
  <2>4. /\ tree[i].layer \in DOMAIN MayImport
        /\ tree[j].layer \in MayImport[tree[i].layer] \cup {tree[i].layer}
    BY <2>1, <2>2, ImportsKept
  <2> HIDE DEF j
  <2>5. ~(\E m \in DOMAIN decl[n] : decl[n][m] = i)
    BY <1>9, <1>12
  <2>6. 1 \in DOMAIN decl[n] /\ decl[n] # <<>>
    <3>1. PICK m \in DOMAIN decl[n] : decl[n][m] = j
      BY <2>1, <2>3, <1>9 DEF j
    <3> QED
      BY <3>1, <1>9
  <2>7. decl[n][1] = j
    <3>1. decl[n][1] \in DOMAIN tree /\ n \in DeclaredIn(decl[n][1]) /\ n \in DeclaredIn(j)
      BY <2>1, <2>6, <1>9 DEF j
    <3> QED
      BY <3>1, <2>3 DEF DeclaredOnce
  <2>8. d = j
    BY <2>5, <2>6, <2>7 DEF d, DeclaredBy
  <2>9. LayerOf(d) = tree[j].layer
    BY <2>8, <2>3, <1>1 DEF LayerOf
  <2>10. Declarable(tree[j].layer) \subseteq Declarable(tree[i].layer)
    BY <2>4, TablesAgree
  <2> QED
    BY <2>9, <2>10, <1>7 DEF n
<1>13. CASE \A j \in DOMAIN tree : n \notin DeclaredIn(j)
  <2>1. DOMAIN decl[n] = {}
    BY <1>9, <1>13
  <2>2. decl[n] = <<>>
    <3> DEFINE m == Len(decl[n])
    <3>1. m \in Nat /\ 1..m = {}
      BY <2>1, <1>9
    <3> HIDE DEF m
    <3>2. m = 0
      BY <3>1
    <3>3. Len(decl[n]) = 0
      BY <3>2 DEF m
    <3> QED
      BY <3>3, <1>9, EmptySeq
  <2>3. d = 0
    BY <2>1, <2>2 DEF d, DeclaredBy
  <2>4. Declarable(LayerOf(d)) = {}
    BY <2>3, TreesAssumption DEF LayerOf, Declarable
  <2> QED
    BY <2>4, <1>7
<1> QED
  BY <1>10, <1>11, <1>12, <1>13 DEF Resolves

-----------------------------------------------------------------------------
(* The theorems.  The walk is the part of the checks that check_no_recursion takes. *)

\* The walk's invariants hold in every run of the checks.
LEMMA TreeWalks == TreeSpec => [](WalkInv /\ KnotInv)
<1>1. TreeInit => WalkInv /\ KnotInv
  <2> SUFFICES ASSUME TreeInit PROVE WalkInv /\ KnotInv
    OBVIOUS
  <2>1. Init /\ pc = "read"
    BY DEF TreeInit, Init
  <2> QED
    BY <2>1, InitInv, KnotsAtFirst
<1>2. [TreeNext]_treeVars => [Next]_recursionVars
  BY DEF TreeNext, treeVars, CheckLayering, BlankOn, KeepBlanked, Declare, Raise, CheckErrorBudget,
     CheckConstantsNamed, CheckNoRawAccumulate, CheckNoRecursion, EndRecursion, CheckSpecsCurrent, TurnOn
<1>3. WalkInv /\ KnotInv /\ [TreeNext]_treeVars => (WalkInv /\ KnotInv)'
  BY <1>2, StepInv, KnotStep
<1> QED
  BY <1>1, <1>3, PTL DEF TreeSpec

\* The checks' invariant holds in every run of them.
LEMMA TreeInvariant == TreeSpec => []TreeInv
<1>1. TreeInit => TreeInv
  BY TreeInitInv
<1>2. TreeInv /\ [TreeNext]_treeVars => TreeInv'
  BY TreeStepInv
<1> QED
  BY <1>1, <1>2, PTL DEF TreeSpec

\* The variables of the walk stay in their types, for every tree of functions.
THEOREM RecursionTypes == TreeSpec => []TypeOK
<1>1. WalkInv => TypeOK
  BY DEF WalkInv
<1> QED
  BY <1>1, TreeWalks, PTL

\* Whatever the tree, each cycle check_no_recursion reports is a cycle of the calls it read.
THEOREM OnlyCyclesReported == TreeSpec => []ReportsAreCycles
<1>1. WalkInv => ReportsAreCycles
  BY DEF WalkInv
<1> QED
  BY <1>1, TreeWalks, PTL

\* Whatever the tree, a walk that ends with nothing reported has put every function after all it
\* calls: the calls it read have no cycle.
THEOREM SilenceIsAcyclic == TreeSpec => []CleanIsAcyclic
<1>1. WalkInv => CleanIsAcyclic
  <2> SUFFICES ASSUME WalkInv, pc = "done", bad = {} PROVE Acyclic
    BY DEF CleanIsAcyclic
  <2>1. returned \in Seq(DOMAIN body) /\ DOMAIN returned = 1..Len(returned)
    BY DEF WalkInv, TypeOK
  <2>2. RangeOf(returned) = DOMAIN body
    <3>1. \A f \in DOMAIN body : f \in Names /\ state[f] = 2
      BY DEF WalkInv, TypeOK, Complete
    <3>2. \A f \in DOMAIN body : \E j \in 1..Len(returned) : returned[j] = f
      BY <3>1 DEF WalkInv, Walked
    <3>3. \A j \in 1..Len(returned) : returned[j] \in DOMAIN body
      BY <2>1
    <3> QED
      BY <3>2, <3>3, <2>1 DEF RangeOf
  <2> QED
    BY <2>1, <2>2 DEF WalkInv, Ordered, Acyclic
<1> QED
  BY <1>1, TreeWalks, PTL

\* Whatever the tree, the walk is never deeper than the functions are many.
THEOREM DepthIsBounded == TreeSpec => []PathIsSimple
<1>1. WalkInv => PathIsSimple
  BY DEF WalkInv
<1> QED
  BY <1>1, TreeWalks, PTL

\* Whatever the tree, check_no_recursion reports a cycle in each knot of functions that can call
\* themselves again: no first report hides another knot.
THEOREM NoKnotEscapes == TreeSpec => []EveryKnotReported
<1>1. WalkInv /\ KnotInv => EveryKnotReported
  <2> SUFFICES ASSUME WalkInv, KnotInv, pc = "done", NEW f \in DOMAIN body, Reaches(f, f)
               PROVE  \E cyc \in bad : Reaches(f, cyc[1]) /\ Reaches(cyc[1], f)
    BY DEF EveryKnotReported
  <2>1. state[f] = 2
    BY DEF WalkInv, Complete
  <2> QED
    BY <2>1 DEF KnotInv, Knots, Reported
<1> QED
  BY <1>1, TreeWalks, PTL

\* Whatever the files, a check that reads a text blanked reads its code and nothing of its comments
\* and literals.
THEOREM BlankingIsExact == TreeSpec => []OnlyCodeIsKept
  BY TreeInvariant, CodeIsKept, PTL

\* Whatever the files, a finding's line is the file's unless a literal before it swallows a line's end.
THEOREM LinesAreTheFiles == TreeSpec => []LinesLostInLiterals
  BY TreeInvariant, LinesAreLost, PTL

\* Whatever the files and the tables, the code of a tree that passes keeps the tables.
THEOREM PassingTreesKeepTheTables == TreeSpec => []CleanTreeKeepsTables
  BY TreeInvariant, TablesKept, PTL

\* Whatever the files and the tables, a tree that passes and compiles, and declares each name once,
\* raises no name in a layer that the table does not give it.
THEOREM ErrorsStayInTheirLayers == TreeSpec => []RaisedWhereListed
  BY TreeInvariant, RaisedKept, PTL
=============================================================================
