----------------------------- MODULE Recursion -----------------------------
(***************************************************************************)
(* harness/treecheck.py, check_no_recursion: the functions under src/ are  *)
(* read into one dictionary, and a depth-first walk of the calls between   *)
(* them reports every call that closes a cycle (PA-022, no recursion).     *)
(*                                                                         *)
(* A function is its name; names are numbers, so that sorted() is their    *)
(* order.  `returned` is a history: the walks, in the order they returned. *)
(***************************************************************************)
EXTENDS Integers, Sequences

CONSTANTS
  Names,    \* the names of functions
  Sources   \* the trees: sequences of definitions, [name, calls], in the order files are read

Definitions == [name : Names, calls : SUBSET Names]

ASSUME RecursionAssumption == Names \subseteq Nat /\ Sources \subseteq Seq(Definitions)

VARIABLES
  source,   \* the tree at hand
  read,     \* how many of its definitions are read
  body,     \* the dictionary: each name's callees, by name, as the text has them
  state,    \* 0 not walked, 1 on the path, 2 walked
  path,     \* the functions being walked, the outermost first
  left,     \* the callees of each that its loop has not reached
  bad,      \* the cycles reported
  seen,     \* the sets of functions they run through
  pc,
  returned  \* history: the functions walked, in the order their walks returned

recursionVars == <<source, read, body, state, path, left, bad, seen, pc, returned>>

Init ==
  /\ source \in Sources
  /\ read = 0 /\ body = [f \in {} |-> {}]
  /\ state = [f \in Names |-> 0] /\ path = <<>> /\ left = [f \in Names |-> {}]
  /\ bad = {} /\ seen = {} /\ pc = "read"
  /\ returned = <<>>

\* The call graph: a callee counts when it is a name of the dictionary.
Calls(f) == body[f] \cap DOMAIN body

\* A definition replaces one of the same name, of whatever module.
Keep(d) == [f \in DOMAIN body \cup {d.name} |-> IF f = d.name THEN d.calls ELSE body[f]]

ReadFunction ==
  /\ pc = "read" /\ read < Len(source)
  /\ body' = Keep(source[read + 1])
  /\ read' = read + 1
  /\ UNCHANGED <<source, state, path, left, bad, seen, pc, returned>>

AllRead ==
  /\ pc = "read" /\ read = Len(source)
  /\ pc' = "walk"
  /\ UNCHANGED <<source, read, body, state, path, left, bad, seen, returned>>

\* Mutant: a function is marked when its walk returns.
EnterUnmarked(f) ==
  /\ state' = state
  /\ path' = Append(path, f)

\* walk(f) is entered from the function on top of the path, or from the loop over all names.
Enter(f) ==
  /\ state' = [state EXCEPT ![f] = 1]
  /\ path' = Append(path, f)

Least(S, f) == f \in S /\ \A g \in S : f <= g

\* The loop over all names, sorted: the next one not walked yet.
WalkNext(f) ==
  /\ pc = "walk" /\ path = <<>>
  /\ Least({g \in DOMAIN body : state[g] = 0}, f)
  /\ Enter(f)
  /\ left' = [left EXCEPT ![f] = Calls(f)]
  /\ UNCHANGED <<source, read, body, bad, seen, pc, returned>>

Top == path[Len(path)]

\* The loop of the walk on top reaches c, the least callee left.
Reach(c) == pc = "walk" /\ path # <<>> /\ Least(left[Top], c)

\* Mutant: the whole path.
CycleWhole(c) == Append(path, c)

\* The cycle a call of c closes: the path from c on, and c again.
Cycle(c) == LET i == CHOOSE i \in DOMAIN path : path[i] = c
            IN Append(SubSeq(path, i, Len(path)), c)

RangeOf(s) == {s[i] : i \in DOMAIN s}

\* Mutant: only a function that calls itself.
CloseCycleDirect(c) ==
  /\ Reach(c) /\ state[c] = 1
  /\ left' = [left EXCEPT ![Top] = @ \ {c}]
  /\ IF c = Top THEN bad' = bad \cup {Cycle(c)} /\ seen' = seen \cup {{c}}
     ELSE UNCHANGED <<bad, seen>>
  /\ UNCHANGED <<source, read, body, state, path, pc, returned>>

\* Mutant: the first cycle is enough.
CloseCycleFirst(c) ==
  /\ Reach(c) /\ state[c] = 1
  /\ left' = [left EXCEPT ![Top] = @ \ {c}]
  /\ seen' = seen \cup {RangeOf(Cycle(c))}
  /\ bad' = IF seen # {} THEN bad ELSE bad \cup {Cycle(c)}
  /\ UNCHANGED <<source, read, body, state, path, pc, returned>>

\* A call of a function on the path: a cycle, reported once for the functions it runs through.
\* The exceptions table is empty.
CloseCycle(c) ==
  /\ Reach(c) /\ state[c] = 1
  /\ left' = [left EXCEPT ![Top] = @ \ {c}]
  /\ seen' = seen \cup {RangeOf(Cycle(c))}
  /\ bad' = IF RangeOf(Cycle(c)) \in seen THEN bad ELSE bad \cup {Cycle(c)}
  /\ UNCHANGED <<source, read, body, state, path, pc, returned>>

Descend(c) ==
  /\ Reach(c) /\ state[c] = 0
  /\ Enter(c)
  /\ left' = [left EXCEPT ![Top] = @ \ {c}, ![c] = Calls(c)]
  /\ UNCHANGED <<source, read, body, bad, seen, pc, returned>>

\* Mutant: the loop does not move past a function walked already.
PassByStuck(c) ==
  /\ Reach(c) /\ state[c] = 2
  /\ UNCHANGED recursionVars

PassBy(c) ==
  /\ Reach(c) /\ state[c] = 2
  /\ left' = [left EXCEPT ![Top] = @ \ {c}]
  /\ UNCHANGED <<source, read, body, state, path, bad, seen, pc, returned>>

\* The walk on top returns.
Leave ==
  /\ pc = "walk" /\ path # <<>> /\ left[Top] = {}
  /\ state' = [state EXCEPT ![Top] = 2]
  /\ returned' = Append(returned, Top)
  /\ path' = SubSeq(path, 1, Len(path) - 1)
  /\ UNCHANGED <<source, read, body, left, bad, seen, pc>>

\* Every function is walked: the findings are returned.
AllWalked ==
  /\ pc = "walk" /\ path = <<>> /\ \A g \in DOMAIN body : state[g] # 0
  /\ pc' = "done"
  /\ UNCHANGED <<source, read, body, state, path, left, bad, seen, returned>>

Next ==
  \/ ReadFunction \/ AllRead
  \/ \E f \in Names : WalkNext(f)
  \/ \E c \in Names : CloseCycle(c) \/ Descend(c) \/ PassBy(c)
  \/ Leave \/ AllWalked

Spec == Init /\ [][Next]_recursionVars /\ WF_recursionVars(Next)

-----------------------------------------------------------------------------
(* Properties. *)

TypeOK ==
  /\ source \in Sources
  /\ read \in 0..Len(source)
  /\ DOMAIN body \subseteq Names /\ \A f \in DOMAIN body : body[f] \subseteq Names
  /\ state \in [Names -> 0..2]
  /\ path \in Seq(DOMAIN body)
  /\ left \in [Names -> SUBSET DOMAIN body]
  /\ bad \subseteq Seq(Names) /\ seen \subseteq SUBSET Names
  /\ pc \in {"read", "walk", "done"}
  /\ returned \in Seq(DOMAIN body)

\* A reported cycle is one: each function of it calls the next, and the last is the first again.
ReportsAreCycles ==
  \A cyc \in bad :
    /\ Len(cyc) >= 2 /\ cyc[1] = cyc[Len(cyc)]
    /\ \A i \in 1..(Len(cyc) - 1) : cyc[i] \in DOMAIN body /\ cyc[i + 1] \in Calls(cyc[i])

\* No function is on the path twice: walk's own recursion, one level for each function on the path,
\* ends however the functions call each other, and is never deeper than they are many.
PathIsSimple == \A i, j \in 1..Len(path) : path[i] = path[j] => i = j

\* A certificate that the calls have no cycle: each function returned after all it calls.
Acyclic ==
  /\ RangeOf(returned) = DOMAIN body
  /\ \A i \in DOMAIN returned : \A c \in Calls(returned[i]) :
       \E j \in DOMAIN returned : j < i /\ returned[j] = c

\* A walk that reports nothing has seen a graph without a cycle.
CleanIsAcyclic == pc = "done" /\ bad = {} => Acyclic

\* Reaching by calls, the reference definition: g is in every set of functions that holds all f calls
\* and all that its own members call.
Reaches(f, g) ==
  \A S \in SUBSET DOMAIN body : Calls(f) \subseteq S /\ (\A h \in S : Calls(h) \subseteq S) => g \in S

\* Every function that can call itself again is in the knot of a reported cycle: one report in each
\* knot of mutually recursive functions, not just one in the tree.
EveryKnotReported ==
  pc = "done" => \A f \in DOMAIN body : Reaches(f, f) =>
    \E cyc \in bad : Reaches(f, cyc[1]) /\ Reaches(cyc[1], f)

\* treecheck.py's header: no cycle in the call graph of the functions under src/; so a function
\* whose own text calls it is reported.
SelfCallsReported ==
  pc = "done" /\ (\E i \in DOMAIN source : source[i].name \in source[i].calls) => bad # {}
=============================================================================
