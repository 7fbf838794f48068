------------------------------ MODULE Mutants ------------------------------
(***************************************************************************)
(* meta/roadmap/0.0/0.0.4_tools/mutants.py: each mutant of a table made in *)
(* a copy of the tree of its own and the harness run there, by a pool of   *)
(* threads that share the directory of the copies and the tree they copy.  *)
(*                                                                         *)
(* A text is a sequence of words; a tree is a function from its files to   *)
(* their texts; a copy is a tree and the files of its nested checkouts.    *)
(* Git, the harness and whoever works in the tree meanwhile are external.  *)
(***************************************************************************)
EXTENDS Integers, Sequences, FiniteSets

CONSTANTS
  Pool,     \* how many run at a time
  Rows,     \* mutants.tsv: records [name, file, old, new], those of one name in one mutant
  Order,    \* the names of its mutants, each at its first row
  Trees,    \* what HEAD (with --staged, the index) may hold
  Asks,     \* the sets of names that may be asked for; {} asks for all
  Exits     \* the exit statuses of the harness

Unchanged == "unchanged"
Checkout == "<checkout>"

\* The rows of a mutant, in order.
EditsOf(n) == SelectSeq(Rows, LAMBDA r : r.name = n)

\* The mutants to run: the unchanged tree first, then the table's order.
JobsOf(ns) ==
  LET first == IF ns = {} \/ Unchanged \in ns THEN <<Unchanged>> ELSE <<>>
  IN first \o SelectSeq(Order, LAMBDA n : ns = {} \/ n \in ns)

Names == {Order[i] : i \in DOMAIN Order} \cup {Unchanged}

ASSUME MutantsAssumption ==
  /\ Pool \in Nat \ {0}
  /\ Exits \cap {"none", "stop"} = {}
  /\ \A ns \in Asks : JobsOf(ns) \in Seq(Names)
  /\ \A n \in Names : EditsOf(n) \in Seq({r \in {Rows[k] : k \in DOMAIN Rows} : r.name = n})

\* An edit that writes a new file, in a nested checkout.
Nested(e) == e.old = Checkout

\* No edit of a mutant writes a text that an edit of it replaces, or a nested file that one edits.
ASSUME EditsApart ==
  \A i, j \in DOMAIN Rows : Rows[i].name = Rows[j].name /\ Rows[i].file = Rows[j].file =>
    Rows[i].new # Rows[j].old /\ (Nested(Rows[i]) <=> Nested(Rows[j]))

VARIABLES
  asked,    \* the names asked for
  head,     \* the tree as it stands
  copies,   \* the directory of the copies: a copy for each name in it
  step,     \* each job's step
  made,     \* how many edits of each job are made
  line,     \* each job's line: "none", "stop" or the harness's exit status
  taken,    \* how many results main has, in the order of the jobs
  main,     \* "args", "collect", "raise" or "end"
  printed,  \* the lines printed
  exit,     \* "running", or the exit status
  base,     \* history: the tree each job copied
  saw       \* history: the copies the harness ran in, of each job at most one

poolVars == <<step, made, line, base, saw>>
mainVars == <<taken, main, printed, exit>>
mutantsVars == <<asked, head, copies, poolVars, mainVars>>

Jobs == JobsOf(asked)
Name(j) == Jobs[j]
Edits(j) == EditsOf(Name(j))
Unknown == asked \ Names

NoTree == [f \in {} |-> <<>>]

MutantsInit ==
  /\ asked \in Asks /\ head \in Trees
  /\ \E left \in {{}, {Unchanged}} : copies = [n \in left |-> [files |-> NoTree, nested |-> {}]]
  /\ step = [j \in DOMAIN Jobs |-> "queued"] /\ made = [j \in DOMAIN Jobs |-> 0]
  /\ line = [j \in DOMAIN Jobs |-> "none"]
  /\ taken = 0 /\ main = "args" /\ printed = <<>> /\ exit = "running"
  /\ base = [j \in DOMAIN Jobs |-> NoTree] /\ saw = [j \in DOMAIN Jobs |-> {}]

\* Whoever works in the tree commits, or stages, something else.
Commit ==
  /\ exit = "running" /\ head' \in Trees
  /\ UNCHANGED <<asked, copies, poolVars, mainVars>>

NoSuchMutant ==
  /\ main = "args" /\ Unknown # {}
  /\ main' = "end" /\ exit' = "2"
  /\ UNCHANGED <<asked, head, copies, poolVars, taken, printed>>

\* The copies are removed, but for those that cannot be: errors are ignored.
RemoveCopies == \E left \in SUBSET DOMAIN copies : copies' = [n \in left |-> copies[n]]

\* What a killed run has left goes first.
Submit ==
  /\ main = "args" /\ Unknown = {}
  /\ RemoveCopies
  /\ main' = "collect"
  /\ UNCHANGED <<asked, head, poolVars, taken, printed, exit>>

-----------------------------------------------------------------------------
(* one(): a job, in a thread of the pool. *)

Waits == {"queued", "done", "failed", "cancelled"}
Running == {j \in DOMAIN Jobs : step[j] \notin Waits}

Go(j, s) == step' = [step EXCEPT ![j] = s]
Ends(j, l) == Go(j, "done") /\ line' = [line EXCEPT ![j] = l]

\* A free thread takes the first job of the queue.
Take(j) ==
  /\ main \in {"collect", "raise"} /\ Cardinality(Running) < Pool
  /\ step[j] = "queued" /\ \A i \in DOMAIN Jobs : i < j => step[i] # "queued"
  /\ Go(j, "mkdir")
  /\ UNCHANGED <<asked, head, copies, made, line, base, saw, mainVars>>

Put(n, c) == copies' = [m \in DOMAIN copies \cup {n} |-> IF m = n THEN c ELSE copies[m]]

MakeDir(j) ==
  /\ step[j] = "mkdir"
  /\ IF Name(j) \in DOMAIN copies
     THEN Go(j, "failed") /\ UNCHANGED copies
     ELSE Go(j, "copy") /\ Put(Name(j), [files |-> NoTree, nested |-> {}])
  /\ UNCHANGED <<asked, head, made, line, base, saw, mainVars>>

\* git archive, or git checkout-index: the tree as it stands now.
CopyTree(j) ==
  /\ step[j] = "copy"
  /\ Put(Name(j), [files |-> head, nested |-> {}])
  /\ base' = [base EXCEPT ![j] = head]
  /\ Go(j, "init")
  /\ UNCHANGED <<asked, head, made, line, saw, mainVars>>

InitGit(j) ==
  /\ step[j] = "init"
  /\ Go(j, "edit")
  /\ UNCHANGED <<asked, head, copies, made, line, base, saw, mainVars>>

\* Mutant: the first edit again.
EditFirst(j) == Edits(j)[1]

Edit(j) == Edits(j)[made[j] + 1]
Editing(j) == step[j] = "edit" /\ made[j] < Len(Edits(j))
Here(j) == copies[Name(j)]

\* A command of git that fails, or a file that is not there, raises.
Fail(j) ==
  /\ \/ step[j] \in {"copy", "init"}
     \/ /\ step[j] = "edit" /\ made[j] < Len(Edits(j))
        /\ IF Nested(Edit(j)) THEN Edit(j).file \notin DOMAIN Here(j).files \cup Here(j).nested
           ELSE Edit(j).file \notin DOMAIN Here(j).files
  /\ Go(j, "failed")
  /\ UNCHANGED <<asked, head, copies, made, line, base, saw, mainVars>>

\* The places of a text where an edit's old text stands.
Places(text, e) == {p \in DOMAIN text : text[p] = e.old}

Replaced(text, e) == [p \in DOMAIN text |-> IF text[p] = e.old THEN e.new ELSE text[p]]

\* Mutant: a text that is not there once is passed over.
OncePassed(text, e) == TRUE

Once(text, e) == Cardinality(Places(text, e)) = 1

Replace(j) ==
  /\ Editing(j) /\ ~Nested(Edit(j)) /\ Edit(j).file \in DOMAIN Here(j).files
  /\ LET text == Here(j).files[Edit(j).file]
     IN IF Once(text, Edit(j))
        THEN /\ Put(Name(j), [files  |-> [Here(j).files EXCEPT ![Edit(j).file] = Replaced(text, Edit(j))],
                            nested |-> Here(j).nested])
             /\ made' = [made EXCEPT ![j] = @ + 1]
             /\ UNCHANGED <<step, line>>
        ELSE Ends(j, "stop") /\ UNCHANGED <<copies, made>>
  /\ UNCHANGED <<asked, head, base, saw, mainVars>>

\* A nested checkout, of a file that must not be there.
Nest(j) ==
  /\ Editing(j) /\ Nested(Edit(j))
  /\ IF Edit(j).file \in DOMAIN Here(j).files \cup Here(j).nested
     THEN Ends(j, "stop") /\ UNCHANGED <<copies, made>>
     ELSE /\ Put(Name(j), [files |-> Here(j).files, nested |-> Here(j).nested \cup {Edit(j).file}])
          /\ made' = [made EXCEPT ![j] = @ + 1]
          /\ UNCHANGED <<step, line>>
  /\ UNCHANGED <<asked, head, base, saw, mainVars>>

RunHarness(j) ==
  /\ step[j] = "edit" /\ made[j] = Len(Edits(j))
  /\ saw' = [saw EXCEPT ![j] = {Here(j)}]
  /\ \E x \in Exits : Ends(j, x)
  /\ UNCHANGED <<asked, head, copies, made, base, mainVars>>

\* The harness cannot be started, or has run and what it printed is no text.
LoseHarness(j) ==
  /\ step[j] = "edit" /\ made[j] = Len(Edits(j))
  /\ saw' \in {saw, [saw EXCEPT ![j] = {Here(j)}]}
  /\ Go(j, "failed")
  /\ UNCHANGED <<asked, head, copies, made, line, base, mainVars>>

-----------------------------------------------------------------------------
(* main(): the results in the order of the jobs, then the lines. *)

\* Mutant: an exception is a result like another.
CollectAny ==
  /\ main = "collect" /\ taken < Len(Jobs) /\ step[taken + 1] \in {"done", "failed"}
  /\ taken' = taken + 1
  /\ UNCHANGED <<asked, head, copies, poolVars, main, printed, exit>>

Collect ==
  /\ main = "collect" /\ taken < Len(Jobs) /\ step[taken + 1] = "done"
  /\ taken' = taken + 1
  /\ UNCHANGED <<asked, head, copies, poolVars, main, printed, exit>>

\* Mutant: only the first job's.
RaiseFirst ==
  /\ main = "collect" /\ taken = 0 /\ Len(Jobs) > 0 /\ step[1] = "failed"
  /\ step' = [j \in DOMAIN Jobs |-> IF step[j] = "queued" THEN "cancelled" ELSE step[j]]
  /\ main' = "raise"
  /\ UNCHANGED <<asked, head, copies, made, line, base, saw, taken, printed, exit>>

\* The next result is an exception: the jobs not begun are cancelled, and the pool is waited for.
Raise ==
  /\ main = "collect" /\ taken < Len(Jobs) /\ step[taken + 1] = "failed"
  /\ step' = [j \in DOMAIN Jobs |-> IF step[j] = "queued" THEN "cancelled" ELSE step[j]]
  /\ main' = "raise"
  /\ UNCHANGED <<asked, head, copies, made, line, base, saw, taken, printed, exit>>

\* A traceback, of status 1.
EndRaised ==
  /\ main = "raise" /\ Running = {}
  /\ main' = "end" /\ exit' = "1"
  /\ UNCHANGED <<asked, head, copies, poolVars, taken, printed>>

Report ==
  /\ main = "collect" /\ taken = Len(Jobs)
  /\ printed' = [j \in DOMAIN Jobs |-> <<Name(j), line[j]>>]
  /\ RemoveCopies
  /\ main' = "end" /\ exit' = "0"
  /\ UNCHANGED <<asked, head, poolVars, taken>>

Job(j) ==
  \/ MakeDir(j) \/ CopyTree(j) \/ InitGit(j) \/ Fail(j)
  \/ Replace(j) \/ Nest(j) \/ RunHarness(j) \/ LoseHarness(j)

Main == NoSuchMutant \/ Submit \/ Collect \/ Raise \/ EndRaised \/ Report

MutantsNext == Commit \/ Main \/ \E j \in DOMAIN Jobs : Take(j) \/ Job(j)

\* The threads of the pool and main are scheduled; whoever commits owes nothing.
MutantsSpec ==
  /\ MutantsInit /\ [][MutantsNext]_mutantsVars
  /\ WF_mutantsVars(Main) /\ WF_mutantsVars(\E j \in DOMAIN Jobs : Take(j) \/ Job(j))
-----------------------------------------------------------------------------
(* Properties. *)

\* Types, and the bound of the pool.
MutantsTypeOK ==
  /\ asked \in Asks /\ head \in Trees
  /\ step \in [DOMAIN Jobs -> Waits \cup {"mkdir", "copy", "init", "edit"}]
  /\ made \in [DOMAIN Jobs -> Nat] /\ \A j \in DOMAIN Jobs : made[j] <= Len(Edits(j))
  /\ line \in [DOMAIN Jobs -> Exits \cup {"none", "stop"}]
  /\ base \in [DOMAIN Jobs -> Trees \cup {NoTree}] /\ saw = [j \in DOMAIN Jobs |-> saw[j]]
  /\ taken \in 0..Len(Jobs)
  /\ main \in {"args", "collect", "raise", "end"} /\ exit \in {"running", "0", "1", "2"}
  /\ Cardinality(Running) <= Pool

\* The words that the first n of the edits es make of the word w in file f.
Made(es, n, f, w) ==
  {es[i].new : i \in {i \in 1..n : ~Nested(es[i]) /\ es[i].file = f /\ es[i].old = w}}

\* A copy is the tree b with the first n of the edits es made, and nothing else.
EditedBy(c, b, es, n) ==
  /\ DOMAIN c.files = DOMAIN b
  /\ \A f \in DOMAIN b :
       /\ DOMAIN c.files[f] = DOMAIN b[f]
       /\ \A p \in DOMAIN b[f] :
            c.files[f][p] \in (IF Made(es, n, f, b[f][p]) = {} THEN {b[f][p]} ELSE Made(es, n, f, b[f][p]))
  /\ c.nested = {es[i].file : i \in {i \in 1..n : Nested(es[i])}}

\* An edit that can be made exactly once in the tree b.
Fits(b, e) ==
  IF Nested(e) THEN e.file \notin DOMAIN b ELSE e.file \in DOMAIN b /\ Cardinality(Places(b[e.file], e)) = 1

\* mutants.py's header: each mutant is its own edits, each made exactly once in a copy of the tree; so
\* whatever the threads do in each other's time, and whatever is committed meanwhile, the harness runs
\* over a tree that HEAD held, with the edits of its mutant and no other.
OwnEditsOf(j) ==
  \A c \in saw[j] :
    /\ base[j] \in Trees /\ EditedBy(c, base[j], Edits(j), Len(Edits(j)))
    /\ \A i \in DOMAIN Edits(j) : Fits(base[j], Edits(j)[i])

OwnEditsAlone == \A j \in DOMAIN Jobs : OwnEditsOf(j)

\* mutants.py's header: any other count is a STOP, and that mutant is not run.  A STOP is for an edit
\* that does not fit the tree copied, or one made before; and a line that gives a status is of a run
\* that the harness made, and to its end.
StoppedForCause(j) ==
  /\ line[j] \in Exits <=> saw[j] # {} /\ step[j] = "done"
  /\ line[j] = "stop" =>
       \E i \in DOMAIN Edits(j) :
         \/ ~Fits(base[j], Edits(j)[i])
         \/ \E h \in 1..(i - 1) : Edits(j)[h].file = Edits(j)[i].file /\ Edits(j)[h].old = Edits(j)[i].old

StopsForCause == \A j \in DOMAIN Jobs : StoppedForCause(j)

\* A run ends with 0 only when each job has its line, in the table's order; an exception of any job, a
\* copy that an earlier run left and that could not be removed among them, ends it with 1, with no line
\* printed and no thread at work; and a name that the table does not hold ends it before anything is copied.
EndIsWhole ==
  /\ exit = "0" => /\ Len(printed) = Len(Jobs)
                   /\ \A j \in DOMAIN Jobs : step[j] = "done" /\ line[j] # "none" /\ printed[j] = <<Name(j), line[j]>>
  /\ exit = "1" => /\ printed = <<>> /\ Running = {}
                   /\ \E j \in DOMAIN Jobs : step[j] = "failed" /\ \A i \in 1..(j - 1) : step[i] = "done"
  /\ exit = "2" => \A j \in DOMAIN Jobs : step[j] = "queued"

\* The run ends, however many jobs fail.
PoolEnds == <>(main = "end")
=============================================================================
