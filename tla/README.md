# nitpick-parse: TLA+ models and proofs of its harness

At this commit `nitpick-parse` is cycle 0.0 of a parser library: the modules under `src/src/` are
placeholders of a few lines each. The program that runs, decides and can be wrong is the **harness**
(`src/harness/*.py`), which builds every test program with a pinned toolchain, runs it, judges it against
the markers written in it, holds the library's sources to the tables of its specifications, and ends in one
line (GREEN, RED, FILTERED or CANNOT PROCEED) and an exit status on which a commit rests. Around it stand a
tool that applies the steps of a plan (`src/meta/roadmap/0.0/tools/apply.py`), a workflow that runs the harness
(`src/.github/workflows/ci.yml`), and, in the directory of subcycle 0.0.4, a tool that finds claims left behind
in the documents (`claims.py`) and one that shows the harness red over mutants of the tree (`mutants.py`). This
directory models these five, checks them with TLC and proves their main properties with TLAPS. Paths below are
relative to the repository, which `PROJECT.json` calls `src/`.

## 1. Inventory

| Part | Source | State it keeps | Operations | What makes it correct |
| --- | --- | --- | --- | --- |
| Run | `harness/run.py` | the list of failures, the floor's edges, the summary | `main` and its phases: manifest, honour, toolchain, runtime, baseline, self-check, library, repro, pending list, suites, tree checks, orphans, report | GREEN only when every obligation was met; RED and exit 1 only when one was not; nothing judged before the self-check; every run ends |
| Suites | `harness/stages.py` | `Stage`: verdicts, `pending_seen`, `floor_under` | program and check suites, the sweep, `_pending`, `_floor_ok` | each unit has the verdict it is owed, once, in order; a marker excuses exactly the one failure it names |
| Builds | `harness/build.py` | a `Build` and its two `Leg`s | npkc, the target rows, opt, llc, undefined symbols, ld.lld | both legs from one emission, each ended on its own; no early end read as a success |
| Self-check | `harness/selfcheck.py` | the live cases | plant a defect, expect red | a case that is not red ends the run |
| Expectation reader | `harness/expect.py` | an `Expect` and its problems | `read_text`, one branch per marker | what cannot be read is named, never defaulted; the last marker wins; a site belongs to the error above it |
| Manifest reader | `harness/manifest.py` | tables and entries, by section | `read` | a file is accepted exactly when it keeps the rules, and nothing it gives is lost |
| Call-edge scan | `harness/irscan.py`, and the lists in `run.py` | symbols declared and defined, the enclosing function, the edges | `edges`, `findings`, the baseline's controls | the findings are the denied calls that are there; silence is a clean unit |
| Tree checks | `harness/treecheck.py`, `harness/lexical.py` | the blanked texts; per check: declarations, raises, a graph and a stack | layering, error budget, named constants, raw accumulation, recursion, current specs | a clean report is about the whole tree, and about its code only |
| Step tool | `meta/roadmap/0.0/tools/apply.py` | the date file of a subcycle; the tree, through git | `run_date`, `text_of`, `label_findings`, `main` | a step is in whole or not at all; a subcycle has one date; every decision named is declared |
| Workflow | `.github/workflows/ci.yml` | a job's checkout, LLVM, compiler; two shared caches | its steps | a green job had what its pins name, whatever the caches held |
| Claim checker | `meta/roadmap/0.0/0.0.4_tools/claims.py` | the paragraph, block, heading and fence being read; candidates; the listed lines used | `claims`, `decls`, `control` | every claim is carried, classed or reported; a listed line is for a claim that is there; a check that read nothing is no pass |
| Mutant runner | `meta/roadmap/0.0/0.0.4_tools/mutants.py` | a pool's jobs; a directory of copies of the tree | `one`, `main` | the harness runs over one tree with one mutant's edits and no other; a run's end is whole |
| Toolchain and objects | `harness/toolchain.py`, `harness/elf.py` | none | version questions, ELF symbol tables | a wrong version or an unreadable object ends the run |
| Survey and other subcycle tools | `meta/roadmap/0.0/**` | none | reports over documents | (not modelled) |
| Library, probes | `src/*.npk`, `tests/**/*.npk` | none | placeholders; programs that measure the compiler | (not modelled: their outcomes are the suites' inputs) |

**How they interact.** `run.py` calls everything else of the harness by plain function calls, in one thread. It
reads the manifest, asks the toolchain its versions, scans the runtime object and the two control programs, runs
the self-check on copies of the tree, builds the library, and then hands each `[[test]]` entry to a `Stage`, which
reads the markers of each unit, has it built, scanned and run, and appends a verdict; the tree checks follow. The
two lists -- `failures`, which `main` keeps, and the `Stage`'s verdicts -- meet only in the report. `pending_seen`
is grown by the suites and read by `orphans` at the end. `apply.py` and the workflow share nothing with the
harness but the tree it runs in and its last line. `mutants.py` runs the harness as a subprocess, three at a time,
each in a copy of the tree that git makes while others may commit to it. `claims.py` blanks sources with the
harness's own `lexical.blank`, and its `decls` asks for what `check_error_budget` takes for granted: one module
that declares each name.

**Which behaviours are hard.** The harness is sequential, so its difficulty is not interleaving but *order and
omission*: a run of early returns in which one step's finding must not hide another's; a timed-out subprocess
that is neither success nor failure; state kept from unit to unit (the floor program's answer under a cap, the
lines of the reviewed list seen so far); a text read raw by one check and blanked by the next; a filtered run that
shares its path with a full one; exceptions that nothing catches. `apply.py` can be killed between its two writes
and run again on another day. Workflow jobs of different commits interleave over caches that outlive them. The
mutant runner's threads share a directory and a tree that moves under them, and an exception in one is met only in
its turn. `PROJECT.json` lists each hazard at its line with the properties that answer it.

## 2. The modules

```
 Observations ── Build ── Stages ──implements──► Judgement        (abstract: what the suites promise)
                            │                        ▲
                      StagesProofs                   │ EXTENDS
                                                  Harness ──implements──► Gate   (abstract: what a run is for)
                                                     │
                                               HarnessProofs
 Markers ─┐                  the reader whose result is Observations' Expectation
 Manifest ┴─► ReadersProofs  the reader whose result is Stages' and Harness's Tests
 IrScan, IrScanProofs        the scan whose answer is Stages' `found` and Harness's runtime and baseline steps
 Lexical ─┐
 Recursion ┴─► TreeChecks, TreeChecksProofs   the checks of Harness's TreeChecks, one after the other
 Decls ─► Claims ─┐          claims.py: its command decls, then claims
 Apply ───────────┴─► RoadmapProofs           the step tool
 Mutants, MutantsProofs      the mutant runner, whose subprocess is the harness and its exit status
 Workflow, WorkflowProofs    the workflow, whose harness step is Harness's summary
```

| Module | Models | State and actions |
| --- | --- | --- |
| `Observations` | the vocabulary of `expect.py`, `build.py`, `stages.py` | no state; *tables* (`ProgramVerdict`, `CheckVerdict`, `Parses`) that say which verdict an expectation and a set of outcomes deserve, without an order of asking |
| `Build` | `build.py` | the `Build` and its legs, one action per subprocess or artefact read: `Npkc`, `TargetRows`, `Opt`, `OptimisedRows`, `Llc`, `UndefinedSymbols`, `Lld`; every outcome, a timeout (`Hang`) included, is a choice. `obs` is a history of what was seen |
| `Stages` | `stages.py` | one action per step of a unit: `Taken` and `RefuseProgram`, `BuildOn`, `Scan`, `FloorOk`, `Run`, `Judge`, `JudgeUnlisted`, `JudgePending`; the same for check units (`JudgeCheck`, `JudgeCheckPending`) and the sweep (`SweepFile`, `JudgeSweep`) |
| `Judgement` | what `run.py` relies on of `stages.py` | one verdict per selected subject in order; a red unit leaves the count only under a line of the reviewed list |
| `Harness` | `run.py`, `selfcheck.run` | `phase`, `failures`, the summary and exit status; one action per phase, with the early ends `Stop` (status 2) and `End`, and `Uncaught`, an exception that may end any step with a traceback and status 1; the suites are `Judgement`'s actions |
| `Gate` | what a run is for | obligations met or unmet, an outcome |
| `Markers` | `expect.read_text` | the lines of a file, one action per branch of the reader |
| `Manifest` | `manifest.read` | the lines of the file and then its entries; refusals, and the exceptions that are not `ManifestError` |
| `IrScan` | `irscan.edges`, `irscan.findings`, and the lists of `run.py` | two passes over a module's lines, for the floor program, the syscaller and a unit, one after the other |
| `Lexical` | `lexical.blank`, `lexical.line_of` | a text of lexemes, how much of it is read, what is given for it; one step per comment, literal or lexeme |
| `Recursion` | `check_no_recursion` and its `walk` | the dictionary of bodies, the three-state marking, the path; one action per iteration and return of `walk` |
| `TreeChecks` | `treecheck.py` | the tree, the check under way and the file it has reached; an action per check and file (`CheckLayering`, `Declare`, `Raise`, `CheckErrorBudget`, `CheckConstantsNamed`, `CheckNoRawAccumulate`, `CheckSpecsCurrent`), with the steps of `Lexical` and `Recursion` inside it |
| `Decls` | `claims.py decls` | the sources, the faults, the exit status; one pass |
| `Claims` | `claims.py claims` | a file's lines, the paragraph begun, heading and block; candidates and the listed lines used; an action per line cut (`HeadNext`, `EndBlock`, `StartParagraph`, `GoOn`), per file judged and per row ended |
| `Mutants` | `mutants.py` | each job's step, its edits made and its line; the copies; `main`'s place; an action per step of `one` (`MakeDir`, `CopyTree`, `InitGit`, `Replace`, `Nest`, `RunHarness`, `LoseHarness`, `Fail`) and per step of `main` (`NoSuchMutant`, `Submit`, `Collect`, `Raise`, `EndRaised`, `Report`), with `RemoveCopies` where the code removes the directory and lets failures pass; `Commit` is the world's |
| `Apply` | `apply.main` | the tree as the day each step wrote into it (a step may have rewritten lines of an earlier one's hunks), the date file (absent, torn or a day), the tool's place; the worker, the clock and git are external |
| `Workflow` | the job of `ci.yml` | per job: pins, checkout, LLVM, compiler, summary; shared: two caches, one entry per key |

A path, a name, a diagnostic or a digest is a member of a small set; wording and layout are left out. What a
regular expression takes a line for is the line's kind. Definitions marked *Mutant* are deviations of a modelled
definition, used to show that a property can fail; no specification uses them.

An `MC` module gives its specification the instances of section 3. Two of them hold two specifications that share
no variable: `MCReaders` the readers `Markers` and `Manifest`, `MCRoadmap` the tools `Apply` (by `MCApply`) and `Claims`
(by `MCClaims`). In such a run each specification takes its steps while the other rests on one small input.

## 3. What the runs check and show

`tlc -config <cfg> <module>`; distinct states in brackets.

| Run | Module, config | What is checked | What it shows |
| --- | --- | --- | --- |
| `stages` | `MCStages` [22,783] | `ProgramOwed`, `DiagnosticsOwed`, `StaleIsMet`, `FloorFirst`, `SeenIsJudged`, `JudgesInOrder`, `Ends` | under every outcome of every subprocess, each verdict is the one the tables of `Observations` give: no early return hides a second defect; a marker is called stale only when the unit meets all it expects; nothing runs under a cap the floor program failed under; the suites implement `Judgement` |
| `harness` | `MCHarness` [41,668] | `ExitTellsFailure`, `GreenIsEarned`, `JudgedAfterSelfCheck`, `RunEnds` | a run, filtered or full, implements `Gate`; its exit status is true, wherever an exception ends it; the self-check comes first; it ends |
| `tree_checks` | `MCTreeChecks` [223,806] | `OnlyCodeIsKept`, `LinesLostInLiterals`, `CleanTreeKeepsTables`, `RaisedWhereListed`, `ReportsAreCycles`, `CleanIsAcyclic`, `EveryKnotReported`, `PathIsSimple`, `TreeEnds` | `blank` keeps exactly the code; a line number is off only behind a literal that swallows a line's end; a tree with no finding keeps the import table, the bounds' place, the no-trap rule and the error budget in its code; what the walk reports are cycles, silence means none, each knot of mutual recursion is reported, and the walk is never deeper than there are functions |
| `roadmap` | `MCRoadmap` [233,955] | `OneDateWhileRecorded`, `LabelsHeld`, `RefusedForCause`; `ClaimsAsWritten`, `StaleIsUnheld`, `ExitIsTrue`, `OneDeclarer` | `apply.py`: while a subcycle's date is on record its steps carry that date, and a step run again on any day is found unless a later one has rewritten a line of its hunks; no decision is named that is not declared. `claims.py`: the candidates are the claims a reader without state finds, and one is carried exactly when a correction is near it or a note is in another section of its heading; a listed line is stale exactly when it holds no bare claim that an earlier one does not; the exit status is true, of an empty tree too; `decls` passes exactly when one module declares each name of the table, once, and no other module declares any |
| `workflow` | `MCWorkflow` [151,048] | `GreenProves`, `CacheIsChecked` | a green job had the commit, the compiler, the emission and the LLVM of its pins, whatever other jobs cached |
| `readers` | `MCReaders` [227,053] | `ProblemsNamed`, `LastWins`, `ErrorsAsWritten`; `AcceptsTheRules`, `NothingLost` | of the markers, exactly the lines that cannot be read are named, and a readable file expects what it says; a manifest is accepted exactly when a reader without state would accept it, and all it gives is held |
| `ir_scan` | `MCIrScan` [281,168] | `FindsWhatIsThere`, `SilentIsClean` | a unit's findings are its denied calls, wherever declarations stand; a green baseline and no finding mean every runtime call is allowed or reviewed |
| `mutants` | `MCMutants` [189,240] | `OwnEditsAlone`, `StopsForCause`, `EndIsWhole`, `PoolEnds` | whatever the threads do in each other's time, whatever is committed meanwhile and whatever an earlier run has left, the harness runs over a tree that HEAD held, with one mutant's edits, each made exactly once; a run ends with every line printed, or with nothing printed and no thread at work |

`CleanTreeKeepsTables` is `ImportsKeepTheTable`, `BoundsHaveTheirPlace` and `ArithmeticIsGuarded`; `ClaimsAsWritten`
is `EveryClaimJudged` and `CorrectionIsNear`: each of these is one promise of its source, checked together.
The type invariants are proved (section 4), or, in the modules without proofs, left to what the properties
already say of the state.

Four runs end in a violation; each is a place where the code does other than its own text says.

| Run | Property | The code does | The text says |
| --- | --- | --- | --- |
| `recursion_names` | `SelfCallsReported` | bodies are kept by bare name, so a namesake in a later file replaces an earlier function and its calls | no cycle in the call graph of the functions under `src/` (`harness/treecheck.py:15`) |
| `apply_crash` | `OneDate` | a kill between git's write and the date's leaves the step in and the date unrecorded; a dated step applied on a later day writes another date | one date for the whole run of its subcycle (`tools/apply.py:37`) |
| `apply_rerun` | `RerunIsAlready` | a step is found in the tree when its patch reverses; once a later step has rewritten a line of its hunks, both of git's checks fail and a re-run says STOP. In subcycle 0.0.3, `step1.patch` rewrites lines of `harness/stages.py` that hunks of `step0d.patch` hold | a re-run reports ALREADY on any day while the file holds the run's date (`tools/apply.py:43`) |
| `claims_sections` | `CarriedInItsSection` | paragraphs are joined by the text of their heading, so a dated note in one section carries a claim in another of the same heading | in the heading of the `###` section it stands in, or in a dated note there (`claims.py:35-36`) |

Other places where code and text part, which the models hold as the code has them and no run is kept for:

- `run.py`: an exception outside `main`'s `try` (line 222: a manifest with no opt-level, a runtime that is no ELF
  object; a tool that may not be started, at any step) ends a run with a traceback, where line 41 says that the summary is printed last; a filtered run whose
  controls do not build ends RED (line 247), where line 37 says that its last line is FILTERED. `Harness` has
  both, as `Uncaught` and `End`, and `ExitTellsFailure` holds over them.
- `lexical.py`: a literal that no quote closes, or whose line ends in a backslash, takes the line's end with it (lines
  30-33), where lines 4 and 16 promise that the line structure is kept and each line number is the file's. `LinesLostInLiterals` says that nothing else does.
- `claims.py`: a row whose path matches no file passes with nothing read; a note's anchor may stand anywhere behind the note's opening; two blank lines end a block that one does not.
  `Claims` keeps each, and `Near` says in terms of lines what "carried" comes to, `ByNamesake` what the joined sections
  add to it.
- `mutants.py`: an exception leaves the copies behind, and so does a run that cannot remove them, without a word (lines 99
  and 106); each job copies HEAD at its own time, so two mutants of one
  run may be of different commits. `OwnEditsAlone` speaks of one tree per mutant, and `EndIsWhole` of no copies.

**Bounds, and why they are enough.**

- `MCStages`: one unit for each way a unit can ask something of the harness (stressed and capped; pending, listed
  and capped; pending and not listed; unreadable; an error expected of a program; a check plain, pending, or
  expecting nothing), two units under one cap, so that the floor's kept answer is used again, and one cap. Each
  subprocess has every class of outcome; npkc's outputs are the exits times diagnostics that match, miss by code or
  miss by site.
- `MCHarness`: an entry of each kind, a plain and a marked unit, a marked check unit, and a list with both lines;
  two live cases and two tree checks, so that "some" and "all", and the first and the last of a loop, differ.
- `MCTreeChecks`: all texts of four lexemes, and of five that begin in a literal: enough for a comment or a literal
  to be opened, escaped, run over a line's end and closed before one more lexeme. Trees of four files, of which the
  first and the third may raise what the second, the third or the fourth declares, in code or behind a comment's opener;
  limits with a value missing, wrong, blanked or of no row; the call graphs are all graphs on three functions, all
  functional graphs on four, calls of undefined names, and namesakes. A depth-first walk that is wrong is wrong on
  three nodes: a path, a back edge and a cross edge.
- `MCApply`: `MaxDay` = 3 (a date, another, and a day after it), `MaxCrashes` = 2 (1 is enough to violate
  `OneDate`, 0 to violate `RerunIsAlready`), four steps in two subcycles, among the plans one whose
  second and last steps each rewrite a line of an earlier step's hunks, in their subcycle and across two. `MCReaders`: all manifests of three lines and those of five that two tables need,
  and two entries of which one or two lines vary. All files of three lines of markers at the borders of each
  range, and errors with sites up to five lines. `MCIrScan`: all well-formed units of four lines, and two
  functions with their declarations last. `MCWorkflow`: three jobs, interchangeable (the symmetry set; no
  liveness is checked there), pins that differ in one field each.
- `MCClaims`: all files of four lines of eleven forms, and six lines where namesake sections, a note beneath and a fence
  meet; a plan with its record; two rows and up to three listed lines over two files. `MCMutants`: a pool of three,
  as in the code, over the unchanged tree and three mutants, so that one job waits for a thread; two trees, of which one
  lacks a file and holds a text twice; edits of one file, a nested checkout, and one asked for twice.

The proofs of section 4 need none of these bounds.

**Deadlock.** `CHECK_DEADLOCK FALSE` stands in every config because every one of these programs ends.

**Fairness.** `Stages`, `Harness`, `Recursion` and `TreeChecks` assume weak fairness of their whole next-state
relation and nothing of single actions: the code is one thread, every subprocess it waits for has a timeout after
which it is killed (`build.py`, `stages.py:71`), and the walk waits for nothing; so a step that can be taken is
taken. Which outcome a subprocess has is never assumed. `Mutants` assumes weak fairness of `main` and of the pool's
jobs together, since the operating system schedules threads and git and the harness end; it assumes nothing of
`Commit`, and none of one job over another. `Apply` and `Workflow` state no fairness (a worker may stop, a job may
be cancelled) and claim no liveness; the readers and `Claims` claim none either.

**Environment assumptions**, each in the module that makes it. `Apply`: the worker runs steps in order, on a tree
that is clean but for them, and a patch sees only dates of its own subcycle, as the tool's docstring asks. Whether git's
checks hold follows from the dates a patch sees and from the later steps that rewrite a line of its hunks, both given with
the plan; a later step that rewrites no such line leaves them as they were, and git's failing after a check is a choice. `IrScan`: LLVM's verifier accepts what is scanned (`WellFormed`: bodies do not nest, a call
is in a body and of a declared or defined symbol), and no exported symbol is an intrinsic. `Harness`: an entry's
directories list a file once -- a manifest whose `paths` overlap would have a unit judged twice, and the history
`observed` could then not say which verdict it stands for. `TreeChecks`: what an import names is a
file of the tree or none, and no row of S-6 is the prelude's (`TreesAssumption`); a layer may declare what the layers it may
import may (`TablesAgree`, as SAFETY.md's S-6 and BUILD.md's B-17 have it), on which `RaisedWhereListed` rests,
with a tree that compiles and that declares each name in one file. `Decls`: git lists a path once (`SourcesAssumption`). `Manifest`: no pattern
takes an empty name, and no stage or kind is an array (`ManifestAssumption`). `Mutants`: no edit of a mutant writes what
another edit of it replaces (`EditsApart`, true of `mutants.tsv`), the table is well formed and the variable `A` is set (the run ends
before the pool otherwise), and nobody else writes in the directory of the copies.

## 4. What is proved

TLAPS checks the following for every value of the constants under the named assumptions
(`ConstantsAssumption`, `BuildAssumption`, `StagesAssumption`, `HarnessAssumption`, `RecursionAssumption`, `ApplyAssumption`,
`WorkflowAssumption`, `MarkersAssumption`, `ManifestAssumption`, `IrScanAssumption`, `MutantsAssumption`, `SourcesAssumption`,
`TasksAssumption`, `TreesAssumption`: types of the parameters and distinctness of the marks that stand for "nothing"; and
`TablesAgree` and `EditsApart` above. TLC evaluates each on the instances, and `RowsAssumption` too, which no proof uses:
it says what a line of `Claims` may be).

- **`StagesProofs`.** `TypeCorrect`; `ProgramsAreOwed`, `StaleProgramIsMet`, `FloorComesFirst`,
  `FloorIsAskedOnce`. `ProgramOwed` speaks only of a moment, the one after a verdict, and is not inductive. `IInv` adds what
  holds between: `LegShown` (a leg of the `Build` object is what its subprocesses showed), `BuildInv` (where a build
  stands, which legs are still unseen), `RunsKept` (the exits the code keeps are the runs there were) and `Waiting`
  (why a unit waits for its verdict, and what that reason implies of the history). Each verdict action then follows
  from `Waiting` and the table.
  `DiagnosticsAreOwed` and `StaleMarkersAreMet` are the same of check units and the sweep, from `ShownInv`: nothing is
  shown before a unit is taken, and while the sweep is under way (`Swept`) the files shown are the first of its
  entry's, and `bad` is empty exactly while all of them parse. `SeenLinesAreJudged` needs no strengthening but the types.
  `SuitesImplementJudgement` is the refinement `Stages` ⇒ `Judgement`. Its invariant `Placed` says that the files
  not reached are the end of the entry's list and the unit at hand the one before them; the mapping takes the
  place in the list to the abstract counter, and each of `Stages`' steps is a stutter, `JudgeNext`, `PassOver` or `NextEntry`.
- **`HarnessProofs`.** `HarnessTypes`, `StatusIsTrue`, `SelfCheckFirst`, and `RunImplementsGate`, the refinement
  `Harness` ⇒ `Gate`: green is earned. `HarnessInv` has, besides types and the order of the phases: `NotYet`
  (what a step is for is unknown before it, so nothing is found twice), `Accounted` (a full run has found it after
  it), `Matched` (a line of the list is seen by a unit that it could excuse), and `Truthful` (the two lists hold
  something exactly when something was found unmet). GREEN follows because at the report `Accounted` leaves
  nothing unknown and `Truthful` nothing unmet. With `SuitesImplementJudgement`, what is proved here over
  `Judgement`'s steps holds of the suites of `stages.py`.
- **`TreeChecksProofs`, the walk.** `RecursionTypes`, `OnlyCyclesReported`, `SilenceIsAcyclic`, `DepthIsBounded`,
  `NoKnotEscapes`. `WalkInv` says that the path is a chain of calls without repetition, that its members are exactly those
  marked 1, and that a function marked 2 came back after all it calls, unless a cycle was reported. That is enough for
  silence, and too little for knots: a report must not excuse the rest of the tree. `KnotInv` therefore says of each
  function on the path that a callee its loop is past has returned or is the next on the path, or else the function is in a reported knot
  (`PastLoop`), and of each that returned that its knot, if it is in one, is reported (`Knots`). The step that needs an
  argument is a walk's return: a function that can reach itself does so through some callee, by `ReachFirst`, which is in the
  same knot; its loop is past that callee, so the knot is reported already. A cycle whose functions were noted before is not
  reported again, and `SeenReported` has the earlier report stand for it.
- **`TreeChecksProofs`, the checks.** `BlankingIsExact`, `LinesAreTheFiles`, `PassingTreesKeepTheTables`,
  `ErrorsStayInTheirLayers`, for texts of any length, any tree and any content of the tables. `Reading` is the invariant of
  the blanking loop: it stands in the code, or at the end of a line comment's line, and what it has given is the
  text's code and blanks. Each turn of the loop keeps it by one lemma for its lexeme (`LineCommentKept`, `BlockCommentKept`,
  `LiteralKept`, `CodeKept`), which follow the mode of the reference, `Modes`, to the end the code's search finds (`FindIs`,
  `LiteralEndIs`). `TreeInv` adds what each check has found in the files it is past (`Past`), and the theorems are read
  off it at the end: a tree without findings has none of any file (`AllPast`). `RaisedWhereListed` then follows through the
  file a raise is taken for: it is the one that declares the name, so the import table and `TablesAgree` carry its layer's row to
  the layer that raises.
- **`MutantsProofs`.** `EditsAreItsOwn`, `StopsHaveCauses`, `EndsAreWhole`, `PoolIsKept`, for any table whose edits are
  apart, any trees and any number of threads. The directory of the copies is shared, so the invariant first says
  whose a copy is: `Owned` (a job at work in its copy has one) and `Apart` (no two jobs at work have one
  name). `Based` then ties each copy to the tree its job took and to the edits it has made (`EditedBy`), and the
  two lemmas that carry it are about one edit: `NextPlaces` (what the next edit replaces stands where the tree
  has it, unless an edit before it took it) and `ReplaceMakes` (replacing it makes the copy that of one edit more).
- **`RoadmapProofs`.** `ApplyTypes`, `DateIsOne`, `RefusalsHaveCause`, `LabelsAreHeld`, for any plan, number of days and
  number of kills; `ApplyInv` carries the day the tool holds between reading and writing the date file. A step is refused with
  the date on record only for a later step that has rewritten a line of its hunks: the dates alone never refuse it.
  `NamesHaveOneDeclarer`, for any sources and any list: `MineIs`, `OutsideIs` and `ListedIs` say of each part of what
  `decls` reports when it is empty, and `NoFaultIsPass` that together they are empty exactly when each name has its one declaration.
- **`RoadmapProofs`, the claims.** `CandidatesAreTheClaims`, `StaleLinesExcuseNothing`, `StatusOfClaimsIsTrue`, for files of any
  number and length, any rows and any list. `ProseIs` gives the lines cut: what the fence's state is after a line is the parity
  of the fences up to it. While a file is cut, `CutIs` says that the paragraph begun is the lines that the reference has
  together with the last one read (`Begun`), and that those flushed are whole paragraphs, in order, that miss no line
  (`CutTo`); `CutStep` keeps both, a step for each kind of line. Of a file cut whole, `SentenceIs` and `BeforeIs` give the
  sentences, `OpensIs` and `BeneathIs` the note that opens the next block (two paragraphs have one block number exactly
  when no parting line is between them), `CarriedIs` the four places of a correction, and `CandidatesAre` puts them together: a
  file's candidates are the claims of `ClaimAt`, carried by what is `Near` when sections are told by their heading's text.
  `NearIs` then parts that into what the header says, the section the claim stands in, and what the code adds, a namesake of it:
  without namesakes of its section, a claim is carried exactly as the header has it. Over the rows, `ClaimsInv` says that what is found is
  the claims of the files judged so far (`FoundIs`), that a listed line is used exactly when it is the first to hold a bare
  one of them (`UsedIs`), and that the faults are those of the rows ended (`FaultsAre`), which a later row cannot change since it uses
  only its own listed lines. TLC checked `ClaimsInv` over the states of `MCClaims` before it was proved.
- **`WorkflowProofs`.** `WorkflowTypes`, `GreenIsProof`, `CacheStaysChecked`, for any number of jobs; `WorkflowInv` says
  at which step a job has asserted what, and that each cache entry is of the content its key names.
- **`ReadersProofs`.** `MarkersTypes`, `NothingDefaulted`, `LastMarkerWins`, `ErrorsAreWritten`, for files of any length.
  `ManifestAcceptsTheRules` and `ManifestLosesNothing`, for manifests of any length: `ManifestInv` says that what is held is
  what the lines read so far give, each key under the table or entry its line stands in, that a refusal or an
  exception has a line or an entry that breaks a rule, and that no line or entry passed breaks one.
- **`IrScanProofs`.** `IrScanTypes`, `ScanIsExact`, `SilenceIsClean`, for texts of any length.

**Induction.** What a text says is defined along it: the mode of a lexeme follows from the one before. The library's
induction theorems have an operator as a parameter, which the provers do not instantiate; `LeastNat` and `ByOnes` of
`TreeChecksProofs` and `RoadmapProofs` are the same for a set of numbers, from the well-foundedness of strict inclusion among finite sets
(`FS_StrictSubsetOrderingWellFounded`), and `ModesAre`, `FindIs` and `LiteralEndIs` say with them what the recursive
functions `Modes` and `LiteralEnd` and the search `Find` compute; `ProseIs`, `PartsGrow` and `JointUnder` are the same of
`Claims`' fences, blocks and headings. Reachability of calls is defined by closed sets
(`Reaches`), so `NoKnotEscapes` needs no induction at all.

**Only model-checked.** Liveness (`Ends`, `RunEnds`, `TreeEnds`, `PoolEnds`) and anything about ENABLED, which the
provers at hand do not reach. Every other property of a passing run is proved. The four violations are TLC's.

## 5. Not modelled

- `toolchain.py`, `elf.py`: version questions and a parser of tables, whose outcomes are choices of `Harness`
  and `IrScan`. The self-check's cases plant text in copies of the tree; `Harness` keeps that all must be red.
- Exceptions in the middle of a unit (a file of the compiler's that is missing or no ELF object, `build.py:79`): `Build` and
  `Stages` go on from what a subprocess left, and `Harness` has the exception, as `Uncaught`, which ends the run with no
  verdict for the unit.
- `claims.py`: the STOP of a table that is malformed or names a decision without a number (`tsv`, `expand`), before any file is
  judged. `mutants.py`: an edited file that is no UTF-8 text, which ends its job as `Fail` does.
- `claims.py control`: it plants texts in copies and asks the two checks modelled about each, as the self-check does.
- `cites.py`, `sweep.py`, `shapes.py`, `across.py` and the other survey tools: reports over documents or over two pins,
  one pass each, in which what matters is what a regular expression takes a line for; nothing another part reads.
- `blocks.py`: it keeps each block's output in a file from `run` to `compare`, so an output of an earlier day is compared
  as one of today; its text promises nothing of that, and the plans run the two together.
- The scripts of single subcycles and the step patches: they measured or wrote something once.
- The library: placeholders. The probes: programs in another language, whose outcomes are the suites' inputs.

## 6. Plan

Done, in the order of importance: `Observations`, `Build`, `Stages` and its proofs; `Gate`, `Judgement`,
`Harness`; `Recursion`, `Apply`, `Workflow`, `Manifest`, `Markers`, `IrScan`; the refinements `Stages` ⇒ `Judgement`
and `Harness` ⇒ `Gate`; then `Lexical` and `TreeChecks`, which compose the tree checks, `Decls` and `Claims`, and
`Mutants` with its proofs; the proofs of `Manifest`, of `TreeChecks` and its two parts, of `Decls` and of `Claims`.

Open:

1. The self-check's live cases as plants in a copy of the tree that `TreeChecks` then reddens.
