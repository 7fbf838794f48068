------------------------------ MODULE Workflow ------------------------------
(***************************************************************************)
(* .github/workflows/ci.yml: jobs that run at once over caches they share. *)
(* A job takes its pins from the commit it runs for, restores or installs  *)
(* LLVM and the compiler, asserts what it has against the pins, and runs   *)
(* the harness.  A step that fails ends the job.                           *)
(*                                                                         *)
(* Content is its digest.  An LLVM tree is the digest of the tarball it is *)
(* from, and reports the version of that; a build of the compiler keeps    *)
(* the commit it is from and the digest of its emission, npkc.ll.          *)
(***************************************************************************)
EXTENDS Integers, FiniteSets

CONSTANTS
  Jobs,
  Pins,        \* what a commit of this repository pins: [commit, emission, version, tarball]
  Commits, Emissions, Versions, Tarballs,
  Reports,     \* the version that the tools of each tarball report
  None

ASSUME WorkflowAssumption ==
  /\ Pins \subseteq [commit : Commits, emission : Emissions, version : Versions, tarball : Tarballs]
  /\ Reports \in [Tarballs -> Versions]
  /\ None \notin Tarballs

VARIABLES
  pins,       \* each job's
  pc,         \* each job's step
  checkout,   \* the compiler's tree: [commit, clean]
  tree,       \* ~/llvm
  build,      \* .nitpick/.internal/quickemit
  hits,       \* the caches whose exact key a job found
  summary,    \* the last line of the harness's log
  llvmCache,  \* the trees saved, by key
  npkcCache   \* the builds saved, by key

workflowVars == <<pins, pc, checkout, tree, build, hits, summary, llvmCache, npkcCache>>
caches == <<llvmCache, npkcCache>>

\* Mutant: the key names the version only.
LlvmKeyVersion(p) == <<p.version>>

LlvmKey(p) == <<p.version, p.tarball>>
NpkcKey(p) == <<p.commit, p.version>>

Checkouts == [commit : Commits, clean : BOOLEAN]
Builds == [commit : Commits, emission : Emissions]

Init ==
  /\ pins \in [Jobs -> Pins]
  /\ pc = [j \in Jobs |-> "queued"]
  /\ checkout = [j \in Jobs |-> None] /\ tree = [j \in Jobs |-> None] /\ build = [j \in Jobs |-> None]
  /\ hits = [j \in Jobs |-> {}] /\ summary = [j \in Jobs |-> None]
  /\ llvmCache = [k \in {} |-> None] /\ npkcCache = [k \in {} |-> None]

Goto(j, from, to) == pc[j] = from /\ pc' = [pc EXCEPT ![j] = to]

\* actions/checkout with a ref should give the commit; what it gives is asserted.
CheckOut(j) ==
  /\ Goto(j, "queued", "pin")
  /\ \E c \in Checkouts : checkout' = [checkout EXCEPT ![j] = c]
  /\ UNCHANGED <<pins, tree, build, hits, summary, caches>>

AssertPin(j) ==
  /\ Goto(j, "pin", "llvm")
  /\ checkout[j].commit = pins[j].commit /\ checkout[j].clean
  /\ UNCHANGED <<pins, checkout, tree, build, hits, summary, caches>>

RestoreLlvm(j) ==
  /\ pc[j] = "llvm"
  /\ LET key == LlvmKey(pins[j])
     IN IF key \in DOMAIN llvmCache
        THEN /\ tree' = [tree EXCEPT ![j] = llvmCache[key]]
             /\ hits' = [hits EXCEPT ![j] = @ \cup {"llvm"}]
        ELSE UNCHANGED <<tree, hits>>
  /\ pc' = [pc EXCEPT ![j] = "install"]
  /\ UNCHANGED <<pins, checkout, build, summary, caches>>

\* Mutant: the tarball is unpacked unchecked.
Sha256Unchecked(j, t) == TRUE

Sha256Holds(j, t) == t = pins[j].tarball

\* Any asset may come down under the release's name.
InstallLlvm(j) ==
  /\ Goto(j, "install", "version")
  /\ IF "llvm" \in hits[j] THEN UNCHANGED tree
     ELSE \E t \in Tarballs : Sha256Holds(j, t) /\ tree' = [tree EXCEPT ![j] = t]
  /\ UNCHANGED <<pins, checkout, build, hits, summary, caches>>

AssertVersion(j) ==
  /\ Goto(j, "version", "npkc")
  /\ Reports[tree[j]] = pins[j].version
  /\ UNCHANGED <<pins, checkout, tree, build, hits, summary, caches>>

RestoreNpkc(j) ==
  /\ pc[j] = "npkc"
  /\ LET key == NpkcKey(pins[j])
     IN IF key \in DOMAIN npkcCache
        THEN /\ build' = [build EXCEPT ![j] = npkcCache[key]]
             /\ hits' = [hits EXCEPT ![j] = @ \cup {"npkc"}]
        ELSE UNCHANGED <<build, hits>>
  /\ pc' = [pc EXCEPT ![j] = "build"]
  /\ UNCHANGED <<pins, checkout, tree, summary, caches>>

\* External: quickemit.py builds the checkout, and may emit anything.
BuildNpkc(j) ==
  /\ Goto(j, "build", "emission")
  /\ IF "npkc" \in hits[j] THEN UNCHANGED build
     ELSE \E e \in Emissions :
            build' = [build EXCEPT ![j] = [commit |-> checkout[j].commit, emission |-> e]]
  /\ UNCHANGED <<pins, checkout, tree, hits, summary, caches>>

EmissionHolds(j) == build[j].emission = pins[j].emission

AssertEmission(j) ==
  /\ Goto(j, "emission", "harness") /\ EmissionHolds(j)
  /\ UNCHANGED <<pins, checkout, tree, build, hits, summary, caches>>

SummaryGreen(last) == last = "GREEN"

\* The harness exits 0, and its last line is the unqualified green one.
RunHarness(j) ==
  /\ Goto(j, "harness", "save npkc")
  /\ \E last \in {"GREEN", "FILTERED", "cut short"} :
       SummaryGreen(last) /\ summary' = [summary EXCEPT ![j] = last]
  /\ UNCHANGED <<pins, checkout, tree, build, hits, caches>>

Saved(cache, key, content) ==
  [k \in DOMAIN cache \cup {key} |-> IF k \in DOMAIN cache THEN cache[k] ELSE content]

\* After the last step of a job that succeeded, what missed is saved under its key, unless another job
\* has saved one by then: an entry never changes.
SaveNpkc(j) ==
  /\ Goto(j, "save npkc", "save llvm")
  /\ \/ "npkc" \notin hits[j] /\ npkcCache' = Saved(npkcCache, NpkcKey(pins[j]), build[j])
     \/ UNCHANGED npkcCache
  /\ UNCHANGED <<pins, checkout, tree, build, hits, summary, llvmCache>>

SaveLlvm(j) ==
  /\ Goto(j, "save llvm", "green")
  /\ \/ "llvm" \notin hits[j] /\ llvmCache' = Saved(llvmCache, LlvmKey(pins[j]), tree[j])
     \/ UNCHANGED llvmCache
  /\ UNCHANGED <<pins, checkout, tree, build, hits, summary, npkcCache>>

Running(j) == pc[j] \in {"queued", "pin", "llvm", "install", "version", "npkc", "build", "emission", "harness"}

\* A step fails -- an assertion, a download, a build, a harness that is not green -- or the hour is over.
Fail(j) ==
  /\ Running(j)
  /\ pc' = [pc EXCEPT ![j] = "red"]
  /\ UNCHANGED <<pins, checkout, tree, build, hits, summary, caches>>

\* External: the service drops an entry.
Evict ==
  /\ \/ \E k \in DOMAIN llvmCache :
          llvmCache' = [l \in DOMAIN llvmCache \ {k} |-> llvmCache[l]] /\ UNCHANGED npkcCache
     \/ \E k \in DOMAIN npkcCache :
          npkcCache' = [l \in DOMAIN npkcCache \ {k} |-> npkcCache[l]] /\ UNCHANGED llvmCache
  /\ UNCHANGED <<pins, pc, checkout, tree, build, hits, summary>>

Next ==
  \/ \E j \in Jobs :
       \/ CheckOut(j) \/ AssertPin(j) \/ RestoreLlvm(j) \/ InstallLlvm(j) \/ AssertVersion(j)
       \/ RestoreNpkc(j) \/ BuildNpkc(j) \/ AssertEmission(j) \/ RunHarness(j)
       \/ SaveNpkc(j) \/ SaveLlvm(j) \/ Fail(j)
  \/ Evict

Spec == Init /\ [][Next]_workflowVars

-----------------------------------------------------------------------------
(* Properties. *)

TypeOK ==
  /\ pins \in [Jobs -> Pins]
  /\ pc \in [Jobs -> {"queued", "pin", "llvm", "install", "version", "npkc", "build", "emission",
                      "harness", "save npkc", "save llvm", "green", "red"}]
  /\ checkout \in [Jobs -> Checkouts \cup {None}]
  /\ tree \in [Jobs -> Tarballs \cup {None}] /\ build \in [Jobs -> Builds \cup {None}]
  /\ hits \in [Jobs -> SUBSET {"llvm", "npkc"}]
  /\ summary \in [Jobs -> {None, "GREEN", "FILTERED", "cut short"}]
  /\ \A k \in DOMAIN llvmCache : llvmCache[k] \in Tarballs
  /\ \A k \in DOMAIN npkcCache : npkcCache[k] \in Builds

Succeeded(j) == pc[j] \in {"save npkc", "save llvm", "green"}

\* ci.yml's "WHAT A GREEN RUN PROVES", whichever of its inputs other jobs left in the caches: the checkout
\* is the pinned commit, clean; the compiler is built from it and its emission is the pin's; LLVM is the
\* tree of the pinned tarball; and the harness's last line is its unqualified green one.
GreenProves ==
  \A j \in Jobs : Succeeded(j) =>
    /\ checkout[j] = [commit |-> pins[j].commit, clean |-> TRUE]
    /\ build[j] = [commit |-> pins[j].commit, emission |-> pins[j].emission]
    /\ tree[j] = pins[j].tarball /\ Reports[tree[j]] = pins[j].version
    /\ summary[j] = "GREEN"

\* A tree in the cache is the one its key's digest names.
CacheIsChecked == \A p \in Pins : LlvmKey(p) \in DOMAIN llvmCache => llvmCache[LlvmKey(p)] = p.tarball
=============================================================================
