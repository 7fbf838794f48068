--------------------------- MODULE WorkflowProofs ---------------------------
(***************************************************************************)
(* For any number of jobs, any pins and any caches they leave each other:  *)
(* a job that succeeded had what its own pins name.                        *)
(***************************************************************************)
EXTENDS Workflow, TLAPS

(* The inductive invariant, in named parts: what a job knows after each step. *)

FromEmission == {"harness", "save npkc", "save llvm", "green"}
FromBuild == FromEmission \cup {"emission"}
FromVersion == FromBuild \cup {"npkc", "build"}
FromInstall == FromVersion \cup {"version"}
FromPin == FromInstall \cup {"llvm", "install"}

Pinned(j) ==
  /\ pc[j] = "pin" => checkout[j] \in Checkouts
  /\ pc[j] \in FromPin => checkout[j] = [commit |-> pins[j].commit, clean |-> TRUE]
TreePinned(j) ==
  /\ pc[j] \in FromInstall \/ "llvm" \in hits[j] => tree[j] = pins[j].tarball
  /\ pc[j] \in FromVersion => Reports[tree[j]] = pins[j].version
BuildPinned(j) ==
  /\ pc[j] \in FromBuild \/ "npkc" \in hits[j] =>
       build[j] \in Builds /\ build[j].commit = pins[j].commit
  /\ pc[j] \in FromEmission => build[j].emission = pins[j].emission
SummarySeen(j) == Succeeded(j) => summary[j] = "GREEN"

JobInv(j) == Pinned(j) /\ TreePinned(j) /\ BuildPinned(j) /\ SummarySeen(j)

\* A build in the cache is of the commit its key names.
CacheIsBuilt ==
  \A p \in Pins : NpkcKey(p) \in DOMAIN npkcCache => npkcCache[NpkcKey(p)].commit = p.commit

CachesInv == CacheIsChecked /\ CacheIsBuilt

WorkflowInv == TypeOK /\ (\A j \in Jobs : JobInv(j)) /\ CachesInv

-----------------------------------------------------------------------------
\* No job and an empty cache.
LEMMA WorkflowInit == Init => WorkflowInv
<1> SUFFICES ASSUME Init PROVE WorkflowInv
  OBVIOUS
<1>1. TypeOK
  BY DEF Init, TypeOK
<1>2. \A j \in Jobs : JobInv(j)
  BY DEF Init, JobInv, Pinned, TreePinned, BuildPinned, SummarySeen, Succeeded, FromPin, FromInstall,
     FromVersion, FromBuild, FromEmission
<1>3. CachesInv
  BY DEF Init, CachesInv, CacheIsChecked, CacheIsBuilt
<1> QED
  BY <1>1, <1>2, <1>3 DEF WorkflowInv

\* A job that a step leaves as it was keeps what it knows.
LEMMA OtherJob ==
  ASSUME NEW i \in Jobs, JobInv(i),
         pins' = pins, pc'[i] = pc[i], checkout'[i] = checkout[i], tree'[i] = tree[i],
         build'[i] = build[i], hits'[i] = hits[i], summary'[i] = summary[i]
  PROVE  JobInv(i)'
  BY DEF JobInv, Pinned, TreePinned, BuildPinned, SummarySeen, Succeeded

\* The pins of a job are a record of their types.
LEMMA PinTypes ==
  ASSUME TypeOK, NEW j \in Jobs
  PROVE  /\ pins[j] \in Pins /\ pins[j].commit \in Commits /\ pins[j].emission \in Emissions
         /\ pins[j].version \in Versions /\ pins[j].tarball \in Tarballs
<1>1. pins[j] \in Pins
  BY DEF TypeOK
<1>2. pins[j] \in [commit : Commits, emission : Emissions, version : Versions, tarball : Tarballs]
  BY <1>1, WorkflowAssumption
<1> QED
  BY <1>1, <1>2

\* The steps from the checkout to the harness: the caches stay, and the job at hand learns.
LEMMA SetupInv ==
  ASSUME WorkflowInv, NEW j \in Jobs, CheckOut(j) \/ AssertPin(j)
  PROVE  WorkflowInv'
<1>1. UNCHANGED <<pins, tree, build, hits, summary, llvmCache, npkcCache>>
  BY DEF CheckOut, AssertPin, caches
<1>2. TypeOK'
  <2>1. TypeOK
    BY DEF WorkflowInv
  <2>2. checkout' \in [Jobs -> Checkouts \cup {None}]
    BY <2>1 DEF TypeOK, CheckOut, AssertPin
  <2>3. pc' \in [Jobs -> {"queued", "pin", "llvm", "install", "version", "npkc", "build", "emission",
                         "harness", "save npkc", "save llvm", "green", "red"}]
    BY <2>1 DEF TypeOK, CheckOut, AssertPin, Goto
  <2>4. QED BY <1>1, <2>1, <2>2, <2>3 DEF TypeOK
<1>3. JobInv(j)'
  <2>1. Pinned(j)'
    <3>1. CASE CheckOut(j)
      BY <1>1, <3>1 DEF WorkflowInv, TypeOK, CheckOut, Goto, Pinned, FromPin, FromInstall, FromVersion,
         FromBuild, FromEmission
    <3>2. CASE AssertPin(j)
      <4>1. checkout[j] \in Checkouts /\ checkout[j].commit = pins[j].commit /\ checkout[j].clean = TRUE
        BY <3>2 DEF WorkflowInv, JobInv, Pinned, AssertPin, Goto, Checkouts
      <4>2. checkout[j] = [commit |-> pins[j].commit, clean |-> TRUE]
        BY <4>1 DEF Checkouts
      <4> QED
        BY <1>1, <3>2, <4>2 DEF WorkflowInv, TypeOK, AssertPin, Goto, Pinned
    <3> QED
      BY <3>1, <3>2
  <2>2. TreePinned(j)' /\ BuildPinned(j)' /\ SummarySeen(j)'
    BY <1>1 DEF WorkflowInv, TypeOK, CheckOut, AssertPin, Goto, JobInv, TreePinned, BuildPinned,
       SummarySeen, Succeeded, FromInstall, FromVersion, FromBuild, FromEmission
  <2> QED
    BY <2>1, <2>2 DEF JobInv
<1>4. \A i \in Jobs \ {j} : JobInv(i)'
  BY <1>1, OtherJob DEF WorkflowInv, TypeOK, CheckOut, AssertPin, Goto
<1>5. CachesInv'
  BY <1>1 DEF WorkflowInv, CachesInv, CacheIsChecked, CacheIsBuilt
<1> QED
  BY <1>2, <1>3, <1>4, <1>5 DEF WorkflowInv

\* A job restores LLVM, or does not find it.
LEMMA RestoreLlvmInv ==
  ASSUME WorkflowInv, NEW j \in Jobs, RestoreLlvm(j)
  PROVE  WorkflowInv'
<1> DEFINE key == LlvmKey(pins[j])
<1>1. UNCHANGED <<pins, checkout, build, summary, llvmCache, npkcCache>> /\ pc[j] = "llvm"
  BY DEF RestoreLlvm, caches
<1>2. pc' = [pc EXCEPT ![j] = "install"]
  BY DEF RestoreLlvm
<1>3. key \in DOMAIN llvmCache => llvmCache[key] = pins[j].tarball
  BY PinTypes DEF WorkflowInv, CachesInv, CacheIsChecked
<1>4. \/ /\ key \in DOMAIN llvmCache
         /\ tree' = [tree EXCEPT ![j] = llvmCache[key]] /\ hits' = [hits EXCEPT ![j] = @ \cup {"llvm"}]
      \/ tree' = tree /\ hits' = hits
  BY DEF RestoreLlvm
<1> HIDE DEF key
<1>9. tree \in [Jobs -> Tarballs \cup {None}] /\ hits \in [Jobs -> SUBSET {"llvm", "npkc"}]
  BY DEF WorkflowInv, TypeOK
<1>10. key \in DOMAIN llvmCache => llvmCache[key] \in Tarballs
  BY DEF WorkflowInv, TypeOK
<1>5. TypeOK'
  <2>1. tree' \in [Jobs -> Tarballs \cup {None}] /\ hits' \in [Jobs -> SUBSET {"llvm", "npkc"}]
    BY <1>4, <1>9, <1>10
  <2> QED
    BY <1>1, <1>2, <2>1 DEF WorkflowInv, TypeOK
<1>6. JobInv(j)'
  <2>1. "llvm" \in hits'[j] => tree'[j] = pins[j].tarball
    BY <1>3, <1>4, <1>9 DEF WorkflowInv, JobInv, TreePinned
  <2>2. "npkc" \in hits'[j] => "npkc" \in hits[j]
    BY <1>4, <1>9
  <2>3. pc'[j] = "install"
    BY <1>2 DEF WorkflowInv, TypeOK
  <2> QED
    BY <1>1, <2>1, <2>2, <2>3 DEF WorkflowInv, JobInv, Pinned, TreePinned,
       BuildPinned, SummarySeen, Succeeded, FromPin, FromInstall, FromVersion, FromBuild, FromEmission
<1>7. \A i \in Jobs \ {j} : JobInv(i)'
  BY <1>1, <1>2, <1>4, OtherJob DEF WorkflowInv, TypeOK
<1>8. CachesInv'
  BY <1>1 DEF WorkflowInv, CachesInv, CacheIsChecked, CacheIsBuilt
<1> QED
  BY <1>5, <1>6, <1>7, <1>8 DEF WorkflowInv

\* A job downloads LLVM, unpacks what its digest allows, and asserts its version.
LEMMA InstallLlvmInv ==
  ASSUME WorkflowInv, NEW j \in Jobs, InstallLlvm(j) \/ AssertVersion(j)
  PROVE  WorkflowInv'
<1>1. UNCHANGED <<pins, checkout, build, hits, summary, llvmCache, npkcCache>>
  BY DEF InstallLlvm, AssertVersion, caches
<1>2. TypeOK'
  <2>1. TypeOK
    BY DEF WorkflowInv
  <2>2. tree' \in [Jobs -> Tarballs \cup {None}]
    BY <2>1 DEF TypeOK, InstallLlvm, AssertVersion
  <2>3. pc' \in [Jobs -> {"queued", "pin", "llvm", "install", "version", "npkc", "build", "emission",
                         "harness", "save npkc", "save llvm", "green", "red"}]
    BY <2>1 DEF TypeOK, InstallLlvm, AssertVersion, Goto
  <2>4. QED BY <1>1, <2>1, <2>2, <2>3 DEF TypeOK
<1>3. JobInv(j)'
  BY <1>1 DEF WorkflowInv, TypeOK, InstallLlvm, AssertVersion, Sha256Holds, Goto, JobInv, Pinned,
     TreePinned, BuildPinned, SummarySeen, Succeeded, FromPin, FromInstall, FromVersion, FromBuild,
     FromEmission
<1>4. \A i \in Jobs \ {j} : JobInv(i)'
  BY <1>1, OtherJob DEF WorkflowInv, TypeOK, InstallLlvm, AssertVersion, Goto
<1>5. CachesInv'
  BY <1>1 DEF WorkflowInv, CachesInv, CacheIsChecked, CacheIsBuilt
<1> QED
  BY <1>2, <1>3, <1>4, <1>5 DEF WorkflowInv

\* A job restores the compiler.
LEMMA RestoreNpkcInv ==
  ASSUME WorkflowInv, NEW j \in Jobs, RestoreNpkc(j)
  PROVE  WorkflowInv'
<1> DEFINE key == NpkcKey(pins[j])
<1>1. UNCHANGED <<pins, checkout, tree, summary, llvmCache, npkcCache>> /\ pc[j] = "npkc"
  BY DEF RestoreNpkc, caches
<1>2. pc' = [pc EXCEPT ![j] = "build"]
  BY DEF RestoreNpkc
<1>3. key \in DOMAIN npkcCache =>
        npkcCache[key] \in Builds /\ npkcCache[key].commit = pins[j].commit
  BY PinTypes DEF WorkflowInv, TypeOK, CachesInv, CacheIsBuilt
<1>4. \/ /\ key \in DOMAIN npkcCache
         /\ build' = [build EXCEPT ![j] = npkcCache[key]] /\ hits' = [hits EXCEPT ![j] = @ \cup {"npkc"}]
      \/ build' = build /\ hits' = hits
  BY DEF RestoreNpkc
<1> HIDE DEF key
<1>9. build \in [Jobs -> Builds \cup {None}] /\ hits \in [Jobs -> SUBSET {"llvm", "npkc"}]
  BY DEF WorkflowInv, TypeOK
<1>10. key \in DOMAIN npkcCache => npkcCache[key] \in Builds
  BY DEF WorkflowInv, TypeOK
<1>5. TypeOK'
  <2>1. build' \in [Jobs -> Builds \cup {None}] /\ hits' \in [Jobs -> SUBSET {"llvm", "npkc"}]
    BY <1>4, <1>9, <1>10
  <2> QED
    BY <1>1, <1>2, <2>1 DEF WorkflowInv, TypeOK
<1>6. JobInv(j)'
  BY <1>1, <1>2, <1>3, <1>4 DEF WorkflowInv, TypeOK, JobInv, Pinned, TreePinned,
     BuildPinned, SummarySeen, Succeeded, FromPin, FromInstall, FromVersion, FromBuild, FromEmission
<1>7. \A i \in Jobs \ {j} : JobInv(i)'
  BY <1>1, <1>2, <1>4, OtherJob DEF WorkflowInv, TypeOK
<1>8. CachesInv'
  BY <1>1 DEF WorkflowInv, CachesInv, CacheIsChecked, CacheIsBuilt
<1> QED
  BY <1>5, <1>6, <1>7, <1>8 DEF WorkflowInv

\* A job builds the compiler, asserts its emission and runs the harness.
LEMMA BuildNpkcInv ==
  ASSUME WorkflowInv, NEW j \in Jobs, BuildNpkc(j) \/ AssertEmission(j) \/ RunHarness(j)
  PROVE  WorkflowInv'
<1>1. UNCHANGED <<pins, checkout, tree, hits, llvmCache, npkcCache>>
  BY DEF BuildNpkc, AssertEmission, RunHarness, caches
<1>2. checkout[j].commit = pins[j].commit /\ pins[j].commit \in Commits
  <2>1. pc[j] \in FromPin
    BY DEF FromPin, FromInstall, FromVersion, FromBuild, FromEmission, BuildNpkc, AssertEmission,
       RunHarness, Goto
  <2>2. checkout[j] = [commit |-> pins[j].commit, clean |-> TRUE]
    BY <2>1 DEF WorkflowInv, JobInv, Pinned
  <2> QED
    BY <2>2, PinTypes DEF WorkflowInv
<1>7. ASSUME BuildNpkc(j), "npkc" \notin hits[j]
      PROVE  /\ build' \in [Jobs -> Builds \cup {None}] /\ build'[j] \in Builds
             /\ build'[j].commit = pins[j].commit
  <2>1. PICK e \in Emissions :
          build' = [build EXCEPT ![j] = [commit |-> checkout[j].commit, emission |-> e]]
    BY <1>7 DEF BuildNpkc
  <2>2. [commit |-> checkout[j].commit, emission |-> e] \in Builds
    BY <1>2 DEF Builds
  <2>3. build'[j] = [commit |-> checkout[j].commit, emission |-> e]
    BY <2>1 DEF WorkflowInv, TypeOK
  <2> QED
    BY <1>2, <2>1, <2>2, <2>3 DEF WorkflowInv, TypeOK
<1>8. ASSUME BuildNpkc(j) \/ AssertEmission(j) \/ RunHarness(j), ~BuildNpkc(j) \/ "npkc" \in hits[j]
      PROVE  build' = build
  BY <1>8 DEF BuildNpkc, AssertEmission, RunHarness
<1>3. TypeOK'
  <2>1. build' \in [Jobs -> Builds \cup {None}]
    BY <1>7, <1>8 DEF WorkflowInv, TypeOK
  <2>2. TypeOK
    BY DEF WorkflowInv
  <2>3. summary' \in [Jobs -> {None, "GREEN", "FILTERED", "cut short"}]
    BY <2>2 DEF TypeOK, BuildNpkc, AssertEmission, RunHarness
  <2>4. pc' \in [Jobs -> {"queued", "pin", "llvm", "install", "version", "npkc", "build", "emission",
                         "harness", "save npkc", "save llvm", "green", "red"}]
    BY <2>2 DEF TypeOK, BuildNpkc, AssertEmission, RunHarness, Goto
  <2> QED
    BY <1>1, <2>1, <2>2, <2>3, <2>4 DEF TypeOK
<1>4. JobInv(j)'
  <2>1. CASE BuildNpkc(j)
    <3>1. build'[j] \in Builds /\ build'[j].commit = pins[j].commit
      BY <2>1, <1>7, <1>8 DEF WorkflowInv, JobInv, BuildPinned
    <3> QED
      BY <1>1, <2>1, <3>1 DEF WorkflowInv, TypeOK, BuildNpkc, Goto, JobInv, Pinned, TreePinned,
         BuildPinned, SummarySeen, Succeeded, FromPin, FromInstall, FromVersion, FromBuild, FromEmission
  <2>2. CASE AssertEmission(j)
    BY <1>1, <2>2 DEF WorkflowInv, TypeOK, AssertEmission, EmissionHolds, Goto, JobInv, Pinned,
       TreePinned, BuildPinned, SummarySeen, Succeeded, FromPin, FromInstall, FromVersion, FromBuild,
       FromEmission
  <2>3. CASE RunHarness(j)
    BY <1>1, <2>3 DEF WorkflowInv, TypeOK, RunHarness, SummaryGreen, Goto, JobInv, Pinned, TreePinned,
       BuildPinned, SummarySeen, Succeeded, FromPin, FromInstall, FromVersion, FromBuild, FromEmission
  <2> QED
    BY <2>1, <2>2, <2>3
<1>5. \A i \in Jobs \ {j} : JobInv(i)'
  BY <1>1, OtherJob DEF WorkflowInv, TypeOK, BuildNpkc, AssertEmission, RunHarness, Goto
<1>6. CachesInv'
  BY <1>1 DEF WorkflowInv, CachesInv, CacheIsChecked, CacheIsBuilt
<1> QED
  BY <1>3, <1>4, <1>5, <1>6 DEF WorkflowInv

\* A save, or a failure: no job learns anything.
LEMMA LastStepsKeep ==
  ASSUME WorkflowInv, NEW j \in Jobs, SaveNpkc(j) \/ SaveLlvm(j) \/ Fail(j)
  PROVE  \A i \in Jobs : JobInv(i)'
<1>1. UNCHANGED <<pins, checkout, tree, build, hits, summary>>
  BY DEF SaveNpkc, SaveLlvm, Fail
<1>2. JobInv(j)'
  BY <1>1 DEF WorkflowInv, TypeOK, SaveNpkc, SaveLlvm, Fail, Goto, JobInv, Pinned, TreePinned,
     BuildPinned, SummarySeen, Succeeded, FromPin, FromInstall, FromVersion, FromBuild, FromEmission
<1>3. \A i \in Jobs \ {j} : JobInv(i)'
  BY <1>1, OtherJob DEF WorkflowInv, TypeOK, SaveNpkc, SaveLlvm, Fail, Goto
<1> QED
  BY <1>2, <1>3

\* What a cache holds after a save.
LEMMA SavedFacts ==
  ASSUME NEW cache, NEW key, NEW content, NEW k \in DOMAIN Saved(cache, key, content)
  PROVE  \/ k \in DOMAIN cache /\ Saved(cache, key, content)[k] = cache[k]
         \/ k = key /\ Saved(cache, key, content)[k] = content
  BY DEF Saved

\* A job saves the compiler.
LEMMA SaveNpkcInv ==
  ASSUME WorkflowInv, NEW j \in Jobs, SaveNpkc(j)
  PROVE  WorkflowInv'
<1> DEFINE key == NpkcKey(pins[j])
<1>1. /\ UNCHANGED <<pins, checkout, tree, build, hits, summary, llvmCache>>
      /\ npkcCache' = npkcCache \/ npkcCache' = Saved(npkcCache, key, build[j])
      /\ pc[j] = "save npkc"
  BY DEF SaveNpkc, Goto
<1>2. build[j] \in Builds /\ build[j].commit = pins[j].commit
  BY <1>1 DEF WorkflowInv, JobInv, BuildPinned, FromBuild, FromEmission
<1>3. \A k \in DOMAIN npkcCache' :
        \/ k \in DOMAIN npkcCache /\ npkcCache'[k] = npkcCache[k]
        \/ k = key /\ npkcCache'[k] = build[j]
  <2> HIDE DEF key
  <2>1. CASE npkcCache' = npkcCache
    BY <2>1
  <2>2. CASE npkcCache' = Saved(npkcCache, key, build[j])
    BY <2>2, SavedFacts
  <2> QED
    BY <2>1, <2>2, <1>1
<1>4. TypeOK'
  BY <1>1, <1>2, <1>3 DEF WorkflowInv, TypeOK, SaveNpkc, Goto
<1>5. CacheIsBuilt'
  <2> SUFFICES ASSUME NEW p \in Pins, NpkcKey(p) \in DOMAIN npkcCache'
               PROVE  npkcCache'[NpkcKey(p)].commit = p.commit
    BY DEF CacheIsBuilt, NpkcKey
  <2>1. CASE NpkcKey(p) \in DOMAIN npkcCache /\ npkcCache'[NpkcKey(p)] = npkcCache[NpkcKey(p)]
    BY <2>1 DEF WorkflowInv, CachesInv, CacheIsBuilt
  <2>2. CASE NpkcKey(p) = key /\ npkcCache'[NpkcKey(p)] = build[j]
    <3>1. p.commit = pins[j].commit
      BY <2>2 DEF NpkcKey
    <3> QED
      BY <2>2, <3>1, <1>2
  <2> QED
    BY <2>1, <2>2, <1>3
<1>6. CacheIsChecked'
  BY <1>1 DEF WorkflowInv, CachesInv, CacheIsChecked
<1> QED
  BY <1>4, <1>5, <1>6, LastStepsKeep DEF WorkflowInv, CachesInv

\* A job saves LLVM.
LEMMA SaveLlvmInv ==
  ASSUME WorkflowInv, NEW j \in Jobs, SaveLlvm(j)
  PROVE  WorkflowInv'
<1> DEFINE key == LlvmKey(pins[j])
<1>1. /\ UNCHANGED <<pins, checkout, tree, build, hits, summary, npkcCache>>
      /\ llvmCache' = llvmCache \/ llvmCache' = Saved(llvmCache, key, tree[j])
      /\ pc[j] = "save llvm"
  BY DEF SaveLlvm, Goto
<1>2. tree[j] = pins[j].tarball /\ pins[j].tarball \in Tarballs
  BY <1>1, PinTypes DEF WorkflowInv, JobInv, TreePinned, FromInstall, FromVersion, FromBuild, FromEmission
<1>3. \A k \in DOMAIN llvmCache' :
        \/ k \in DOMAIN llvmCache /\ llvmCache'[k] = llvmCache[k]
        \/ k = key /\ llvmCache'[k] = tree[j]
  <2> HIDE DEF key
  <2>1. CASE llvmCache' = llvmCache
    BY <2>1
  <2>2. CASE llvmCache' = Saved(llvmCache, key, tree[j])
    BY <2>2, SavedFacts
  <2> QED
    BY <2>1, <2>2, <1>1
<1>4. TypeOK'
  BY <1>1, <1>2, <1>3 DEF WorkflowInv, TypeOK, SaveLlvm, Goto
<1>5. CacheIsChecked'
  <2> SUFFICES ASSUME NEW p \in Pins, LlvmKey(p) \in DOMAIN llvmCache'
               PROVE  llvmCache'[LlvmKey(p)] = p.tarball
    BY DEF CacheIsChecked, LlvmKey
  <2>1. CASE LlvmKey(p) \in DOMAIN llvmCache /\ llvmCache'[LlvmKey(p)] = llvmCache[LlvmKey(p)]
    BY <2>1 DEF WorkflowInv, CachesInv, CacheIsChecked
  <2>2. CASE LlvmKey(p) = key /\ llvmCache'[LlvmKey(p)] = tree[j]
    <3>1. p.tarball = pins[j].tarball
      BY <2>2 DEF LlvmKey
    <3> QED
      BY <2>2, <3>1, <1>2
  <2> QED
    BY <2>1, <2>2, <1>3
<1>6. CacheIsBuilt'
  BY <1>1 DEF WorkflowInv, CachesInv, CacheIsBuilt
<1> QED
  BY <1>4, <1>5, <1>6, LastStepsKeep DEF WorkflowInv, CachesInv

\* A job fails, and saves nothing.
LEMMA FailInv ==
  ASSUME WorkflowInv, NEW j \in Jobs, Fail(j)
  PROVE  WorkflowInv'
<1>1. TypeOK'
  BY DEF WorkflowInv, TypeOK, Fail, caches
<1>2. CachesInv'
  BY DEF WorkflowInv, CachesInv, CacheIsChecked, CacheIsBuilt, Fail, caches
<1> QED
  BY <1>1, <1>2, LastStepsKeep DEF WorkflowInv

\* Dropping an entry, or nothing at all.
LEMMA EvictInv == WorkflowInv /\ (Evict \/ UNCHANGED workflowVars) => WorkflowInv'
<1> SUFFICES ASSUME WorkflowInv, Evict \/ UNCHANGED workflowVars PROVE WorkflowInv'
  OBVIOUS
<1>1. /\ UNCHANGED <<pins, pc, checkout, tree, build, hits, summary>>
      /\ DOMAIN llvmCache' \subseteq DOMAIN llvmCache
      /\ \A k \in DOMAIN llvmCache' : llvmCache'[k] = llvmCache[k]
      /\ DOMAIN npkcCache' \subseteq DOMAIN npkcCache
      /\ \A k \in DOMAIN npkcCache' : npkcCache'[k] = npkcCache[k]
  BY DEF Evict, workflowVars
<1>2. TypeOK'
  BY <1>1 DEF WorkflowInv, TypeOK
<1>3. \A i \in Jobs : JobInv(i)'
  BY <1>1, OtherJob DEF WorkflowInv
<1>4. CachesInv'
  BY <1>1 DEF WorkflowInv, CachesInv, CacheIsChecked, CacheIsBuilt, LlvmKey, NpkcKey
<1> QED
  BY <1>2, <1>3, <1>4 DEF WorkflowInv

\* The inductive invariant holds in every run.
LEMMA WorkflowInvariant == Spec => []WorkflowInv
<1>1. Init => WorkflowInv
  BY WorkflowInit
<1>2. WorkflowInv /\ [Next]_workflowVars => WorkflowInv'
  BY SetupInv, RestoreLlvmInv, InstallLlvmInv, RestoreNpkcInv, BuildNpkcInv, SaveNpkcInv, SaveLlvmInv,
     FailInv, EvictInv DEF Next
<1> QED
  BY <1>1, <1>2, PTL DEF Spec

\* Every variable of the jobs and of the caches stays in its type.
THEOREM WorkflowTypes == Spec => []TypeOK
BY WorkflowInvariant, PTL DEF WorkflowInv

\* Whatever jobs ran before or run at once, whatever they saved and whatever was dropped: a job that
\* succeeds had the pinned commit, its emission, the pinned LLVM, and the harness's green summary.
THEOREM GreenIsProof == Spec => []GreenProves
<1>1. WorkflowInv => GreenProves
  <2> SUFFICES ASSUME WorkflowInv, NEW j \in Jobs, Succeeded(j)
               PROVE  /\ checkout[j] = [commit |-> pins[j].commit, clean |-> TRUE]
                      /\ build[j] = [commit |-> pins[j].commit, emission |-> pins[j].emission]
                      /\ tree[j] = pins[j].tarball /\ Reports[tree[j]] = pins[j].version
                      /\ summary[j] = "GREEN"
    BY DEF GreenProves
  <2>1. JobInv(j)
    BY DEF WorkflowInv
  <2>2. build[j] \in Builds /\ build[j].commit = pins[j].commit /\ build[j].emission = pins[j].emission
    BY <2>1 DEF JobInv, BuildPinned, Succeeded, FromBuild, FromEmission
  <2>3. build[j] = [commit |-> pins[j].commit, emission |-> pins[j].emission]
    BY <2>2 DEF Builds
  <2>4. checkout[j] = [commit |-> pins[j].commit, clean |-> TRUE]
    BY <2>1 DEF JobInv, Pinned, Succeeded, FromPin, FromInstall, FromVersion, FromBuild, FromEmission
  <2>5. tree[j] = pins[j].tarball /\ Reports[tree[j]] = pins[j].version
    BY <2>1 DEF JobInv, TreePinned, Succeeded, FromInstall, FromVersion, FromBuild, FromEmission
  <2> QED
    BY <2>1, <2>3, <2>4, <2>5 DEF JobInv, SummarySeen
<1> QED
  BY <1>1, WorkflowInvariant, PTL

\* Whatever jobs fail or succeed, a cached LLVM is the tree of the tarball its key's digest names.
THEOREM CacheStaysChecked == Spec => []CacheIsChecked
<1>1. WorkflowInv => CacheIsChecked
  BY DEF WorkflowInv, CachesInv
<1> QED
  BY <1>1, WorkflowInvariant, PTL
=============================================================================
