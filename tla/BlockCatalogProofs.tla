------------------------- MODULE BlockCatalogProofs --------------------------
(***************************************************************************)
(* Proofs about BlockCatalog, for any libraries, blocks and reports: type  *)
(* correctness, that the catalog holds sound reports only, that what is    *)
(* browsed does not depend on the order of the blocks, what holds of a     *)
(* server that serves, and whom to blame if it cannot prepare sessions.    *)
(*                                                                         *)
(* The inductive invariant says how far main has come (Progress), where    *)
(* every block found so far comes from (Origin), and that the child, until *)
(* its end is known to be bad, and the descriptors collected agree with    *)
(* what the children reported (Reported); the descriptors are finitely     *)
(* many, so that they can be sorted.                                       *)
(*                                                                         *)
(* What the loop of BrowseBlocks computes is proved by induction on its    *)
(* turns (Induction, on sets of numbers): the fold is a sequence of turns  *)
(* (LoopIsTurns, TurnsExist, TurnsAre), a turn keeps ListsBest             *)
(* (ListedKeepsBest), in whatever order the blocks come (LoopListsBest),   *)
(* and both comparisons are strict total orders, so that there is one best *)
(* block of each type (BestAreTheSame) and the sort is defined.            *)
(***************************************************************************)
EXTENDS BlockCatalog, FiniteSetTheorems, WellFoundedInduction, TLAPS

Early == {"staging", "initialising"}
Late  == {"forking", "reading", "schedulers", "serving"}

\* What main has found sound so far, and filled.
Progress ==
    /\ main \notin {"staging", "exited"} => support = "good"
    /\ main # "exited" => \A l \in Shared \ untried : condition[l] # "init throws"
    /\ main = "staging" => untried = Shared
    /\ main \in Late => untried = {} /\ FailedPlugins = {}
    /\ main \in Early => descriptors = <<>> /\ queue = {}
    /\ main \in {"schedulers", "serving"} =>
          cache = Catalog(descriptors) /\ DOMAIN descriptors # {}
    /\ main \in Early \cup {"forking", "reading"} => cache = Unfilled
    /\ main = "serving" => schedulers = Alias
    /\ environment # "untried" => main = "serving"
    /\ environment = "failed" =>
          \E l \in Shared \cup Unlisted : condition[l] # "good"

\* A block is found in a library that was loaded.
FromSound(b, libs) == \E l \in libs : b \in Provides[l] /\ condition[l] = "good"
Origin ==
    /\ \A b \in registry : FromSound(b, Shared)
    /\ main # "exited" =>
          \A b \in queue \cup DOMAIN descriptors : FromSound(b, Plugin \cup Shared)

\* What the child of b reports is in clean unless its end is bad.
Reported ==
    /\ queue \cap DOMAIN descriptors = {}
    /\ child.sent # "nothing" => child.descriptor \in Descriptor
    /\ main = "reading" /\ child.sent = "all" /\ child.end \in {"running", "exit 0"} =>
          \A b \in Block : Reflecting(b) =>
              b \in DOMAIN clean /\ clean[b] = child.descriptor
    /\ \A b \in DOMAIN descriptors :
          b \in DOMAIN clean /\ clean[b] = descriptors[b]

CatalogInv ==
    TypeOK /\ Progress /\ Origin /\ Reported /\ IsFiniteSet(DOMAIN descriptors)

LEMMA EmptyFunction == DOMAIN <<>> = {}
OBVIOUS

LEMMA InitInv == Init => CatalogInv
<1> SUFFICES ASSUME Init PROVE CatalogInv
    OBVIOUS
<1> USE DEF Init
<1>1. TypeOK
    BY EmptyFunction DEF TypeOK, Child, NoChild
<1>2. Progress
    BY DEF Progress, Early, Late
<1>3. Origin
    BY EmptyFunction DEF Origin
<1>4. Reported
    BY EmptyFunction DEF Reported, NoChild
<1>5. IsFiniteSet(DOMAIN descriptors)
    BY EmptyFunction, FS_EmptySet
<1> QED
    BY <1>1, <1>2, <1>3, <1>4, <1>5 DEF CatalogInv

-----------------------------------------------------------------------------
\* The descriptor a child reports, which Collect takes over.
LEMMA CollectEffect ==
    ASSUME NEW b, Collect(b)
    PROVE  /\ main = "reading" /\ Reflecting(b) /\ child.end # "running"
           /\ queue' = queue \ {b} /\ main' = "forking" /\ child' = NoChild
           /\ child'.sent = "nothing" /\ UNCHANGED clean
           /\ UNCHANGED <<libraries, untried, registry, cache, schedulers, environment, clean>>
           /\ \/ Sound /\ descriptors' = With(descriptors, b, child.descriptor)
              \/ UNCHANGED descriptors
<1>1. NoChild.sent = "nothing"
    BY DEF NoChild
<1> QED
    BY <1>1 DEF Collect, Skip

LEMMA TypeStep == TypeOK /\ Progress /\ Reported /\ [Next]_vars => TypeOK'
<1> SUFFICES ASSUME TypeOK, Progress, Reported, [Next]_vars PROVE TypeOK'
    OBVIOUS
<1> USE CatalogAssumption DEF TypeOK, Library, libraries
<1>1. CASE Stage \/ EnsureRuntimeEnvironment
    BY <1>1 DEF Stage, EnsureRuntimeEnvironment
<1>2. CASE LoadPlugins
    BY <1>2 DEF LoadPlugins
<1>3. CASE FillCache
    BY <1>3 DEF FillCache
<1>4. CASE LoadSchedulers
    BY <1>4 DEF LoadSchedulers
<1>5. ASSUME NEW l \in Shared, Initialise(l) PROVE TypeOK'
    BY <1>5 DEF Initialise
<1>6. ASSUME NEW b \in Block, Fork(b) PROVE TypeOK'
  <2>1. NoChild \in Child /\ Forked \in Child
      BY DEF Child, NoChild, Forked
  <2> QED
      BY <1>6, <2>1 DEF Fork, Skip
<1>7. ASSUME NEW b \in Block, Collect(b) PROVE TypeOK'
  <2>1. NoChild \in Child
      BY DEF Child, NoChild
  <2>2. cache = Unfilled
      BY <1>7 DEF Collect, Progress
  <2>3. /\ DOMAIN descriptors' \subseteq Block
        /\ \A a \in DOMAIN descriptors' : descriptors'[a] \in Descriptor
    <3>1. CASE Sound /\ descriptors' = With(descriptors, b, child.descriptor)
      <4>1. child.descriptor \in Descriptor
          BY <3>1 DEF Sound, Reported
      <4> QED
          BY <3>1, <4>1 DEF With
    <3> QED
        BY <1>7, <3>1, CollectEffect
  <2>4. UNCHANGED clean
      BY <1>7, CollectEffect
  <2> QED
      BY <1>7, <2>1, <2>2, <2>3, <2>4, CollectEffect
<1>8. ASSUME NEW b \in Block, ChildSends(b) PROVE TypeOK'
  <2>1. PICK d \in Descriptor, sent \in {"part", "all"} :
            /\ child' = [child EXCEPT !.descriptor = d, !.sent = sent]
            /\ clean' = IF sent = "all" THEN With(clean, b, d) ELSE clean
      BY <1>8 DEF ChildSends
  <2>2. child' \in Child
      BY <2>1 DEF Child
  <2>3. /\ DOMAIN clean' \subseteq Block
        /\ \A a \in DOMAIN clean' : clean'[a] \in Descriptor
      BY <2>1 DEF With
  <2>4. UNCHANGED descriptors
      BY <1>8 DEF ChildSends
  <2> QED
      BY <1>8, <2>2, <2>3, <2>4 DEF ChildSends
<1>9. ASSUME NEW b \in Block, ChildEnds(b) PROVE TypeOK'
  <2>1. PICK end \in {"exit 0", "exit 2", "signal"} :
            /\ child' = [child EXCEPT !.end = end]
            /\ clean' = IF end = "exit 0" THEN clean
                        ELSE [a \in DOMAIN clean \ {b} |-> clean[a]]
      BY <1>9 DEF ChildEnds
  <2>2. child' \in Child
      BY <2>1 DEF Child
  <2>3. /\ DOMAIN clean' \subseteq Block
        /\ \A a \in DOMAIN clean' : clean'[a] \in Descriptor
      BY <2>1
  <2>4. UNCHANGED descriptors
      BY <1>9 DEF ChildEnds
  <2> QED
      BY <1>9, <2>2, <2>3, <2>4 DEF ChildEnds
<1>10. CASE UNCHANGED vars
    BY <1>10 DEF vars
<1> QED
    BY <1>1, <1>2, <1>3, <1>4, <1>5, <1>6, <1>7, <1>8, <1>9, <1>10
       DEF Next, MainStep, ChildStep

LEMMA ProgressStep == TypeOK /\ Progress /\ [Next]_vars => Progress'
<1> SUFFICES ASSUME TypeOK, Progress, [Next]_vars PROVE Progress'
    OBVIOUS
<1> USE DEF Progress, libraries, FailedPlugins, Early, Late
<1>1. CASE Stage
    BY <1>1 DEF Stage
<1>2. CASE LoadPlugins
    BY <1>2 DEF LoadPlugins
<1>3. CASE FillCache
    BY <1>3 DEF FillCache
<1>4. CASE LoadSchedulers
    BY <1>4 DEF LoadSchedulers
<1>5. ASSUME NEW l \in Shared, Initialise(l) PROVE Progress'
    BY <1>5 DEF Initialise
<1>6. ASSUME NEW b \in Block, Fork(b) PROVE Progress'
    BY <1>6 DEF Fork, Skip
<1>7. ASSUME NEW b \in Block, Collect(b) PROVE Progress'
    BY <1>7, CollectEffect
<1>8. ASSUME NEW b \in Block, ChildSends(b) \/ ChildEnds(b) PROVE Progress'
  <2>1. UNCHANGED <<condition, support, main, untried, queue, descriptors, cache,
                    schedulers, environment>>
      BY <1>8 DEF ChildSends, ChildEnds
  <2> QED
      BY <2>1
<1>9. CASE EnsureRuntimeEnvironment
    BY <1>9 DEF EnsureRuntimeEnvironment
<1>10. CASE UNCHANGED vars
    BY <1>10 DEF vars
<1> QED
    BY <1>1, <1>2, <1>3, <1>4, <1>5, <1>6, <1>7, <1>8, <1>9, <1>10
       DEF Next, MainStep, ChildStep

LEMMA OriginStep == TypeOK /\ Progress /\ Origin /\ [Next]_vars => Origin'
<1> SUFFICES ASSUME TypeOK, Progress, Origin, [Next]_vars PROVE Origin'
    OBVIOUS
<1> USE DEF Origin, FromSound, libraries
<1>1. CASE /\ UNCHANGED <<condition, registry, queue, descriptors>>
           /\ main = "exited" => main' = "exited"
    BY <1>1
<1>2. CASE Stage \/ FillCache \/ LoadSchedulers \/ EnsureRuntimeEnvironment
    BY <1>1, <1>2 DEF Stage, FillCache, LoadSchedulers, EnsureRuntimeEnvironment
<1>3. CASE LoadPlugins
  <2>1. /\ queue' = registry \cup UNION {Provides[l] : l \in Plugin}
        /\ descriptors = <<>>
        /\ UNCHANGED <<condition, registry, descriptors>>
      BY <1>3 DEF LoadPlugins, Progress, Early
  <2>2. main' # "exited" => FailedPlugins = {}
      BY <1>3 DEF LoadPlugins
  <2>3. \A b \in queue' \cup DOMAIN descriptors' :
            b \in registry \/ \E l \in Plugin : b \in Provides[l]
      BY <2>1, EmptyFunction
  <2>4. FailedPlugins = {} => \A l \in Plugin : condition[l] = "good"
      BY DEF FailedPlugins
  <2> QED
      BY <2>1, <2>2, <2>3, <2>4
<1>4. ASSUME NEW l \in Shared, Initialise(l) PROVE Origin'
    BY <1>4 DEF Initialise
<1>5. ASSUME NEW b \in Block, Fork(b) PROVE Origin'
    BY <1>5 DEF Fork, Skip
<1>6. ASSUME NEW b \in Block, Collect(b) PROVE Origin'
  <2>1. /\ queue' \cup DOMAIN descriptors' \subseteq queue \cup DOMAIN descriptors
        /\ UNCHANGED <<condition, registry>> /\ main # "exited"
      BY <1>6, CollectEffect DEF Reflecting, With
  <2> QED
      BY <2>1
<1>7. ASSUME NEW b \in Block, ChildSends(b) \/ ChildEnds(b) PROVE Origin'
  <2>1. UNCHANGED <<condition, main, registry, queue, descriptors>>
      BY <1>7 DEF ChildSends, ChildEnds
  <2> QED
      BY <1>1, <2>1
<1>8. CASE UNCHANGED vars
    BY <1>1, <1>8 DEF vars
<1> QED
    BY <1>2, <1>3, <1>4, <1>5, <1>6, <1>7, <1>8 DEF Next, MainStep, ChildStep

\* One block at a time is reflected: the first that is queued.
LEMMA FirstInQueue ==
    ASSUME NEW a \in Block, NEW b \in Block, Reflecting(a), Reflecting(b)
    PROVE  a = b
<1>1. a \in Nat /\ b \in Nat /\ a <= b /\ b <= a
    BY CatalogAssumption DEF Reflecting
<1> QED
    BY <1>1

LEMMA ReportedStep == TypeOK /\ Progress /\ Reported /\ [Next]_vars => Reported'
<1> SUFFICES ASSUME TypeOK, Progress, Reported, [Next]_vars PROVE Reported'
    OBVIOUS
<1> USE DEF libraries
<1>1. CASE /\ UNCHANGED <<queue, descriptors, child, clean>>
           /\ main' = "reading" => main = "reading"
    BY <1>1 DEF Reported, Reflecting
<1>2. CASE Stage \/ FillCache \/ LoadSchedulers \/ EnsureRuntimeEnvironment
    BY <1>1, <1>2 DEF Stage, FillCache, LoadSchedulers, EnsureRuntimeEnvironment
<1>3. CASE LoadPlugins
    BY <1>3, EmptyFunction DEF LoadPlugins, Progress, Early, Reported
<1>4. ASSUME NEW l \in Shared, Initialise(l) PROVE Reported'
    BY <1>1, <1>4 DEF Initialise
<1>5. ASSUME NEW b \in Block, Fork(b) PROVE Reported'
  <2>1. child'.sent = "nothing"
    <3>1. child' = NoChild \/ child' = Forked
        BY <1>5 DEF Fork, Skip
    <3>2. NoChild \in [descriptor : {NoType}, sent : {"nothing"}, end : {"exit 0"}]
        BY DEF NoChild
    <3> QED
        BY <3>1, <3>2 DEF Forked
  <2>2. queue' \subseteq queue /\ UNCHANGED <<descriptors, clean>>
      BY <1>5 DEF Fork, Skip
  <2> QED
      BY <2>1, <2>2 DEF Reported
<1>6. ASSUME NEW b \in Block, Collect(b) PROVE Reported'
  <2>1. main' # "reading" /\ child'.sent = "nothing" /\ UNCHANGED clean
      BY <1>6, CollectEffect
  <2>2. b \in queue /\ queue' = queue \ {b}
      BY <1>6, CollectEffect DEF Reflecting
  <2>3. CASE UNCHANGED descriptors
      BY <2>1, <2>2, <2>3 DEF Reported
  <2>4. CASE Sound /\ descriptors' = With(descriptors, b, child.descriptor)
    <3>1. b \in DOMAIN clean /\ clean[b] = child.descriptor
        BY <1>6, <2>4, CollectEffect DEF Sound, Reported
    <3> QED
        BY <2>1, <2>2, <2>4, <3>1 DEF Reported, With
  <2> QED
      BY <1>6, <2>3, <2>4, CollectEffect
<1>7. ASSUME NEW b \in Block, ChildSends(b) \/ ChildEnds(b) PROVE Reported'
  <2>1. Reflecting(b) /\ b \in queue /\ b \notin DOMAIN descriptors
      BY <1>7 DEF ChildSends, ChildEnds, Reflecting, Reported
  <2>2. UNCHANGED <<main, queue, descriptors>>
      BY <1>7 DEF ChildSends, ChildEnds
  <2>3. \A a \in Block : Reflecting(a)' => a = b
      BY <2>1, <2>2, FirstInQueue DEF Reflecting
  <2>4. ASSUME ChildSends(b) PROVE Reported'
    <3>1. PICK d \in Descriptor, sent \in {"part", "all"} :
              /\ child' = [child EXCEPT !.descriptor = d, !.sent = sent]
              /\ clean' = IF sent = "all" THEN With(clean, b, d) ELSE clean
        BY <2>4 DEF ChildSends
    <3>2. child'.descriptor = d /\ child'.sent = sent
        BY <3>1 DEF TypeOK, Child
    <3>3. /\ sent = "all" => b \in DOMAIN clean' /\ clean'[b] = d
          /\ \A a \in DOMAIN clean \ {b} : a \in DOMAIN clean' /\ clean'[a] = clean[a]
        BY <3>1 DEF With
    <3> QED
        BY <2>1, <2>2, <2>3, <3>2, <3>3 DEF Reported
  <2>5. ASSUME ChildEnds(b) PROVE Reported'
    <3>1. PICK end \in {"exit 0", "exit 2", "signal"} :
              /\ child' = [child EXCEPT !.end = end]
              /\ clean' = IF end = "exit 0" THEN clean
                          ELSE [a \in DOMAIN clean \ {b} |-> clean[a]]
        BY <2>5 DEF ChildEnds
    <3>2. /\ child'.descriptor = child.descriptor /\ child'.sent = child.sent
          /\ child'.end = end /\ child.end = "running"
        BY <2>5, <3>1 DEF TypeOK, Child, ChildEnds
    <3>3. /\ end = "exit 0" => clean' = clean
          /\ \A a \in DOMAIN clean \ {b} : a \in DOMAIN clean' /\ clean'[a] = clean[a]
        BY <3>1
    <3> QED
        BY <2>1, <2>2, <2>3, <3>2, <3>3 DEF Reported
  <2> QED
      BY <1>7, <2>4, <2>5
<1>8. CASE UNCHANGED vars
    BY <1>1, <1>8 DEF vars
<1> QED
    BY <1>2, <1>3, <1>4, <1>5, <1>6, <1>7, <1>8 DEF Next, MainStep, ChildStep

LEMMA FiniteStep ==
    IsFiniteSet(DOMAIN descriptors) /\ [Next]_vars => IsFiniteSet(DOMAIN descriptors')
<1> SUFFICES ASSUME IsFiniteSet(DOMAIN descriptors), [Next]_vars
             PROVE  IsFiniteSet(DOMAIN descriptors')
    OBVIOUS
<1>1. ASSUME NEW b \in Block, Collect(b) PROVE IsFiniteSet(DOMAIN descriptors')
  <2>1. DOMAIN descriptors' = DOMAIN descriptors \cup {b} \/ UNCHANGED descriptors
      BY <1>1, CollectEffect DEF With
  <2> QED
      BY <2>1, FS_AddElement
<1>2. ASSUME NEW b \in Block, Fork(b) PROVE UNCHANGED descriptors
    BY <1>2 DEF Fork, Skip
<1> QED
    BY <1>1, <1>2 DEF Next, MainStep, ChildStep, Stage, Initialise, LoadPlugins, FillCache,
       LoadSchedulers, ChildSends, ChildEnds, EnsureRuntimeEnvironment, vars

LEMMA Invariance == Spec => []CatalogInv
<1>1. CatalogInv /\ [Next]_vars => CatalogInv'
    BY TypeStep, ProgressStep, OriginStep, ReportedStep, FiniteStep DEF CatalogInv
<1> QED
    BY InitInv, <1>1, PTL DEF Spec

-----------------------------------------------------------------------------
\* Every variable has its type; the cache is empty or the catalog of what was
\* reflected (cached_catalog).
THEOREM TypeCorrect == Spec => []TypeOK
<1>1. CatalogInv => TypeOK
    BY DEF CatalogInv
<1> QED
    BY Invariance, <1>1, PTL

LEMMA CachedBlocks ==
    TypeOK => DOMAIN cache.exact = {} \/ cache.exact = descriptors
<1>1. Unfilled.exact = <<>> /\ Catalog(descriptors).exact = descriptors
    BY DEF Unfilled, Catalog
<1> QED
    BY <1>1, EmptyFunction DEF TypeOK

\* A block is served with what a child reported that had sent all of it and
\* ended in order (reflect_block_in_subprocess).
THEOREM OnlySoundReports == Spec => []CatalogHoldsSoundReports
<1>1. CatalogInv => CatalogHoldsSoundReports
    BY CachedBlocks DEF CatalogInv, Reported, CatalogHoldsSoundReports
<1> QED
    BY Invariance, <1>1, PTL

\* A server that serves has both catalogs and found no broken plugin, no broken
\* support library and no init function that throws (main).
THEOREM SoundStart == Spec => []ServesAfterASoundStart
<1>1. ASSUME CatalogInv, main = "serving" PROVE cache.exact = descriptors
  <2>1. cache = Catalog(descriptors)
      BY <1>1 DEF CatalogInv, Progress
  <2>2. Catalog(descriptors).exact = descriptors
      BY DEF Catalog
  <2> QED
      BY <2>1, <2>2
<1>2. ASSUME CatalogInv, main = "serving"
      PROVE  /\ DOMAIN descriptors # {} /\ schedulers = Alias
             /\ support = "good" /\ FailedPlugins = {} /\ untried = {}
    BY <1>2 DEF CatalogInv, Progress, Late
<1>3. ASSUME CatalogInv, main = "serving"
      PROVE  \A l \in Shared : condition[l] # "init throws"
    BY <1>2, <1>3 DEF CatalogInv, Progress
<1>4. CatalogInv => ServesAfterASoundStart
    BY <1>1, <1>2, <1>3, CatalogAssumption DEF ServesAfterASoundStart
<1> QED
    BY Invariance, <1>4, PTL

\* Whom to blame if a server that has started can prepare no session
\* (ensure_runtime_environment).
THEOREM BlameIsFound == Spec => []RuntimeFailsForPassedOver
<1>1. ASSUME CatalogInv, environment = "failed"
      PROVE  \E l \in Shared \cup Unlisted :
                 /\ l \in Unlisted \/ condition[l] = "unloadable"
                 /\ condition[l] # "good"
                 /\ \A b \in Provides[l] \cap DOMAIN cache.exact :
                       \E k \in (Plugin \cup Shared) \ {l} :
                           b \in Provides[k] /\ condition[k] = "good"
  <2>1. PICK l \in Shared \cup Unlisted : condition[l] # "good"
      BY <1>1 DEF CatalogInv, Progress
  <2>2. l \in Unlisted \/ condition[l] = "unloadable"
      BY <1>1, <2>1 DEF CatalogInv, Progress, Late, TypeOK, Library
  <2>3. \A b \in DOMAIN cache.exact :
            \E k \in (Plugin \cup Shared) \ {l} :
                b \in Provides[k] /\ condition[k] = "good"
      BY <1>1, <2>1, CachedBlocks DEF CatalogInv, Progress, Origin, FromSound
  <2> QED
      BY <2>1, <2>2, <2>3
<1>2. CatalogInv => RuntimeFailsForPassedOver
    BY <1>1 DEF RuntimeFailsForPassedOver
<1> QED
    BY Invariance, <1>2, PTL

-----------------------------------------------------------------------------
(* What is listed.                                                          *)

\* What the two sorts and the loop over a catalog d rely on.
Described(d) ==
    /\ IsFiniteSet(DOMAIN d) /\ DOMAIN d \subseteq Block
    /\ \A b \in DOMAIN d : d[b] \in Descriptor

\* Both comparisons are strict total orders.
LEMMA BeforeIsAnOrder ==
    ASSUME NEW d, Described(d), NEW a \in DOMAIN d, NEW b \in DOMAIN d, NEW c \in DOMAIN d
    PROVE  /\ ~Before(d, a, a)
           /\ a = b \/ Before(d, a, b) \/ Before(d, b, a)
           /\ Before(d, a, b) /\ Before(d, b, c) => Before(d, a, c)
<1>1. \A x \in {a, b, c} : x \in Nat /\ d[x].category \in Nat /\ d[x].name \in Nat
    BY CatalogAssumption DEF Described
<1> QED
    BY <1>1 DEF Before

LEMMA BetterIsAnOrder ==
    ASSUME NEW d, Described(d), NEW a \in DOMAIN d, NEW b \in DOMAIN d, NEW c \in DOMAIN d
    PROVE  /\ ~Better(d, a, a)
           /\ a = b \/ Better(d, a, b) \/ Better(d, b, a)
           /\ Better(d, a, b) /\ Better(d, b, c) => Better(d, a, c)
<1>1. \A x \in {a, b, c} :
          x \in Nat /\ Length[x] \in Nat /\ d[x].category \in Nat /\ d[x].name \in Nat
    BY CatalogAssumption DEF Described
<1>2. \A x \in {a, b, c} : IsImplementation(d, x) \in BOOLEAN
    BY DEF IsImplementation
<1> QED
    BY <1>1, <1>2 DEF Better

\* A sorted sequence has each of the blocks, and each after those before it.
LEMMA SortedLists ==
    ASSUME NEW d, Described(d), NEW blocks, blocks \subseteq DOMAIN d
    PROVE  LET n == Cardinality(blocks)
               list == Sorted(d, blocks)
           IN  /\ n \in Nat /\ list \in [1 .. n -> blocks]
               /\ \A b \in blocks : \E i \in 1 .. n : list[i] = b
               /\ \A i, j \in 1 .. n : i < j => Before(d, list[i], list[j])
<1> DEFINE n == Cardinality(blocks)
           list == Sorted(d, blocks)
           Ahead(b) == {a \in blocks : Before(d, a, b)}
           place == [b \in blocks |-> Cardinality(Ahead(b)) + 1]
<1>1. IsFiniteSet(blocks) /\ n \in Nat
    BY FS_Subset, FS_CardinalityType DEF Described
<1>2. ASSUME NEW b \in blocks PROVE IsFiniteSet(Ahead(b)) /\ Cardinality(Ahead(b)) \in 0 .. n - 1
  <2>1. Ahead(b) \in SUBSET blocks /\ b \notin Ahead(b)
      BY BeforeIsAnOrder
  <2>2. IsFiniteSet(Ahead(b)) /\ Cardinality(Ahead(b)) <= n /\ Cardinality(Ahead(b)) # n
      BY <1>1, <2>1, FS_Subset
  <2>3. Cardinality(Ahead(b)) \in Nat
      BY <2>2, FS_CardinalityType
  <2> HIDE DEF Ahead, n
  <2> QED
      BY <1>1, <2>2, <2>3
<1>3. ASSUME NEW a \in blocks, NEW b \in blocks, Before(d, a, b)
      PROVE  Cardinality(Ahead(a)) < Cardinality(Ahead(b))
  <2>1. Ahead(a) \in SUBSET Ahead(b)
      BY <1>3, BeforeIsAnOrder
  <2>2. a \in Ahead(b) /\ a \notin Ahead(a)
      BY <1>3, BeforeIsAnOrder
  <2> HIDE DEF Ahead
  <2>3. /\ Cardinality(Ahead(a)) <= Cardinality(Ahead(b))
        /\ Cardinality(Ahead(a)) # Cardinality(Ahead(b))
      BY <1>2, <2>1, <2>2, FS_Subset
  <2> QED
      BY <1>2, <2>3
<1>4. \A a, b \in blocks : Cardinality(Ahead(a)) = Cardinality(Ahead(b)) => a = b
  <2> HIDE DEF Ahead
  <2> QED
      BY <1>2, <1>3, BeforeIsAnOrder
<1>5. place \in Injection(blocks, 1 .. n)
  <2> HIDE DEF Ahead, n
  <2>1. place \in [blocks -> 1 .. n]
      BY <1>1, <1>2
  <2>2. \A a, b \in blocks : place[a] = place[b] => a = b
      BY <1>2, <1>4
  <2> QED
      BY <2>1, <2>2 DEF Injection, IsInjective
<1>6. place \in Surjection(blocks, 1 .. n)
  <2>1. IsFiniteSet(1 .. n) /\ Cardinality(1 .. n) = n
      BY <1>1, FS_Interval
  <2> HIDE DEF place
  <2> QED
      BY <1>5, <2>1, FS_Injection
<1>7. ASSUME NEW i \in 1 .. n PROVE list[i] \in blocks /\ Cardinality(Ahead(list[i])) = i - 1
  <2>1. PICK b \in blocks : place[b] = i
    <3> HIDE DEF place
    <3> QED
        BY <1>6 DEF Surjection
  <2>2. Cardinality(Ahead(b)) = i - 1
    <3> HIDE DEF Ahead, n
    <3> QED
        BY <1>1, <1>2, <2>1
  <2>3. list[i] = CHOOSE a \in blocks : Cardinality(Ahead(a)) = i - 1
      BY DEF Sorted
  <2> HIDE DEF Ahead, list
  <2> QED
      BY <2>2, <2>3
<1>8. list \in [1 .. n -> blocks]
    BY <1>7 DEF Sorted
<1>9. ASSUME NEW b \in blocks PROVE \E i \in 1 .. n : list[i] = b
  <2> DEFINE i == Cardinality(Ahead(b)) + 1
  <2> HIDE DEF Ahead, list, n
  <2>1. i \in 1 .. n /\ i - 1 = Cardinality(Ahead(b))
      BY <1>1, <1>2
  <2>2. list[i] \in blocks /\ Cardinality(Ahead(list[i])) = Cardinality(Ahead(b))
      BY <1>7, <2>1
  <2> QED
      BY <1>4, <2>1, <2>2
<1>10. ASSUME NEW i \in 1 .. n, NEW j \in 1 .. n, i < j PROVE Before(d, list[i], list[j])
  <2> HIDE DEF Ahead, list, n
  <2>1. /\ list[i] \in blocks /\ Cardinality(Ahead(list[i])) = i - 1
        /\ list[j] \in blocks /\ Cardinality(Ahead(list[j])) = j - 1
      BY <1>7
  <2>2. i - 1 < j - 1 /\ ~(j - 1 < i - 1) /\ i - 1 # j - 1
      BY <1>1, <1>10
  <2> QED
      BY <1>3, <2>1, <2>2, BeforeIsAnOrder
<1> HIDE DEF list, n
<1> QED
    BY <1>1, <1>8, <1>9, <1>10 DEF list, n

-----------------------------------------------------------------------------
(* Numbers, and the loop over the sorted blocks.                            *)

LEMMA Smallest ==
    ASSUME NEW S, S \subseteq Nat, S # {}
    PROVE  \E k \in S : \A j \in S : k <= j
<1>1. \E k \in S : \A j \in S : <<j, k>> \notin OpToRel(<, Nat)
    BY NatLessThanWellFounded, WFMin
<1>2. PICK k \in S : \A j \in S : <<j, k>> \notin OpToRel(<, Nat)
    BY <1>1
<1>3. \A j \in S : ~ (j < k)
    BY <1>2 DEF OpToRel
<1> QED
    BY <1>3

\* Induction, on a set of numbers.
LEMMA Induction ==
    ASSUME NEW S, 0 \in S, \A k \in Nat : k \in S => k + 1 \in S
    PROVE  Nat \subseteq S
<1> SUFFICES ASSUME Nat \ S # {} PROVE FALSE
    OBVIOUS
<1>1. PICK k \in Nat \ S : \A j \in Nat \ S : k <= j
    BY Smallest
<1>2. k # 0 /\ k - 1 \in Nat /\ k - 1 \in S
    BY <1>1
<1> QED
    BY <1>1, <1>2

LEMMA LastOf ==
    ASSUME NEW k \in Nat, NEW t, t \subseteq 1 .. k, t # {}
    PROVE  Max(t) \in t /\ \A i \in t : Max(t) >= i
<1> DEFINE bounds == {m \in Nat : \A i \in t : m >= i}
<1>1. PICK m \in bounds : \A j \in bounds : m <= j
  <2>1. k \in bounds
      OBVIOUS
  <2> QED
      BY <2>1, Smallest
<1>2. m \in t
  <2>1. SUFFICES ASSUME m \notin t PROVE FALSE
      OBVIOUS
  <2>2. m \in Nat /\ \A i \in t : i \in Nat /\ m >= i /\ i >= 1
      BY <1>1
  <2>3. m > 0
    <3>1. PICK i \in t : TRUE
        OBVIOUS
    <3> QED
        BY <2>2, <3>1
  <2>4. \A i \in t : m - 1 >= i
      BY <2>1, <2>2
  <2>5. m - 1 \in bounds
      BY <2>2, <2>3, <2>4
  <2> QED
      BY <1>1, <2>2, <2>5
<1>3. \A i \in t : m >= i
    BY <1>1
<1> QED
    BY <1>2, <1>3 DEF Max

\* The fold over the blocks, one turn for every set of positions.
Turn(d, s, turns, t) ==
    IF t = {} THEN <<>> ELSE Listed(d, turns[t \ {Max(t)}], s[Max(t)])
Turns(d, s) == CHOOSE turns : turns = [t \in SUBSET DOMAIN s |-> Turn(d, s, turns, t)]

LEMMA LoopIsTurns ==
    ASSUME NEW d, NEW s
    PROVE  ListedInOrder(d, s) = Turns(d, s)[DOMAIN s]
BY Zenon DEF ListedInOrder, FoldLeft, MapThenFoldSet, Turns, Turn

LEMMA TurnsExist ==
    ASSUME NEW d, NEW s, NEW n \in Nat
    PROVE  \E turns : turns = [t \in SUBSET (1 .. n) |-> Turn(d, s, turns, t)]
<1> DEFINE S == {k \in Nat : \E turns : turns = [t \in SUBSET (1 .. k) |-> Turn(d, s, turns, t)]}
<1>1. 0 \in S
  <2> DEFINE turns == [t \in SUBSET (1 .. 0) |-> <<>>]
  <2>1. SUBSET (1 .. 0) = {{}}
      OBVIOUS
  <2>2. turns = [t \in SUBSET (1 .. 0) |-> Turn(d, s, turns, t)]
      BY <2>1 DEF Turn
  <2> HIDE DEF turns
  <2> QED
      BY <2>2
<1>2. ASSUME NEW k \in Nat, k \in S PROVE k + 1 \in S
  <2>1. PICK turns : turns = [t \in SUBSET (1 .. k) |-> Turn(d, s, turns, t)]
      BY <1>2
  <2> DEFINE more == [t \in SUBSET (1 .. k + 1) |->
                         IF k + 1 \notin t THEN turns[t]
                         ELSE Listed(d, turns[t \ {k + 1}], s[k + 1])]
  <2>2. ASSUME NEW t \in SUBSET (1 .. k + 1) PROVE more[t] = Turn(d, s, more, t)
    <3>1. CASE t = {}
        BY <2>1, <3>1 DEF Turn
    <3>2. CASE t # {} /\ k + 1 \notin t
      <4>1. t \in SUBSET (1 .. k)
          BY <3>2
      <4>2. turns[t] = Listed(d, turns[t \ {Max(t)}], s[Max(t)])
          BY <2>1, <3>2, <4>1 DEF Turn
      <4>3. t \ {Max(t)} \in SUBSET (1 .. k + 1) /\ k + 1 \notin t \ {Max(t)}
          BY <3>2
      <4>4. more[t \ {Max(t)}] = turns[t \ {Max(t)}]
          BY <4>3
      <4> QED
          BY <3>2, <4>2, <4>4 DEF Turn
    <3>3. CASE k + 1 \in t
      <4>1. Max(t) = k + 1
        <5>1. k + 1 \in Nat /\ \A i \in t : i \in Nat /\ i <= k + 1
            OBVIOUS
        <5>2. Max(t) \in t /\ Max(t) >= k + 1
            BY <3>3, <5>1, LastOf
        <5>3. \A m \in t : m >= k + 1 => m = k + 1
            BY <5>1
        <5> QED
            BY <5>2, <5>3
      <4>2. t \ {k + 1} \in SUBSET (1 .. k + 1) /\ k + 1 \notin t \ {k + 1}
          OBVIOUS
      <4>3. more[t \ {k + 1}] = turns[t \ {k + 1}]
          BY <4>2
      <4> QED
          BY <3>3, <4>1, <4>3 DEF Turn
    <3> QED
        BY <3>1, <3>2, <3>3
  <2>3. more = [t \in SUBSET (1 .. k + 1) |-> Turn(d, s, more, t)]
    <3>1. more = [t \in SUBSET (1 .. k + 1) |-> more[t]]
        OBVIOUS
    <3> HIDE DEF more
    <3> QED
        BY <2>2, <3>1
  <2> HIDE DEF more
  <2> QED
      BY <2>3
<1> HIDE DEF S
<1>3. n \in S
    BY <1>1, <1>2, Induction
<1> QED
    BY <1>3 DEF S

\* What the loop does, turn by turn.
LEMMA TurnsAre ==
    ASSUME NEW d, NEW s, NEW n \in Nat, DOMAIN s = 1 .. n
    PROVE  LET after(k) == Turns(d, s)[1 .. k]
           IN  /\ after(0) = <<>>
               /\ \A k \in 0 .. n - 1 : after(k + 1) = Listed(d, after(k), s[k + 1])
<1> DEFINE turns == Turns(d, s)
<1>1. turns = [t \in SUBSET (1 .. n) |-> Turn(d, s, turns, t)]
  <2>1. \E f : f = [t \in SUBSET (1 .. n) |-> Turn(d, s, f, t)]
      BY TurnsExist
  <2>2. turns = CHOOSE f : f = [t \in SUBSET (1 .. n) |-> Turn(d, s, f, t)]
      BY DEF Turns
  <2> HIDE DEF turns
  <2> QED
      BY <2>1, <2>2
<1> HIDE DEF turns
<1>2. turns[1 .. 0] = <<>>
  <2>1. 1 .. 0 = {}
      OBVIOUS
  <2>2. turns[{}] = Turn(d, s, turns, {})
      BY <1>1
  <2> QED
      BY <2>1, <2>2 DEF Turn
<1>3. ASSUME NEW k \in 0 .. n - 1
      PROVE  turns[1 .. k + 1] = Listed(d, turns[1 .. k], s[k + 1])
  <2>1. k + 1 \in Nat /\ 1 .. k + 1 \in SUBSET (1 .. n) /\ k + 1 \in 1 .. k + 1
      OBVIOUS
  <2>2. Max(1 .. k + 1) = k + 1
    <3>1. Max(1 .. k + 1) \in 1 .. k + 1 /\ Max(1 .. k + 1) >= k + 1
        BY <2>1, LastOf
    <3> QED
        BY <3>1
  <2>3. (1 .. k + 1) \ {k + 1} = 1 .. k
      OBVIOUS
  <2>4. turns[1 .. k + 1] = Turn(d, s, turns, 1 .. k + 1)
      BY <1>1, <2>1
  <2> QED
      BY <2>1, <2>2, <2>3, <2>4 DEF Turn
<1> QED
    BY <1>2, <1>3 DEF turns

-----------------------------------------------------------------------------
(* What the loop lists.                                                      *)

\* The list has each type of the blocks seen once, with the best of them.
ListsBest(d, list, seen) ==
    /\ list \in Seq(seen)
    /\ \A i, j \in 1 .. Len(list) : Key(d, list[i]) = Key(d, list[j]) => i = j
    /\ \A b \in seen : \E i \in 1 .. Len(list) : Key(d, list[i]) = Key(d, b)
    /\ \A b \in seen, i \in 1 .. Len(list) :
          Key(d, b) = Key(d, list[i]) => ~Better(d, b, list[i])

LEMMA ListedKeepsBest ==
    ASSUME NEW d, Described(d), NEW seen, seen \subseteq DOMAIN d,
           NEW list, ListsBest(d, list, seen), NEW b \in DOMAIN d
    PROVE  ListsBest(d, Listed(d, list, b), seen \cup {b})
<1> DEFINE more == Listed(d, list, b)
           same == {i \in DOMAIN list : Key(d, list[i]) = Key(d, b)}
<1>1. /\ list \in Seq(seen) /\ Len(list) \in Nat /\ DOMAIN list = 1 .. Len(list)
      /\ \A i \in 1 .. Len(list) : list[i] \in seen
    BY DEF ListsBest
<1>2. CASE same = {}
  <2>1. more = Append(list, b)
      BY <1>2 DEF Listed
  <2>2. list \in Seq(seen \cup {b})
      BY <1>1
  <2>3. /\ more \in Seq(seen \cup {b}) /\ Len(more) = Len(list) + 1
        /\ more[Len(list) + 1] = b
        /\ \A i \in 1 .. Len(list) : more[i] = list[i]
      BY <2>1, <2>2
  <2>4. \A i \in 1 .. Len(more) : i \in 1 .. Len(list) \/ i = Len(list) + 1
      BY <1>1, <2>3
  <2>5. \A i \in 1 .. Len(list) : i \in 1 .. Len(more)
      BY <1>1, <2>3
  <2>6. \A i \in 1 .. Len(list) : Key(d, list[i]) # Key(d, b)
      BY <1>1, <1>2
  <2>7. \A a \in seen : Key(d, a) # Key(d, b)
      BY <2>6 DEF ListsBest
  <2>8. ~Better(d, b, b)
      BY BetterIsAnOrder
  <2>9. Len(list) + 1 \in 1 .. Len(more)
      BY <1>1, <2>3
  <2> HIDE DEF more, same
  <2>10. \A i, j \in 1 .. Len(more) : Key(d, more[i]) = Key(d, more[j]) => i = j
      BY <2>3, <2>4, <2>6 DEF ListsBest
  <2>11. \A a \in seen \cup {b} : \E i \in 1 .. Len(more) : Key(d, more[i]) = Key(d, a)
      BY <2>3, <2>5, <2>9 DEF ListsBest
  <2>12. \A a \in seen \cup {b}, i \in 1 .. Len(more) :
            Key(d, a) = Key(d, more[i]) => ~Better(d, a, more[i])
      BY <2>3, <2>4, <2>6, <2>7, <2>8 DEF ListsBest
  <2> QED
      BY <2>3, <2>10, <2>11, <2>12 DEF ListsBest, more
<1>3. CASE same # {}
  <2>1. PICK p \in 1 .. Len(list) : Key(d, list[p]) = Key(d, b)
      BY <1>1, <1>3
  <2>2. more = [i \in 1 .. Len(list) |->
                   IF i \in same /\ Better(d, b, list[i]) THEN b ELSE list[i]]
      BY <1>1, <1>3 DEF Listed
  <2>3. \A i \in 1 .. Len(list) : i \in same <=> i = p
      BY <1>1, <2>1 DEF ListsBest
  <2>4. /\ more \in [1 .. Len(list) -> seen \cup {b}]
        /\ more[p] = IF Better(d, b, list[p]) THEN b ELSE list[p]
        /\ \A i \in 1 .. Len(list) : i # p => more[i] = list[i]
    <3> HIDE DEF same
    <3> QED
        BY <1>1, <2>2, <2>3
  <2> HIDE DEF more, same
  <2>5. more \in Seq(seen \cup {b}) /\ Len(more) = Len(list)
      BY <1>1, <2>4
  <2>6. \A i \in 1 .. Len(list) : Key(d, more[i]) = Key(d, list[i])
      BY <2>1, <2>4
  <2>7. \A i, j \in 1 .. Len(more) : Key(d, more[i]) = Key(d, more[j]) => i = j
      BY <2>5, <2>6 DEF ListsBest
  <2>8. \A a \in seen \cup {b} : \E i \in 1 .. Len(more) : Key(d, more[i]) = Key(d, a)
      BY <2>1, <2>5, <2>6 DEF ListsBest
  <2>9. ASSUME NEW a \in seen \cup {b}, NEW i \in 1 .. Len(more), Key(d, a) = Key(d, more[i])
        PROVE  ~Better(d, a, more[i])
    <3>1. i \in 1 .. Len(list) /\ Key(d, a) = Key(d, list[i])
        BY <2>5, <2>6, <2>9
    <3>2. a \in seen => ~Better(d, a, list[i])
        BY <3>1 DEF ListsBest
    <3>3. CASE i # p
      <4>1. a # b
          BY <2>1, <3>1, <3>3 DEF ListsBest
      <4> QED
          BY <2>4, <3>1, <3>2, <3>3, <4>1
    <3>4. CASE i = p
      <4>1. a \in DOMAIN d /\ list[p] \in DOMAIN d
          BY <1>1
      <4>2. CASE Better(d, b, list[p])
        <5>1. more[i] = b
            BY <2>4, <3>4, <4>2
        <5>2. a = b => ~Better(d, a, b)
            BY BetterIsAnOrder
        <5>3. a \in seen => ~Better(d, a, b)
            BY <3>2, <3>4, <4>1, <4>2, BetterIsAnOrder
        <5> QED
            BY <5>1, <5>2, <5>3
      <4>3. CASE ~Better(d, b, list[p])
          BY <2>4, <3>2, <3>4, <4>3
      <4> QED
          BY <4>2, <4>3
    <3> QED
        BY <3>3, <3>4
  <2> QED
      BY <2>5, <2>7, <2>8, <2>9 DEF ListsBest, more
<1> QED
    BY <1>2, <1>3

\* So does the loop, when it has seen all blocks, in whatever order.
LEMMA LoopListsBest ==
    ASSUME NEW d, Described(d), NEW n \in Nat, NEW s \in [1 .. n -> DOMAIN d],
           \A b \in DOMAIN d : \E i \in 1 .. n : s[i] = b
    PROVE  ListsBest(d, ListedInOrder(d, s), DOMAIN d)
<1> DEFINE after(k) == Turns(d, s)[1 .. k]
           seen(k) == {s[i] : i \in 1 .. k}
           S == {k \in Nat : k <= n => ListsBest(d, after(k), seen(k))}
<1>1. s \in [1 .. n -> DOMAIN d] /\ \A b \in DOMAIN d : \E i \in 1 .. n : s[i] = b
    OBVIOUS
<1>2. /\ after(0) = <<>>
      /\ \A k \in 0 .. n - 1 : after(k + 1) = Listed(d, after(k), s[k + 1])
  <2>1. DOMAIN s = 1 .. n
      BY <1>1
  <2> QED
      BY <2>1, TurnsAre
<1>3. 0 \in S
  <2>1. seen(0) = {}
      OBVIOUS
  <2>2. <<>> \in Seq({}) /\ Len(<<>>) = 0
      OBVIOUS
  <2>3. ListsBest(d, <<>>, {})
      BY <2>2 DEF ListsBest
  <2> HIDE DEF after, seen
  <2> QED
      BY <1>2, <2>1, <2>3
<1>4. ASSUME NEW k \in Nat, k \in S PROVE k + 1 \in S
  <2> SUFFICES ASSUME k + 1 <= n PROVE ListsBest(d, after(k + 1), seen(k + 1))
      OBVIOUS
  <2>1. k \in 0 .. n - 1 /\ k <= n /\ k + 1 \in 1 .. n
      BY <1>1
  <2>2. ListsBest(d, after(k), seen(k))
      BY <1>4, <2>1
  <2>3. seen(k) \subseteq DOMAIN d /\ s[k + 1] \in DOMAIN d
      BY <1>1, <2>1
  <2>4. seen(k + 1) = seen(k) \cup {s[k + 1]}
    <3>1. 1 .. k + 1 = (1 .. k) \cup {k + 1}
        OBVIOUS
    <3> QED
        BY <3>1
  <2>5. after(k + 1) = Listed(d, after(k), s[k + 1])
      BY <1>2, <2>1
  <2> HIDE DEF after, seen
  <2> QED
      BY <2>2, <2>3, <2>4, <2>5, ListedKeepsBest
<1>5. ListsBest(d, after(n), seen(n))
  <2>1. n \in S
    <3> HIDE DEF S
    <3> QED
        BY <1>1, <1>3, <1>4, Induction
  <2> QED
      BY <1>1, <2>1
<1>6. seen(n) = DOMAIN d
    BY <1>1
<1>7. ListedInOrder(d, s) = after(n)
  <2>1. DOMAIN s = 1 .. n
      BY <1>1
  <2>2. ListedInOrder(d, s) = Turns(d, s)[DOMAIN s]
      BY LoopIsTurns
  <2> QED
      BY <2>1, <2>2
<1> HIDE DEF after, seen
<1> QED
    BY <1>5, <1>6, <1>7

LEMMA OnceListsBest ==
    ASSUME NEW d, Described(d)
    PROVE  ListsBest(d, ListedOnce(d), DOMAIN d)
<1> DEFINE n == Cardinality(DOMAIN d)
           s == Sorted(d, DOMAIN d)
<1>1. /\ n \in Nat /\ s \in [1 .. n -> DOMAIN d]
      /\ \A b \in DOMAIN d : \E i \in 1 .. n : s[i] = b
    BY SortedLists
<1>2. ListedOnce(d) = ListedInOrder(d, s)
    BY DEF ListedOnce
<1> HIDE DEF n, s
<1> QED
    BY <1>1, <1>2, LoopListsBest

\* The best of each type is one block: two such lists have the same blocks.
LEMMA BestAreTheSame ==
    ASSUME NEW d, Described(d), NEW one, ListsBest(d, one, DOMAIN d),
           NEW other, ListsBest(d, other, DOMAIN d)
    PROVE  ToSet(one) \subseteq ToSet(other)
<1>1. /\ DOMAIN one = 1 .. Len(one) /\ \A i \in 1 .. Len(one) : one[i] \in DOMAIN d
      /\ DOMAIN other = 1 .. Len(other) /\ \A i \in 1 .. Len(other) : other[i] \in DOMAIN d
  <2>1. one \in Seq(DOMAIN d) /\ other \in Seq(DOMAIN d)
      BY DEF ListsBest
  <2> QED
      BY <2>1
<1>2. ASSUME NEW i \in 1 .. Len(one) PROVE \E j \in 1 .. Len(other) : other[j] = one[i]
  <2>1. PICK j \in 1 .. Len(other) : Key(d, other[j]) = Key(d, one[i])
      BY <1>1 DEF ListsBest
  <2>2. ~Better(d, one[i], other[j]) /\ ~Better(d, other[j], one[i])
      BY <1>1, <2>1 DEF ListsBest
  <2> QED
      BY <1>1, <2>2, BetterIsAnOrder
<1> QED
    BY <1>1, <1>2 DEF ToSet

\* The implementation of a type is worse than any other block of it.
LEMMA ImplementationIsWorst ==
    ASSUME NEW d, NEW a, NEW b, a # b, Key(d, a) = Key(d, b), IsImplementation(d, b),
           a \in Block, b \in Block
    PROVE  Better(d, a, b)
<1>1. d[b].type = b /\ b # NoType /\ a # NoType
    BY CatalogAssumption DEF IsImplementation
<1>2. d[a].type # a
    BY <1>1 DEF Key
<1>3. IsImplementation(d, a) = FALSE /\ IsImplementation(d, b) = TRUE
    BY <1>1, <1>2 DEF IsImplementation
<1> QED
    BY <1>3 DEF Better

\* What is browsed of a catalog d.
LEMMA BrowsedAreBest ==
    ASSUME NEW d, Described(d)
    PROVE  LET list == BrowseBlocks(d)
           IN  /\ ToSet(list) = ToSet(ListedOnce(d))
               /\ \A b \in DOMAIN d :
                     Cardinality({i \in DOMAIN list : Key(d, list[i]) = Key(d, b)}) = 1
               /\ \A i \in DOMAIN list :
                     /\ list[i] \in DOMAIN d
                     /\ \A b \in DOMAIN d \ {list[i]} :
                           Key(d, b) = Key(d, list[i]) => ~Better(d, b, list[i])
                     /\ \A j \in DOMAIN list : i < j => Before(d, list[i], list[j])
<1> DEFINE once == ListedOnce(d)
           blocks == ToSet(once)
           n == Cardinality(blocks)
           list == BrowseBlocks(d)
<1>1. ListsBest(d, once, DOMAIN d)
    BY OnceListsBest
<1>2. list = Sorted(d, blocks)
    BY DEF BrowseBlocks
<1> HIDE DEF once, list
<1>3. blocks = {once[i] : i \in 1 .. Len(once)}
    BY <1>1 DEF ListsBest, ToSet
<1>4. \A i \in 1 .. Len(once) : once[i] \in DOMAIN d
    BY <1>1 DEF ListsBest
<1> HIDE DEF blocks
<1>5. blocks \subseteq DOMAIN d
    BY <1>3, <1>4
<1>6. \A a, b \in blocks : Key(d, a) = Key(d, b) => a = b
    BY <1>1, <1>3 DEF ListsBest
<1>7. \A b \in DOMAIN d : \E a \in blocks : Key(d, a) = Key(d, b)
    BY <1>1, <1>3 DEF ListsBest
<1>8. \A b \in DOMAIN d, a \in blocks : Key(d, b) = Key(d, a) => ~Better(d, b, a)
    BY <1>1, <1>3 DEF ListsBest
<1>9. /\ n \in Nat /\ list \in [1 .. n -> blocks]
      /\ \A b \in blocks : \E i \in 1 .. n : list[i] = b
      /\ \A i, j \in 1 .. n : i < j => Before(d, list[i], list[j])
    BY <1>2, <1>5, SortedLists
<1> HIDE DEF n
<1>10. \A i, j \in 1 .. n : list[i] = list[j] => i = j
  <2>1. \A i, j \in 1 .. n : i < j => list[i] # list[j]
      BY <1>5, <1>9, BeforeIsAnOrder
  <2> QED
      BY <1>9, <2>1
<1>11. ASSUME NEW b \in DOMAIN d
      PROVE  Cardinality({i \in DOMAIN list : Key(d, list[i]) = Key(d, b)}) = 1
  <2>1. PICK p \in 1 .. n : Key(d, list[p]) = Key(d, b)
      BY <1>7, <1>9
  <2>2. {i \in DOMAIN list : Key(d, list[i]) = Key(d, b)} = {p}
      BY <1>6, <1>9, <1>10, <2>1
  <2> QED
      BY <2>2, FS_Singleton
<1>12. ASSUME NEW i \in DOMAIN list
      PROVE  /\ list[i] \in DOMAIN d
             /\ \A b \in DOMAIN d \ {list[i]} :
                   Key(d, b) = Key(d, list[i]) => ~Better(d, b, list[i])
             /\ \A j \in DOMAIN list : i < j => Before(d, list[i], list[j])
    BY <1>5, <1>8, <1>9
<1>13. ToSet(list) = blocks
    BY <1>9 DEF ToSet
<1> QED
    BY <1>11, <1>12, <1>13 DEF list, blocks, once

LEMMA OrderDoesNotMatter ==
    ASSUME NEW d, Described(d), NEW s \in Orders(DOMAIN d)
    PROVE  ToSet(ListedInOrder(d, s)) = ToSet(ListedOnce(d))
<1> DEFINE n == Cardinality(DOMAIN d)
<1>1. n \in Nat
    BY FS_CardinalityType DEF Described
<1>2. s \in [1 .. n -> DOMAIN d] /\ \A b \in DOMAIN d : \E i \in 1 .. n : s[i] = b
    BY DEF Orders, ToSet
<1> HIDE DEF n
<1>3. ListsBest(d, ListedInOrder(d, s), DOMAIN d)
    BY <1>1, <1>2, LoopListsBest
<1> QED
    BY <1>3, OnceListsBest, BestAreTheSame

\* Whatever the blocks: in which order the loop meets them does not matter to
\* what is listed, each canonical type is listed once, not by its implementation
\* if there is another, every listed block can be looked up, and the list is in
\* order (cached_catalog).
THEOREM ListedInAnyOrder == Spec => []ListingIgnoresOrder
<1>1. ASSUME CatalogInv, cache = Unfilled PROVE ListingIgnoresOrder
  <2>1. cache.exact = <<>> /\ cache.browse = <<>>
      BY <1>1 DEF Unfilled
  <2>2. ASSUME NEW s \in Orders(DOMAIN <<>>) PROVE ToSet(ListedInOrder(<<>>, s)) = ToSet(<<>>)
    <3>1. Described(<<>>)
        BY EmptyFunction, FS_EmptySet DEF Described
    <3>2. ListsBest(<<>>, ListedInOrder(<<>>, s), DOMAIN <<>>)
      <4>1. Cardinality(DOMAIN <<>>) \in Nat
          BY EmptyFunction, FS_EmptySet
      <4> QED
          BY <3>1, <4>1, LoopListsBest DEF Orders, ToSet
    <3>3. ListsBest(<<>>, <<>>, DOMAIN <<>>)
        BY EmptyFunction DEF ListsBest
    <3>4. ToSet(ListedInOrder(<<>>, s)) \subseteq ToSet(<<>>)
        BY <3>1, <3>2, <3>3, BestAreTheSame
    <3>5. ToSet(<<>>) \subseteq ToSet(ListedInOrder(<<>>, s))
        BY <3>1, <3>2, <3>3, BestAreTheSame
    <3> QED
        BY <3>4, <3>5
  <2> QED
      BY <2>1, <2>2, EmptyFunction DEF ListingIgnoresOrder
<1>2. ASSUME CatalogInv, cache = Catalog(descriptors) PROVE ListingIgnoresOrder
  <2> DEFINE d == descriptors
             list == BrowseBlocks(d)
  <2>1. Described(d)
      BY <1>2 DEF CatalogInv, TypeOK, Described
  <2>2. cache.exact = d /\ cache.browse = list
      BY <1>2 DEF Catalog
  <2> HIDE DEF list
  <2>3. \A s \in Orders(DOMAIN d) : ToSet(ListedInOrder(d, s)) = ToSet(list)
      BY <2>1, OrderDoesNotMatter, BrowsedAreBest DEF list
  <2>4. /\ \A b \in DOMAIN d :
              Cardinality({i \in DOMAIN list : Key(d, list[i]) = Key(d, b)}) = 1
        /\ \A i \in DOMAIN list :
              /\ list[i] \in DOMAIN d
              /\ \A b \in DOMAIN d \ {list[i]} :
                    Key(d, b) = Key(d, list[i]) => ~Better(d, b, list[i])
              /\ \A j \in DOMAIN list : i < j => Before(d, list[i], list[j])
      BY <2>1, BrowsedAreBest DEF list
  <2>5. ASSUME NEW i \in DOMAIN list, NEW b \in DOMAIN d \ {list[i]},
               Key(d, b) = Key(d, list[i])
        PROVE  ~IsImplementation(d, list[i])
    <3>1. b \in Block /\ list[i] \in Block /\ ~Better(d, b, list[i])
        BY <2>1, <2>4, <2>5 DEF Described
    <3> QED
        BY <2>5, <3>1, ImplementationIsWorst
  <2> QED
      BY <2>2, <2>3, <2>4, <2>5 DEF ListingIgnoresOrder
<1>3. CatalogInv => ListingIgnoresOrder
    BY <1>1, <1>2 DEF CatalogInv, TypeOK
<1> QED
    BY Invariance, <1>3, PTL
=============================================================================
