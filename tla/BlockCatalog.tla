---------------------------- MODULE BlockCatalog -----------------------------
(***************************************************************************)
(* How the server starts (main.cpp): the block catalog is loaded from GNU  *)
(* Radio's libraries, each block reflected in a child process; then the    *)
(* scheduler catalog; then requests are served from the two caches, and    *)
(* the first session to be prepared loads the same libraries once more for *)
(* the runtime.                                                            *)
(*                                                                         *)
(* The two services fill their caches at the first call and main makes it, *)
(* so their mutexes are not contended: only main's thread, one child at a  *)
(* time and the request that prepares the first session take steps here.   *)
(* Lookups change nothing and are operators.                               *)
(*                                                                         *)
(* Libraries do not change while the server runs.  Of a block descriptor   *)
(* the fields are kept that decide what is listed; texts are numbers, in   *)
(* their lexical order, and the types blocks report are from the same      *)
(* universe as the identifiers.                                            *)
(***************************************************************************)
EXTENDS SequencesExt

CONSTANTS
    Plugin, Shared,  \* libraries of GNU Radio, "Plugin" or "Shared" in the name
    Unlisted,        \* other libraries with "Shared" in the name
    Provides,        \* Provides[l]: the blocks that library l registers
    Block,           \* identifiers of blocks
    Length,          \* Length[b]: the length of the identifier b
    Descriptor,      \* what reflection may report
    NoType,          \* no canonical type
    Scheduler,       \* identifiers that the plugin loader offers
    Alias            \* those without template arguments

Library == Plugin \cup Shared \cup Unlisted

ASSUME CatalogAssumption ==
    /\ Block \subseteq Nat /\ NoType \notin Nat
    /\ Provides \in [Library -> SUBSET Block]
    /\ Length \in [Block -> Nat]
    /\ Descriptor \subseteq
           [type : Nat \cup {NoType}, category : Nat, name : Nat]
    /\ Alias \subseteq Scheduler /\ Alias # {}

VARIABLES
    condition,   \* what happens when a library is loaded
    support,     \* whether the support libraries can be loaded
    main,        \* where main is, "serving" or "exited"
    untried,     \* shared libraries not yet initialised
    registry,    \* globalBlockRegistry()
    queue,       \* blocks still to be reflected
    child,       \* the process that reflects the first of them
    descriptors, \* block -> descriptor, of the blocks reflected
    cache,       \* BlockCatalogService::cached_catalog_
    schedulers,  \* SchedulerCatalogService::cached_catalog_
    environment, \* ensure_runtime_environment's once flag and error
    clean        \* history: block -> what its child reported in full

libraries == <<condition, support>>
vars == <<condition, support, main, untried, registry, queue, child,
          descriptors, cache, schedulers, environment, clean>>

With(f, x, value) == [y \in DOMAIN f \cup {x} |-> IF y = x THEN value ELSE f[y]]

-----------------------------------------------------------------------------
(* BlockCatalogService: which blocks are listed.                            *)

\* The order of both sorts in cached_catalog.
Before(d, a, b) ==
    \/ d[a].category < d[b].category
    \/ /\ d[a].category = d[b].category
       /\ \/ d[a].name < d[b].name
          \/ d[a].name = d[b].name /\ a < b

\* canonical_catalog_key, is_canonical_implementation_entry
Key(d, b) == IF d[b].type = NoType THEN b ELSE d[b].type
IsImplementation(d, b) == d[b].type = b

\* is_better_browse_entry: candidate a, current b.
Better(d, a, b) ==
    IF IsImplementation(d, a) # IsImplementation(d, b) THEN ~IsImplementation(d, a)
    ELSE IF Length[a] # Length[b] THEN Length[a] > Length[b]
    ELSE IF d[a].category # d[b].category THEN d[a].category < d[b].category
    ELSE IF d[a].name # d[b].name THEN d[a].name < d[b].name
    ELSE a < b

\* Mutant: the first block of a type stays, whatever comes later.
ListedFirst(d, list, b) ==
    IF \E i \in DOMAIN list : Key(d, list[i]) = Key(d, b) THEN list ELSE Append(list, b)

\* One turn of the loop over the sorted blocks.
Listed(d, list, b) ==
    LET same == {i \in DOMAIN list : Key(d, list[i]) = Key(d, b)}
    IN  IF same = {} THEN Append(list, b)
        ELSE [i \in DOMAIN list |->
                 IF i \in same /\ Better(d, b, list[i]) THEN b ELSE list[i]]

\* At i the block that comes after i - 1 others.
Sorted(d, blocks) ==
    [i \in 1 .. Cardinality(blocks) |->
        CHOOSE b \in blocks : Cardinality({a \in blocks : Before(d, a, b)}) = i - 1]

\* The loop over the blocks in the order of s.
ListedInOrder(d, s) == FoldLeft(LAMBDA list, b : Listed(d, list, b), <<>>, s)

ListedOnce(d) == ListedInOrder(d, Sorted(d, DOMAIN d))

BrowseBlocks(d) == LET once == ListedOnce(d) IN Sorted(d, ToSet(once))

Catalog(d) == [exact |-> d, browse |-> BrowseBlocks(d)]
Unfilled   == [exact |-> <<>>, browse |-> <<>>]

-----------------------------------------------------------------------------
(* Gr4BlockCatalogProvider::list, in main.                                  *)

Child == [descriptor : Descriptor \cup {NoType},  \* what reflect_block found
          sent : {"nothing", "part", "all"},       \* of it, into the pipe
          end  : {"running", "exit 0", "exit 2", "signal"}]
NoChild == [descriptor |-> NoType, sent |-> "nothing", end |-> "exit 0"]
Forked  == [NoChild EXCEPT !.end = "running"]

TypeOK ==
    /\ condition \in [Library -> {"good", "unloadable", "init throws"}]
    /\ support \in {"good", "unloadable"}
    /\ main \in {"staging", "initialising", "plugins", "forking", "reading",
                 "schedulers", "serving", "exited"}
    /\ untried \subseteq Shared
    /\ registry \subseteq Block
    /\ queue \subseteq Block
    /\ child \in Child
    /\ \A f \in {descriptors, clean} :
           DOMAIN f \subseteq Block /\ \A b \in DOMAIN f : f[b] \in Descriptor
    /\ cache = Unfilled \/ cache = Catalog(descriptors)
    /\ schedulers \subseteq Scheduler
    /\ environment \in {"untried", "ready", "failed"}

Init ==
    /\ condition \in [Library -> {"good", "unloadable", "init throws"}]
    /\ support \in {"good", "unloadable"}
    /\ main = "staging"
    /\ untried = Shared
    /\ registry = {} /\ queue = {} /\ child = NoChild
    /\ descriptors = <<>> /\ clean = <<>>
    /\ cache = Unfilled /\ schedulers = {}
    /\ environment = "untried"

\* The support libraries are preloaded, and links to the libraries put into
\* directories of their own, which the file system may refuse.
Stage ==
    /\ main = "staging"
    /\ \E staged \in BOOLEAN :
           main' = IF support = "good" /\ Plugin \cup Shared # {} /\ staged
                   THEN "initialising" ELSE "exited"
    /\ UNCHANGED <<libraries, untried, registry, queue, child, descriptors,
                   cache, schedulers, environment, clean>>

\* Mutant: an exception of an init function is passed over as well.
InitialiseAnyway(l) ==
    /\ main = "initialising" /\ l \in untried
    /\ untried' = untried \ {l}
    /\ registry' = registry \cup IF condition[l] = "good" THEN Provides[l] ELSE {}
    /\ UNCHANGED <<libraries, main, queue, child, descriptors, cache, schedulers,
                   environment, clean>>

\* Mutant: whether the library could be opened is not looked at.
InitialiseUnopened(l) ==
    /\ main = "initialising" /\ l \in untried
    /\ untried' = untried \ {l}
    /\ registry' = registry \cup Provides[l]
    /\ UNCHANGED <<libraries, main, queue, child, descriptors, cache, schedulers,
                   environment, clean>>

\* bootstrap_blocklib_symbols: a library that cannot be opened is passed over,
\* an exception of its init function is not caught, not even by main.
Initialise(l) ==
    /\ main = "initialising" /\ l \in untried
    /\ untried' = untried \ {l}
    /\ IF condition[l] = "init throws"
       THEN main' = "exited" /\ UNCHANGED registry
       ELSE /\ registry' = registry \cup
                   IF condition[l] = "good" THEN Provides[l] ELSE {}
            /\ UNCHANGED main
    /\ UNCHANGED <<libraries, queue, child, descriptors, cache, schedulers,
                   environment, clean>>

FailedPlugins == {l \in Plugin : condition[l] # "good"}

\* The plugin loader is retained; what it and the registry offer is reflected.
LoadPlugins ==
    /\ main = "initialising" /\ untried = {}
    /\ queue' = registry \cup UNION {Provides[l] : l \in Plugin}
    /\ main' = IF FailedPlugins = {} /\ queue' # {} THEN "forking" ELSE "exited"
    /\ UNCHANGED <<libraries, untried, registry, child, descriptors, cache,
                   schedulers, environment, clean>>

Reflecting(b) == b \in queue /\ \A a \in queue : b <= a

\* The block is skipped.
Skip(b) ==
    /\ queue' = queue \ {b}
    /\ main' = "forking"
    /\ child' = NoChild
    /\ UNCHANGED descriptors

\* reflect_block_in_subprocess up to the fork; pipe() or fork() may fail.
Fork(b) ==
    /\ main = "forking" /\ Reflecting(b)
    /\ \/ main' = "reading" /\ child' = Forked /\ UNCHANGED <<queue, descriptors>>
       \/ Skip(b)
    /\ UNCHANGED <<libraries, untried, registry, cache, schedulers, environment, clean>>

\* The child: reflects and writes, as far as the pipe takes it, ...
ChildSends(b) ==
    /\ main = "reading" /\ Reflecting(b)
    /\ child = Forked
    /\ \E d \in Descriptor, sent \in {"part", "all"} :
           /\ child' = [child EXCEPT !.descriptor = d, !.sent = sent]
           /\ clean' = IF sent = "all" THEN With(clean, b, d) ELSE clean
    /\ UNCHANGED <<libraries, main, untried, registry, queue, descriptors, cache,
                   schedulers, environment>>

\* ... and exits, with 2 after an exception, or is killed by a signal.
ChildEnds(b) ==
    /\ main = "reading" /\ Reflecting(b)
    /\ child.end = "running"
    /\ \E end \in {"exit 0", "exit 2", "signal"} :
           /\ end = "exit 0" => child.sent # "nothing"
           /\ end = "exit 2" => child.sent = "nothing"
           /\ child' = [child EXCEPT !.end = end]
           /\ clean' = IF end = "exit 0" THEN clean
                       ELSE [a \in DOMAIN clean \ {b} |-> clean[a]]
    /\ UNCHANGED <<libraries, main, untried, registry, queue, descriptors, cache,
                   schedulers, environment>>

\* Mutant: the exit status is not looked at.
SoundPayload == child.sent = "all"

\* The payload is whole and the child's end was in order.
Sound == child.end = "exit 0" /\ child.sent = "all"

\* Mutant: the parent keeps the writing end of the pipe open.
NeverAtEnd(b) ==
    /\ main = "reading" /\ Reflecting(b)
    /\ child.end # "running"
    /\ UNCHANGED vars

\* The parent has read to the end and waited for the child; a read may fail.
Collect(b) ==
    /\ main = "reading" /\ Reflecting(b)
    /\ child.end # "running"
    /\ \/ /\ Sound
          /\ descriptors' = With(descriptors, b, child.descriptor)
          /\ queue' = queue \ {b} /\ main' = "forking" /\ child' = NoChild
       \/ Skip(b)
    /\ UNCHANGED <<libraries, untried, registry, cache, schedulers, environment, clean>>

-----------------------------------------------------------------------------
(* The caches, and the runtime's own start.                                 *)

\* Mutant: the list is not sorted again.
FillCacheUnsorted ==
    /\ main = "forking" /\ queue = {}
    /\ main' = "schedulers"
    /\ cache' = [exact |-> descriptors, browse |-> ListedOnce(descriptors)]
    /\ UNCHANGED <<libraries, untried, registry, queue, child, descriptors,
                   schedulers, environment, clean>>

FillCache ==
    /\ main = "forking" /\ queue = {}
    /\ IF DOMAIN descriptors = {}
       THEN main' = "exited" /\ UNCHANGED cache
       ELSE main' = "schedulers" /\ cache' = Catalog(descriptors)
    /\ UNCHANGED <<libraries, untried, registry, queue, child, descriptors,
                   schedulers, environment, clean>>

\* The scheduler provider goes through the same steps as the block provider,
\* with directories and a loader of its own.
LoadSchedulers ==
    /\ main = "schedulers"
    /\ \E staged \in BOOLEAN :
           IF support = "good" /\ staged /\ FailedPlugins = {}
           THEN main' = "serving" /\ schedulers' = Alias
           ELSE main' = "exited" /\ UNCHANGED schedulers
    /\ UNCHANGED <<libraries, untried, registry, queue, child, descriptors, cache,
                   environment, clean>>

\* The first prepare of any session; its outcome is for good, as the exceptions of
\* init functions are taken to be std::exceptions (any other one leaves the once
\* flag unset).  Here every library with "Shared" in its name counts, and one that
\* cannot be opened is an error.
EnsureRuntimeEnvironment ==
    /\ main = "serving" /\ environment = "untried"
    /\ environment' =
           IF support = "good" /\ \A l \in Shared \cup Unlisted : condition[l] = "good"
           THEN "ready" ELSE "failed"
    /\ UNCHANGED <<libraries, main, untried, registry, queue, child, descriptors,
                   cache, schedulers, clean>>

MainStep ==
    \/ Stage \/ LoadPlugins \/ FillCache \/ LoadSchedulers
    \/ \E l \in Shared : Initialise(l)
    \/ \E b \in Block : Fork(b) \/ Collect(b)

ChildStep == \E b \in Block : ChildSends(b) \/ ChildEnds(b)

Next == MainStep \/ ChildStep \/ EnsureRuntimeEnvironment

\* The parent waits without a deadline: that main gets on rests on children
\* that come to an end.  Nobody need prepare a session.
Spec == Init /\ [][Next]_vars /\ WF_vars(MainStep) /\ WF_vars(ChildStep)

-----------------------------------------------------------------------------
(* Properties.                                                              *)

\* The blocks in any order.
Orders(blocks) ==
    {s \in [1 .. Cardinality(blocks) -> blocks] : ToSet(s) = blocks}

\* What is listed does not depend on the order in which the loop meets the
\* blocks.  The list is in order itself; each canonical type is in it once, by a
\* block that can be looked up and that is not the type's implementation if there
\* is another (cached_catalog).
ListingIgnoresOrder ==
    LET d == cache.exact
        list == cache.browse
    IN  /\ \A s \in Orders(DOMAIN d) : ToSet(ListedInOrder(d, s)) = ToSet(list)
        /\ \A b \in DOMAIN d :
              Cardinality({i \in DOMAIN list : Key(d, list[i]) = Key(d, b)}) = 1
        /\ \A i \in DOMAIN list :
              /\ list[i] \in DOMAIN d
              /\ \A b \in DOMAIN d \ {list[i]} :
                    Key(d, b) = Key(d, list[i]) => ~IsImplementation(d, list[i])
              /\ \A j \in DOMAIN list : i < j => Before(d, list[i], list[j])

\* A block is in the catalog with what a child reported that had sent all of it
\* and ended in order; half a payload or a crash after it is never served
\* (reflect_block_in_subprocess).
CatalogHoldsSoundReports ==
    \A b \in DOMAIN cache.exact :
        b \in DOMAIN clean /\ clean[b] = cache.exact[b]

\* A server that serves has both catalogs and has found no broken plugin, no
\* broken support library and no init function that throws (main).
ServesAfterASoundStart ==
    main = "serving" =>
        /\ DOMAIN cache.exact # {} /\ schedulers # {}
        /\ support = "good" /\ FailedPlugins = {}
        /\ \A l \in Shared : condition[l] # "init throws"

\* The two loaders differ in one point only: if no session can be prepared on a
\* server that has started, then a library is to blame that the catalog passes
\* over, as it cannot be opened, or does not look at; no block of it is listed
\* unless another library has it too (ensure_runtime_environment).
RuntimeFailsForPassedOver ==
    environment = "failed" =>
        \E l \in Shared \cup Unlisted :
            /\ l \in Unlisted \/ condition[l] = "unloadable"
            /\ condition[l] # "good"
            /\ \A b \in Provides[l] \cap DOMAIN cache.exact :
                  \E k \in (Plugin \cup Shared) \ {l} :
                      b \in Provides[k] /\ condition[k] = "good"

\* Main serves or gives up: no child, failure or empty result keeps it waiting
\* (main).
StartupEnds == <>(main \in {"serving", "exited"})

=============================================================================
