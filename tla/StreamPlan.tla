------------------------------ MODULE StreamPlan ------------------------------
(***************************************************************************)
(* What prepare does to a graph: the contract of its managed streams is    *)
(* checked, a plan is derived, the graph is normalised, the endpoints are  *)
(* injected and the result is loaded (prepare_locked, after its early      *)
(* returns).                                                               *)
(*                                                                         *)
(* The planner (domain/session_stream.cpp) and the normaliser and injector *)
(* (gr4_runtime_manager.cpp) read the same blocks independently of each    *)
(* other, and each works out for itself what a block is called.            *)
(*                                                                         *)
(* A graph is a sequence of blocks.  A block, its parameters and its       *)
(* stream intent are property maps: functions whose domains are the fields *)
(* present.  Fields are strings, or maps where a map is expected; values   *)
(* of other types are left out, as are connections and entries of blocks   *)
(* that are no maps.  Allocation and its failure are in Gr4RuntimeManager: *)
(* here a binding is the position of the block that declares the stream,   *)
(* and its endpoint is that position (an authored endpoint is 0).          *)
(***************************************************************************)
EXTENDS SequencesExt

CONSTANTS
    Graphs,      \* the graphs that sessions are created with
    Supported    \* supported_transports()

ASSUME GraphsAssumption ==
    \A g \in Graphs : Len(g) \in Nat /\ DOMAIN g = 1 .. Len(g)

VARIABLES
    graph,       \* session.grc_content, never rewritten
    content,     \* the blocks handed to loadGrc
    bindings,    \* stream_bindings
    pc           \* the next part of prepare_locked, or how it ended

vars == <<graph, content, bindings, pc>>

-----------------------------------------------------------------------------
(* Property maps.                                                           *)

Text(map, field)  == IF field \in DOMAIN map THEN map[field] ELSE ""
Inner(map, field) == IF field \in DOMAIN map THEN map[field] ELSE <<>>

\* insert_or_assign.
With(map, field, value) ==
    [f \in DOMAIN map \cup {field} |-> IF f = field THEN value ELSE map[f]]

\* The fields of defaults that map does not have are added.
Completed(map, defaults) ==
    [f \in DOMAIN map \cup DOMAIN defaults |->
        IF f \in DOMAIN map THEN map[f] ELSE defaults[f]]

\* The first text, unless it is empty.
a ?? b == IF a # "" THEN a ELSE b

\* parameters, completed by the raw_parameters it does not have.
Parameters(block) ==
    Completed(Inner(block, "parameters"), Inner(block, "raw_parameters"))

-----------------------------------------------------------------------------
(* The planner.                                                             *)

\* A field that is present counts, even when it is empty.
BlockType(block) ==
    IF "block" \in DOMAIN block THEN block["block"]
    ELSE IF "id" \in DOMAIN block THEN block["id"]
    ELSE Text(block, "block_type")

\* id is a node's name where block holds the type, and the type where it does
\* not.
PlannedName(block) ==
    Text(Parameters(block), "name")
        ?? (IF "block" \in DOMAIN block THEN Text(block, "id") ELSE "")
        ?? Text(block, "instance_name") ?? Text(block, "name")

\* The intent of a stream, nested under "stream" or flat among the parameters.
Intent(block, nested, flat) ==
    LET parameters == Parameters(block) IN
    IF "stream" \in DOMAIN parameters
    THEN Text(parameters["stream"], nested)
    ELSE Text(parameters, flat)

\* Mutant: an empty identifier is kept.
StreamIdAsAuthored(block) == Intent(block, "id", "stream_id")

StreamId(block)  == Intent(block, "id", "stream_id") ?? PlannedName(block)
Transport(block) == Intent(block, "transport", "transport")
Payload(block)   == Intent(block, "payload_format", "payload_format")

\* The fields that normalize_stream_intent looks for.
IntentField == {"stream", "stream_id", "transport", "payload_format"}

\* normalize_stream_block finds a block, and its stream is declared.
Declares(block) ==
    /\ BlockType(block) # ""
    /\ IntentField \cap DOMAIN Parameters(block) # {}

\* validate_stream_block, given the identifiers of the streams so far.
Valid(block, seen) ==
    /\ PlannedName(block) # ""
    /\ Transport(block) \in Supported
    /\ Payload(block) # ""
    /\ StreamId(block) \notin seen

\* Mutant: the contract is checked without the identifiers seen so far.
CheckedAlone(check, block) ==
    IF ~ check.valid \/ ~ Declares(block) THEN check
    ELSE [valid |-> Valid(block, {}), seen |-> {}]

\* A turn of the loop of validate_stream_runtime_contract: the first error ends it.
Checked(check, block) ==
    IF ~ check.valid \/ ~ Declares(block) THEN check
    ELSE [valid |-> Valid(block, check.seen), seen |-> check.seen \cup {StreamId(block)}]

ContractHolds(g) ==
    FoldLeft(Checked, [valid |-> TRUE, seen |-> {}], g).valid

\* A turn of the loop of derive_stream_runtime_plan, at position k.
Planned(g, plan, k) ==
    IF ~ plan.valid \/ ~ Declares(g[k]) THEN plan
    ELSE [valid |-> Valid(g[k], plan.seen), seen |-> plan.seen \cup {StreamId(g[k])},
          streams |-> plan.streams \cup {k}]

Positions(g) == [k \in 1 .. Len(g) |-> k]

\* After an error there is no plan at all, and prepare goes on without streams.
DerivedPlan(g) ==
    LET plan == FoldLeft(LAMBDA plan, k : Planned(g, plan, k),
                         [valid |-> TRUE, seen |-> {}, streams |-> {}], Positions(g))
    IN  IF plan.valid THEN plan.streams ELSE {}

-----------------------------------------------------------------------------
(* The normaliser and the injector.                                         *)

RuntimeType(block) ==
    Text(block, "block")
        ?? (IF "id" \in DOMAIN block THEN block["id"] ELSE Text(block, "block_type"))

\* Mutant: names of the old format are not carried over.
GivenIdOnly(block) == Text(block, "id")

GivenName(block) ==
    Text(block, "id") ?? Text(block, "instance_name") ?? Text(block, "name")

\* A name among the parameters is kept, even an empty one.
NamedParameters(block) ==
    LET parameters == Parameters(block) IN
    IF "name" \in DOMAIN parameters \/ GivenName(block) = "" THEN parameters
    ELSE With(parameters, "name", GivenName(block))

\* Mutant: the node's identifier is read after the type was written over it.
NormalizedTooLate(block) ==
    LET typed == With(block, "id", RuntimeType(block)) IN
    With(typed, "parameters", NamedParameters(typed))

\* An id or parameters that come out empty are not written: read, they are
\* the same.
RuntimeBlock(block) ==
    With(With(block, "id", RuntimeType(block)), "parameters", NamedParameters(block))

InjectedName(block) ==
    Text(block["parameters"], "name") ?? Text(block, "instance_name")

\* The bindings for a block, of which the injector takes the first.
BindingsFor(block) ==
    {k \in bindings : InjectedName(block) # "" /\ PlannedName(graph[k]) = InjectedName(block)}

First(positions) == CHOOSE k \in positions : \A j \in positions : k <= j

\* Mutant: an authored endpoint wins.
EndpointIfNone(block) ==
    IF BindingsFor(block) = {} THEN block
    ELSE With(block, "parameters",
              Completed(block["parameters"], [endpoint |-> First(BindingsFor(block))]))

WithEndpoint(block) ==
    IF BindingsFor(block) = {} THEN block
    ELSE With(block, "parameters",
              With(block["parameters"], "endpoint", First(BindingsFor(block))))

Injected ==
    {First(BindingsFor(content[k])) :
        k \in {l \in DOMAIN content : BindingsFor(content[l]) # {}}}

-----------------------------------------------------------------------------
(* prepare_locked.                                                          *)

Init ==
    /\ graph \in Graphs
    /\ content = graph
    /\ bindings = {}
    /\ pc = "contract"

Refuse ==
    /\ pc = "contract" /\ ~ ContractHolds(graph)
    /\ pc' = "refused"
    /\ UNCHANGED <<graph, content, bindings>>

Plan ==
    /\ pc = "contract" /\ ContractHolds(graph)
    /\ bindings' = DerivedPlan(graph)
    /\ pc' = "normalize"
    /\ UNCHANGED <<graph, content>>

Normalize ==
    /\ pc = "normalize"
    /\ content' = [k \in DOMAIN graph |-> RuntimeBlock(graph[k])]
    /\ pc' = "inject"
    /\ UNCHANGED <<graph, bindings>>

Inject ==
    /\ pc = "inject" /\ Injected = bindings
    /\ content' = [k \in DOMAIN content |-> WithEndpoint(content[k])]
    /\ pc' = "load"
    /\ UNCHANGED <<graph, bindings>>

\* Some binding found no block: prepare fails and its ports are released.
InjectFails ==
    /\ pc = "inject" /\ Injected # bindings
    /\ bindings' = {}
    /\ pc' = "uninjected"
    /\ UNCHANGED <<graph, content>>

\* loadGrc, the scheduler and setGraph (external): a block needs a type, and
\* anything may be wrong besides.
Load ==
    /\ pc = "load"
    /\ \A k \in DOMAIN content : content[k]["id"] # ""
    /\ pc' = "prepared"
    /\ UNCHANGED <<graph, content, bindings>>

LoadFails ==
    /\ pc = "load"
    /\ bindings' = {}
    /\ pc' = "unloaded"
    /\ UNCHANGED <<graph, content>>

Next == Refuse \/ Plan \/ Normalize \/ Inject \/ InjectFails \/ Load \/ LoadFails

Spec == Init /\ [][Next]_vars

-----------------------------------------------------------------------------
(* Properties.                                                              *)

\* Every binding has an identifier to be fetched by, its own.
TypeOK ==
    /\ DOMAIN content = DOMAIN graph
    /\ bindings \subseteq DOMAIN graph
    /\ \A k \in bindings : StreamId(graph[k]) # ""
    /\ pc \in {"contract", "refused", "normalize", "inject", "uninjected", "load",
               "unloaded", "prepared"}

\* What the running block was loaded with authors a stream: the parameters that
\* the normaliser gave to the loader, whatever the planner made of the block.
AuthorsStream(block) == IntentField \cap DOMAIN block["parameters"] # {}

\* The planner takes an empty block field for a block without a type, and the
\* normaliser takes the type from the next field.
BlockFieldEmpty(block) == "block" \in DOMAIN block /\ block["block"] = ""

\* A block that runs with an authored stream has its binding, or the graph was
\* refused (prepare_locked); the only exception is a block that the planner
\* does not see, for its empty block field.  Three passes have to agree for this:
\* the contract, the plan, and the normaliser, on what is a block and what its
\* parameters are.
NeverSilentlyLegacy ==
    pc = "prepared" =>
        \A k \in DOMAIN content :
            k \in bindings
                <=> AuthorsStream(content[k]) /\ ~ BlockFieldEmpty(graph[k])

\* The blocks say what they are called: by a name among the parameters, or by
\* no such field and no id that could be a name as well as a type.  Different
\* blocks are called differently.
SaysItsName(block) ==
    \/ Text(Parameters(block), "name") # ""
    \/ /\ "name" \notin DOMAIN Parameters(block)
       /\ "block" \in DOMAIN block \/ "id" \notin DOMAIN block

Unambiguous ==
    /\ \A k \in DOMAIN graph : SaysItsName(graph[k])
    /\ \A j, k \in DOMAIN graph :
           PlannedName(graph[j]) = PlannedName(graph[k]) /\ PlannedName(graph[j]) # ""
               => j = k

\* If the blocks say what they are called, a graph that keeps the contract is
\* not refused for a binding that could not be injected.
SoundGraphsAreInjected == Unambiguous => pc # "uninjected"

Endpoint(block) ==
    {Parameters(block)[field] : field \in {"endpoint"} \cap DOMAIN Parameters(block)}

\* ... and the endpoint of each stream is in the block that declared it,
\* whatever endpoint was authored there, and no other block has a new one.
EndpointsReachTheirBlocks ==
    Unambiguous /\ pc = "prepared" =>
        \A k \in DOMAIN graph :
            Endpoint(content[k]) = IF k \in bindings THEN {k} ELSE Endpoint(graph[k])

\* ... and the name that a stream's descriptor gives for its block is the one
\* the running block has.
StreamsNameTheirBlocks ==
    Unambiguous /\ pc = "prepared" =>
        \A k \in bindings :
            Text(content[k]["parameters"], "name") = PlannedName(graph[k])

-----------------------------------------------------------------------------
(* What the documents say and the code does not keep.                       *)

\* A graph in which a block authors a stream with a transport that is not
\* supported is not started (prepare_locked).
InvalidTransportsFail ==
    pc = "prepared" =>
        \A k \in DOMAIN content :
            AuthorsStream(content[k]) => Transport(content[k]) \in Supported
=============================================================================
