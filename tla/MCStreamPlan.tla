---------------------------- MODULE MCStreamPlan -----------------------------
(* Graphs of StreamPlan for TLC: "T" is a type, "a" and "b" are names.      *)
EXTENDS StreamPlan, TLC

\* The map in which field is present with each of values, or absent.
Maybe(field, values, map) == {map} \cup {(field :> v) @@ map : v \in values}

Transports == {"http_poll", "websocket"}

\* No intent, sound ones in both forms, and ones that break the contract.
Intents ==
    {<<>>,
     [stream |-> [transport |-> "http_poll", payload_format |-> "p"]],
     [stream |-> [id |-> "s", transport |-> "websocket", payload_format |-> "p"]],
     [stream |-> [transport |-> "grpc", payload_format |-> "p"]],
     [stream_id |-> "", transport |-> "http_poll", payload_format |-> "p", endpoint |-> 0],
     [transport |-> "http_poll"],
     [endpoint |-> 0]}

Types(blocks) ==
    UNION {UNION {Maybe("block", blocks, m) : m \in Maybe("id", blocks \cup {"a"}, n)} :
               n \in Maybe("block_type", {"T"}, <<>>)}

Names == UNION {Maybe("instance_name", {"", "b"}, m) : m \in Maybe("name", {"c"}, <<>>)}

Parts ==
    UNION {UNION {{[parameters |-> n, raw_parameters |-> intent],
                   [parameters |-> n @@ intent, raw_parameters |-> [name |-> "d"]],
                   [parameters |-> n @@ intent]} :
               intent \in Intents} : n \in Maybe("name", {"", "a"}, <<>>)}

AnyBlock == {t @@ n @@ p : t \in Types({"", "T"}), n \in Names, p \in Parts}

\* Fewer fields, to meet another block.
SomeBlock ==
    {t @@ n @@ [parameters |-> p @@ intent] :
        t \in Types({"T"}), n \in Maybe("instance_name", {"a", "b"}, <<>>),
        p \in Maybe("name", {"a"}, <<>>), intent \in Intents}

\* Blocks in the forms that the tests and the README have.
UsualBlock ==
    {t @@ [parameters |-> intent] : intent \in Intents,
        t \in {[id |-> "T", instance_name |-> "a"], [block |-> "T", id |-> "b"],
               [block_type |-> "T", instance_name |-> "b"]}}
    \cup {[id |-> "T", parameters |-> [name |-> "a"] @@ intent] : intent \in Intents}

MCGraphs == {<<a>> : a \in AnyBlock} \cup {<<a, b>> : a \in SomeBlock, b \in UsualBlock}

\* Only types in the fields that may hold one, and the block field may be empty.
TypedBlock ==
    {t @@ [parameters |-> intent, instance_name |-> "a"] :
        t \in Maybe("block", {"", "T"}, [id |-> "T"]), intent \in Intents}

TypedGraphs == {<<a>> : a \in TypedBlock} \cup {<<a, b>> : a \in TypedBlock, b \in UsualBlock}
=============================================================================
