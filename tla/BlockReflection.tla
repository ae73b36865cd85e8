--------------------------- MODULE BlockReflection ----------------------------
(***************************************************************************)
(* From a block in a library to the body of GET /blocks/{id}: the child    *)
(* process instantiates and reflects the block and writes a descriptor as  *)
(* JSON, the parent parses it (BlockCatalog has the processes and what     *)
(* becomes of a child that fails), and the route writes it out again.      *)
(*                                                                         *)
(* A descriptor is a record of optional fields; in JSON the absent ones    *)
(* have no key.  A value of a setting is a pair of its kind and what the   *)
(* code tells apart of it.  A word (a name of a port or a part of a name   *)
(* of a parameter) is a pair of a stem and an ending; a parameter's name   *)
(* is a pair of a pattern and a word.  Parameters are a function of their  *)
(* names: the code keeps them sorted.  An identifier is the sequence of    *)
(* its texts between "::".                                                 *)
(***************************************************************************)
EXTENDS Integers, SequencesExt

CONSTANTS
    Block,       \* the blocks, and what each says of itself
    Qualified,   \* texts that contain "::"
    Punctuated,  \* texts that contain one of "<>(),"
    Binary,      \* texts that are not UTF-8
    None,        \* std::nullopt
    IntMax,      \* std::numeric_limits<int>::max()
    PortLimit    \* the most ports of n_inputs, n_outputs and n_ports (32)

VARIABLES
    at,          \* how far the block has come
    block,       \* what the block says of itself
    reflected,   \* the child's descriptor
    payload,     \* what is in the pipe
    descriptor,  \* the parent's descriptor
    body         \* of the response

vars == <<at, block, reflected, payload, descriptor, body>>

Null  == <<"null", None>>
Int32 == -IntMax - 1 .. IntMax

Kind == {"bool", "int", "float", "string", "complex", "map", "tensor"}

\* A block: its identifier, the first template argument in it, what typeName(),
\* name() and metaInformation() say, its settings with the metadata of each, and
\* its ports and collections of ports.
ASSUME ReflectionAssumption ==
    /\ IntMax \in Nat /\ PortLimit \in 1 .. IntMax
    /\ \A b \in Block :
          /\ \A n \in DOMAIN b.settings :
                LET v == b.settings[n].value
                IN  /\ v = <<v[1], v[2]>> /\ v[1] \in Kind
                    /\ v[1] = "int" => v[2] \in Int
          /\ \A i \in DOMAIN b.inputs : b.inputs[i].ports \in 0 .. IntMax
          /\ \A i \in DOMAIN b.outputs : b.outputs[i].ports \in 0 .. IntMax

\* An absent field is told from every value.
ASSUME NoneAssumption ==
    /\ None \notin Int /\ None \notin {"fixed", "dynamic"} /\ Null # None
    /\ \A b \in Block :
          /\ \A n \in DOMAIN b.settings : n # None /\ b.settings[n].value # None
          /\ \A i \in DOMAIN b.inputs : b.inputs[i].name # None
          /\ \A i \in DOMAIN b.outputs : b.outputs[i].name # None

-----------------------------------------------------------------------------
(* Parameters.                                                              *)

\* static_cast<int>
ToInt(n) == ((n + IntMax + 1) % (2 * IntMax + 2)) - IntMax - 1

\* Mutant: the cast without the comparisons.
CastDefault(v) ==
    IF v[1] = "int" THEN <<"int", ToInt(v[2])>>
    ELSE IF v[1] \in {"bool", "float", "string"} THEN v ELSE Null

parameter_default_value(v) ==
    IF \/ v[1] \in {"bool", "float", "string"}
       \/ v[1] = "int" /\ v[2] \in Int32
    THEN v ELSE Null

parameter_type_name(v) == IF v[1] = "tensor" THEN <<v[2], "vector">> ELSE <<v[1]>>

FirstText(a, b) == IF a \notin {None, ""} THEN a ELSE IF b # None THEN b ELSE ""

Immutable(n) == n[1] = "" /\ n[2] \in {<<"name", "">>, <<"unique_name", "">>}
Advanced(n)  ==
    n[1] = "" /\ n[2] \in {<<"compute_domain", "">>, <<"disconnect_on_done", "">>,
                           <<"ui_constraint", "s">>, <<"input_chunk_size", "">>,
                           <<"output_chunk_size", "">>, <<"stride", "">>}

\* The optional fields enum_labels, enum_source and allow_custom_value are never
\* set here.
Parameter(n, s) ==
    [name |-> n, type |-> parameter_type_name(s.value), required |-> FALSE,
     default_value      |-> parameter_default_value(s.value),
     summary            |-> FirstText(s.description, s.documentation),
     runtime_mutability |-> IF Immutable(n) THEN "immutable" ELSE None,
     value_kind         |-> IF s.value[1] \in {"map", "tensor"} THEN None ELSE "scalar",
     enum_choices       |-> s.enum_values,
     enum_type          |-> s.enum_type,
     ui_hint            |-> IF Immutable(n) THEN "read_only"
                            ELSE IF Advanced(n) THEN "advanced" ELSE None]

to_parameters(b) == [n \in DOMAIN b.settings |-> Parameter(n, b.settings[n])]

-----------------------------------------------------------------------------
(* Ports.                                                                   *)

Singular(w) == CASE w[2] = "ies" -> <<w[1], "y">> [] w[2] = "s" -> <<w[1], "">> [] OTHER -> w
Plural(w)   == CASE w[2] = "y" -> <<w[1], "ies">> [] w[2] = "" -> <<w[1], "s">> [] OTHER -> w

Aliases(w, isInput) ==
    LET side == IF isInput THEN "input" ELSE "output"
    IN  <<w, Singular(w), Plural(w), <<IF isInput THEN "in" ELSE "out", "">>,
          <<side, "">>, <<side, "s">>>>

Patterns == <<"n_", "num_", "", "_count", "count_">>

Candidate(aliases, k) == <<Patterns[((k - 1) % 5) + 1], aliases[((k - 1) \div 5) + 1]>>

\* Mutant: both directions' names are tried for either.
CandidatesOfBoth(w, isInput) ==
    [k \in 1 .. 60 |-> Candidate(Aliases(w, TRUE) \o Aliases(w, FALSE), k)]

\* In the order in which they are tried: each alias in five patterns.  The code
\* drops repetitions.
Candidates(w, isInput) == [k \in 1 .. 30 |-> Candidate(Aliases(w, isInput), k)]

FirstOf(candidates, names) ==
    LET found == {k \in DOMAIN candidates : candidates[k] \in names}
    IN  IF found = {} THEN None
        ELSE candidates[CHOOSE k \in found : \A j \in found : k <= j]

infer_collection_size_parameter(w, isInput, names) == FirstOf(Candidates(w, isInput), names)

\* port_count_lower_bound, port_count_upper_bound
Bounded == {<<"n_", <<"input", "s">>>>, <<"n_", <<"output", "s">>>>, <<"n_", <<"port", "s">>>>}

\* Mutant: only the upper bound is kept.
ClampAbove(n, min, max) == IF max >= 0 /\ n > max THEN max ELSE n

Clamp(n, min, max) ==
    LET raised == IF n < min THEN min ELSE n
    IN  IF max >= 0 /\ raised > max THEN max ELSE raised

infer_collection_render_port_count(size, parameters, count, min, max) ==
    IF size # None /\ parameters[size].default_value[1] = "int"
    THEN Clamp(parameters[size].default_value[2], min, max)
    ELSE IF count > 0 THEN count ELSE IF min > 0 THEN min ELSE None

to_port_descriptor(port, b, parameters, isInput) ==
    IF ~ port.collection
    THEN [name |-> port.name, type |-> port.type, cardinality_kind |-> "fixed",
          current_port_count |-> 1, render_port_count |-> 1,
          min_port_count |-> 1, max_port_count |-> 1,
          size_parameter |-> None, handle_name_template |-> None]
    ELSE LET size == infer_collection_size_parameter(port.name, isInput, DOMAIN parameters)
             min  == IF size \in Bounded \/ port.ports # 0 THEN 1 ELSE 0
             max  == IF size \in Bounded THEN PortLimit ELSE -1
         IN  [name |-> port.name,
              type |-> FirstText(IF port.ports = 0 THEN "" ELSE port.type, b.argument),
              cardinality_kind |-> "dynamic", current_port_count |-> port.ports,
              render_port_count |->
                  infer_collection_render_port_count(size, parameters, port.ports, min, max),
              min_port_count |-> min, max_port_count |-> max,
              size_parameter |-> size, handle_name_template |-> <<port.name, "#index">>]

to_ports(ports, b, parameters, isInput) ==
    [i \in DOMAIN ports |-> to_port_descriptor(ports[i], b, parameters, isInput)]

-----------------------------------------------------------------------------
(* The block.                                                               *)

derive_category_from_block_id(id) ==
    LET segments == SelectSeq(id, LAMBDA segment : segment # "")
        inside   == IF segments # <<>> /\ Head(segments) = "gr" THEN Tail(segments)
                                                               ELSE segments
    IN  IF Len(inside) < 2 THEN <<"Uncategorized">> ELSE Front(inside)

is_sane_explicit_category(c) == c # "" /\ c \notin Punctuated

block_category(b) ==
    IF b.category # None /\ is_sane_explicit_category(b.category)
    THEN <<b.category>> ELSE derive_category_from_block_id(b.id)

\* A derived name is the identifier's last part, in title case.
block_name(b) ==
    IF b.name # "" /\ <<b.name>> # b.id /\ b.name \notin Qualified
    THEN <<b.name>> ELSE <<"title">> \o b.id

reflect_block(b) ==
    LET parameters == to_parameters(b)
    IN  [id |-> b.id,
         canonical_type |-> IF b.typeName = "" THEN None ELSE b.typeName,
         name |-> block_name(b), category |-> block_category(b),
         summary |-> IF b.description = None THEN "" ELSE b.description,
         inputs  |-> to_ports(b.inputs, b, parameters, TRUE),
         outputs |-> to_ports(b.outputs, b, parameters, FALSE),
         parameters |-> parameters]

-----------------------------------------------------------------------------
(* JSON.                                                                    *)

\* nlohmann::json::dump writes null for a number that is not finite.
Dumped(v) == IF v = <<"float", "not finite">> THEN Null ELSE v

\* A key for each field that has a value, and back.
Object(fields) == [k \in {k \in DOMAIN fields : fields[k] # None} |-> fields[k]]
Fields(object, names) ==
    [k \in names |-> IF k \in DOMAIN object THEN object[k] ELSE None]

PortField == {"name", "type", "cardinality_kind", "current_port_count",
              "render_port_count", "min_port_count", "max_port_count",
              "size_parameter", "handle_name_template"}
ParameterField == {"name", "type", "required", "default_value", "summary",
                   "runtime_mutability", "value_kind", "enum_choices", "enum_type",
                   "ui_hint"}

\* Mutant: a key that only collections have is not looked up.
ParsePortWithoutSize(object) == Fields(object, PortField \ {"size_parameter"})

parse_port_descriptor(object) == Fields(object, PortField)

parse_default_value(v) ==
    IF v[1] = "int" THEN <<"int", ToInt(v[2])>> ELSE v

parse_parameter_descriptor(object) ==
    [Fields(object, ParameterField) EXCEPT !.default_value = parse_default_value(@)]

parameter_to_json(p) == Object([p EXCEPT !.default_value = Dumped(@)])

\* Here, a canonical_type of None stands for an absent key.
to_json(d) ==
    [d EXCEPT !.inputs     = [i \in DOMAIN d.inputs |-> Object(d.inputs[i])],
              !.outputs    = [i \in DOMAIN d.outputs |-> Object(d.outputs[i])],
              !.parameters = [n \in DOMAIN d.parameters |-> parameter_to_json(d.parameters[n])]]

parse_block_descriptor(json) ==
    [json EXCEPT
        !.inputs     = [i \in DOMAIN json.inputs |-> parse_port_descriptor(json.inputs[i])],
        !.outputs    = [i \in DOMAIN json.outputs |-> parse_port_descriptor(json.outputs[i])],
        !.parameters = [n \in DOMAIN json.parameters |->
                            parse_parameter_descriptor(json.parameters[n])]]

\* The body calls a default "default".
block_to_json(d) == [to_json(d) EXCEPT !.canonical_type = None]

\* dump throws if one of the block's own texts is not UTF-8; those that name C++
\* types, enumerators and what is derived from them are taken to be.
Dumpable(d) ==
    /\ d.name \notin {<<t>> : t \in Binary} /\ d.summary \notin Binary
    /\ \A n \in DOMAIN d.parameters :
          LET p == d.parameters[n]
          IN  /\ p.summary \notin Binary
              /\ p.default_value[1] = "string" => p.default_value[2] \notin Binary

-----------------------------------------------------------------------------
(* The block's way.                                                         *)

Init ==
    /\ block \in Block
    /\ at = "forked"
    /\ reflected = None /\ payload = None /\ descriptor = None /\ body = None

\* By a retained loader or the registry; neither may have the block, and its
\* constructor may throw.
Instantiate ==
    /\ at = "forked"
    /\ at' \in {"instantiated", "skipped"}
    /\ UNCHANGED <<block, reflected, payload, descriptor, body>>

Reflect ==
    /\ at = "instantiated"
    /\ \/ at' = "reflected" /\ reflected' = reflect_block(block)
       \/ at' = "skipped" /\ UNCHANGED reflected
    /\ UNCHANGED <<block, payload, descriptor, body>>

\* What does not fit into a broken pipe is lost.
Write ==
    /\ at = "reflected"
    /\ IF Dumpable(reflected)
       THEN /\ at' \in {"written", "truncated"}
            /\ payload' = to_json(reflected)
       ELSE at' = "skipped" /\ UNCHANGED payload
    /\ UNCHANGED <<block, reflected, descriptor, body>>

Parse ==
    /\ \/ at = "written" /\ at' = "listed" /\ descriptor' = parse_block_descriptor(payload)
       \/ at = "truncated" /\ at' = "skipped" /\ UNCHANGED descriptor
    /\ UNCHANGED <<block, reflected, payload, body>>

\* GET /blocks/{id}, and each entry of GET /blocks.
Show ==
    /\ at = "listed"
    /\ at' = "shown"
    /\ body' = block_to_json(descriptor)
    /\ UNCHANGED <<block, reflected, payload, descriptor>>

Next == Instantiate \/ Reflect \/ Write \/ Parse \/ Show

Spec == Init /\ [][Next]_vars

-----------------------------------------------------------------------------
(* Properties.                                                              *)

\* The body shows the block as the child saw it: every field of the descriptor
\* that has a value, and no other, has come through the pipe and both
\* conversions; only defaults that JSON cannot express have become null
\* (to_json, parse_block_descriptor, block_to_json).
ShownAsReflected ==
    at = "shown" =>
        /\ \A k \in {"id", "name", "category", "summary"} : body[k] = reflected[k]
        /\ \A side \in {"inputs", "outputs"} :
              /\ DOMAIN body[side] = DOMAIN block[side]
              /\ \A i \in DOMAIN body[side], k \in PortField :
                    IF k \in DOMAIN body[side][i] THEN body[side][i][k] = reflected[side][i][k]
                                                  ELSE reflected[side][i][k] = None
        /\ DOMAIN body.parameters = DOMAIN block.settings
        /\ \A n \in DOMAIN body.parameters, k \in ParameterField :
              LET now == body.parameters[n]
                  was == reflected.parameters[n]
              IN  IF k \in DOMAIN now
                  THEN \/ now[k] = was[k]
                       \/ /\ k = "default_value" /\ now[k] = Null
                          /\ was[k] = <<"float", "not finite">>
                  ELSE was[k] = None

\* A default that is shown is the value the block has, never another one: what
\* does not fit into an int, or is no scalar, is shown as null
\* (parameter_default_value, parse_default_value).
DefaultsNeverWrap ==
    at = "shown" =>
        \A n \in DOMAIN body.parameters :
            LET shown == body.parameters[n].default_value
                value == block.settings[n].value
            IN  \/ shown = value
                \/ /\ shown = Null
                   /\ \/ value[1] \in {"complex", "map", "tensor"}
                      \/ value[1] = "int" /\ value[2] \notin Int32
                      \/ value = <<"float", "not finite">>

\* A client that draws render_port_count ports draws a legal number of them, or
\* as many as the block has; without that count the block has no ports, and
\* needs none (infer_collection_render_port_count).
PortsCanBeDrawn ==
    at = "shown" =>
        \A side \in {"inputs", "outputs"} : \A i \in DOMAIN body[side] :
            LET p == body[side][i]
            IN  IF "render_port_count" \in DOMAIN p
                THEN /\ p.min_port_count <= p.render_port_count
                     /\ \/ p.max_port_count < 0
                        \/ p.render_port_count <= p.max_port_count
                        \/ p.render_port_count = p.current_port_count
                ELSE p.min_port_count = 0 /\ p.current_port_count = 0

\* The parameter that sizes a collection is one of the block's; it is the one
\* with n_ and the collection's own name if there is one, and it never counts
\* the other direction, unless the collection itself has such a name
\* (infer_collection_size_parameter).
SizedByItsOwnParameter ==
    at = "shown" =>
        \A side \in {"inputs", "outputs"} : \A i \in DOMAIN body[side] :
            LET p     == body[side][i]
                other == IF side = "inputs" THEN {"out", "output"} ELSE {"in", "input"}
            IN  /\ "size_parameter" \in DOMAIN p =>
                      /\ p.size_parameter \in DOMAIN body.parameters
                      /\ p.size_parameter[2][1] \in other => p.name[1] \in other
                /\ p.cardinality_kind = "dynamic"
                      /\ <<"n_", p.name>> \in DOMAIN body.parameters =>
                          /\ "size_parameter" \in DOMAIN p
                          /\ p.size_parameter = <<"n_", p.name>>

\* What a client may rely on to read a body: every default is one that JSON can
\* express, the integers among them and the numbers of ports fit into an int, and
\* the bounds are ones that clients know (block_to_json).
TypeOK ==
    /\ at \in {"forked", "instantiated", "reflected", "written", "truncated",
               "listed", "shown", "skipped"}
    /\ at = "shown" =>
          /\ \A n \in DOMAIN body.parameters :
                LET v == body.parameters[n].default_value
                IN  /\ v[1] \in {"null", "bool", "int", "float", "string"}
                    /\ v[1] = "int" => v[2] \in Int32
                    /\ v # <<"float", "not finite">>
          /\ \A side \in {"inputs", "outputs"} : \A i \in DOMAIN body[side] :
                LET p == body[side][i]
                IN  /\ p.cardinality_kind \in {"fixed", "dynamic"}
                    /\ p.current_port_count \in 0 .. IntMax
                    /\ p.min_port_count \in {0, 1}
                    /\ p.max_port_count \in {-1, 1, PortLimit}
                    /\ "render_port_count" \in DOMAIN p => p.render_port_count \in Int32
=============================================================================
