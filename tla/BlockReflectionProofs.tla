------------------------ MODULE BlockReflectionProofs -------------------------
(***************************************************************************)
(* Proofs about BlockReflection, for any blocks, any width of int and any  *)
(* limit of ports: a body can be read by any client, and what is shown of  *)
(* a block in it is what the child saw.                                    *)
(*                                                                         *)
(* The inductive invariant, Stages, only says that each stage has what the *)
(* one before it produced, and gives the body as a function of the block;  *)
(* ShownBody simplifies it with the fact that the two conversions undo     *)
(* each other (RoundTrip), and the properties follow from ShownBody.       *)
(***************************************************************************)
EXTENDS BlockReflection, WellFoundedInduction, TLAPS

\* A block is skipped without a descriptor, or shown.
Stages ==
    /\ at \in {"forked", "instantiated", "reflected", "written", "truncated",
               "listed", "shown", "skipped"}
    /\ block \in Block
    /\ at \in {"reflected", "written", "truncated", "listed", "shown"} =>
          reflected = reflect_block(block)
    /\ at \in {"written", "truncated", "listed", "shown"} => payload = to_json(reflected)
    /\ at \in {"listed", "shown"} => descriptor = parse_block_descriptor(payload)
    /\ at = "shown" => body = block_to_json(descriptor)
    /\ at \in {"forked", "instantiated"} => reflected = None
    /\ at \notin {"listed", "shown"} => descriptor = None /\ body = None

LEMMA InitStages == Init => Stages
BY DEF Init, Stages

LEMMA StepStages == Stages /\ [Next]_vars => Stages'
<1> SUFFICES ASSUME Stages, [Next]_vars PROVE Stages'
    OBVIOUS
<1> USE DEF Stages
<1>1. CASE Instantiate
    BY <1>1 DEF Instantiate
<1>2. CASE Reflect
    BY <1>2 DEF Reflect
<1>3. CASE Write
    BY <1>3 DEF Write
<1>4. CASE Parse
    BY <1>4 DEF Parse
<1>5. CASE Show
    BY <1>5 DEF Show
<1>6. CASE UNCHANGED vars
    BY <1>6 DEF vars
<1> QED
    BY <1>1, <1>2, <1>3, <1>4, <1>5, <1>6 DEF Next

LEMMA StagesAlways == Spec => []Stages
<1>1. Init => Stages
    BY InitStages
<1>2. Stages /\ [Next]_vars => Stages'
    BY StepStages
<1> QED
    BY <1>1, <1>2, PTL DEF Spec

-----------------------------------------------------------------------------
(* The two conversions.                                                     *)

\* An object that was written field by field and is read field by field.
LEMMA RoundTrip ==
    ASSUME NEW S, NEW f, f = [k \in S |-> f[k]]
    PROVE  Fields(Object(f), S) = f
<1>1. DOMAIN f = S
    OBVIOUS
<1>2. \A k \in S : Fields(Object(f), S)[k] = f[k]
    BY <1>1 DEF Fields, Object
<1>3. Fields(Object(f), S) = [k \in S |-> Fields(Object(f), S)[k]]
    BY DEF Fields
<1> QED
    BY <1>2, <1>3

LEMMA IntKept ==
    ASSUME NEW n \in Int32
    PROVE  ToInt(n) = n
<1>1. IntMax \in Nat /\ n \in Int /\ -IntMax - 1 <= n /\ n <= IntMax
    BY ReflectionAssumption DEF Int32
<1> DEFINE m == 2 * IntMax + 2
           k == n + IntMax + 1
<1>2. m \in Nat /\ m > 0 /\ k \in 0 .. m - 1
    BY <1>1
<1>3. k % m = k
    <2> HIDE DEF m, k
    <2> QED BY <1>2
<1> QED
    BY <1>1, <1>3 DEF ToInt

LEMMA NotEqualFirst ==
    ASSUME NEW v, v[1] = "int"
    PROVE  v # <<"float", "not finite">>
<1> SUFFICES ASSUME v = <<"float", "not finite">> PROVE FALSE
    OBVIOUS
<1>1. <<"float", "not finite">>[1] = "float"
    OBVIOUS
<1> QED
    BY <1>1

\* What becomes of a default on its way.
ShownDefault(v) == Dumped(parse_default_value(Dumped(parameter_default_value(v))))

\* A default is shown as it is, or as null if it cannot be.
LEMMA DefaultKept ==
    ASSUME NEW b \in Block, NEW n \in DOMAIN b.settings
    PROVE  LET v == b.settings[n].value
           IN  \/ ShownDefault(v) = v
               \/ /\ ShownDefault(v) = Null
                  /\ \/ v[1] \in {"complex", "map", "tensor"}
                     \/ v[1] = "int" /\ v[2] \notin Int32
                     \/ v = <<"float", "not finite">>
<1> DEFINE v == b.settings[n].value
<1>1. v = <<v[1], v[2]>> /\ v[1] \in Kind
    BY ReflectionAssumption
<1>2. parse_default_value(Null) = Null /\ Dumped(Null) = Null
    BY DEF parse_default_value, Dumped, Null
<1> HIDE DEF v
<1>3. CASE v[1] = "int" /\ v[2] \in Int32
    <2>1. Dumped(v) = v
        <3>1. v # <<"float", "not finite">>
            BY <1>3, NotEqualFirst
        <3> QED
            BY <3>1 DEF Dumped
    <2>2. parse_default_value(v) = v
        BY <1>3, <1>1, IntKept DEF parse_default_value
    <2> QED
        BY <2>1, <2>2, <1>3 DEF ShownDefault, parameter_default_value, v
<1>4. CASE v[1] \in {"bool", "float", "string"}
    <2>1. parameter_default_value(v) = v /\ parse_default_value(v) = v
        BY <1>4 DEF parameter_default_value, parse_default_value
    <2>2. CASE v = <<"float", "not finite">>
        BY <2>1, <2>2, <1>2 DEF ShownDefault, Dumped, v
    <2>3. CASE v # <<"float", "not finite">>
        BY <2>1, <2>3 DEF ShownDefault, Dumped, v
    <2> QED
        BY <2>2, <2>3
<1>5. CASE \/ v[1] \in {"complex", "map", "tensor"}
           \/ v[1] = "int" /\ v[2] \notin Int32
    <2>1. parameter_default_value(v) = Null
        BY <1>5 DEF parameter_default_value
    <2> QED
        BY <2>1, <1>2, <1>5 DEF ShownDefault, v
<1> QED
    BY <1>1, <1>3, <1>4, <1>5 DEF Kind

\* The pipe keeps what was reflected.
LEMMA DefaultReflected ==
    ASSUME NEW b \in Block, NEW n \in DOMAIN b.settings
    PROVE  LET v == b.settings[n].value
               d == parameter_default_value(v)
           IN  ShownDefault(v) = d \/ (ShownDefault(v) = Null /\ d = <<"float", "not finite">>)
<1> DEFINE v == b.settings[n].value
           d == parameter_default_value(v)
<1>1. d = v \/ d = Null
    BY DEF parameter_default_value
<1>2. CASE d = Null
    BY <1>2 DEF ShownDefault, parse_default_value, Dumped, Null
<1>3. CASE d = v /\ d # Null
    <2>1. v[1] = "int" => v[2] \in Int32
        BY <1>3 DEF parameter_default_value
    <2>2. v[1] \notin {"complex", "map", "tensor"}
        BY <1>3 DEF parameter_default_value
    <2>3. \/ ShownDefault(v) = v
          \/ ShownDefault(v) = Null /\ v = <<"float", "not finite">>
        BY <2>1, <2>2, DefaultKept
    <2> QED
        BY <1>3, <2>3
<1> QED
    BY <1>1, <1>2, <1>3

LEMMA InputsKept ==
    ASSUME NEW ports, NEW b, NEW parameters, NEW i \in DOMAIN ports
    PROVE  LET p == to_ports(ports, b, parameters, TRUE)[i]
           IN  parse_port_descriptor(Object(p)) = p
<1> DEFINE p == to_ports(ports, b, parameters, TRUE)[i]
<1>1. p = to_port_descriptor(ports[i], b, parameters, TRUE)
    BY DEF to_ports
<1>2. p = [k \in PortField |-> p[k]]
    BY <1>1 DEF to_port_descriptor, PortField
<1> HIDE DEF p
<1>3. parse_port_descriptor(Object(p)) = p
    BY <1>2, RoundTrip DEF parse_port_descriptor
<1> QED
    BY <1>3 DEF p

LEMMA OutputsKept ==
    ASSUME NEW ports, NEW b, NEW parameters, NEW i \in DOMAIN ports
    PROVE  LET p == to_ports(ports, b, parameters, FALSE)[i]
           IN  parse_port_descriptor(Object(p)) = p
<1> DEFINE p == to_ports(ports, b, parameters, FALSE)[i]
<1>1. p = to_port_descriptor(ports[i], b, parameters, FALSE)
    BY DEF to_ports
<1>2. p = [k \in PortField |-> p[k]]
    BY <1>1 DEF to_port_descriptor, PortField
<1> HIDE DEF p
<1>3. parse_port_descriptor(Object(p)) = p
    BY <1>2, RoundTrip DEF parse_port_descriptor
<1> QED
    BY <1>3 DEF p

\* A parameter in the body.
ParameterBody(n, s) ==
    Object([Parameter(n, s) EXCEPT !.default_value = ShownDefault(s.value)])

LEMMA ParameterKept ==
    ASSUME NEW n, NEW s
    PROVE  parameter_to_json(parse_parameter_descriptor(parameter_to_json(Parameter(n, s))))
              = ParameterBody(n, s)
<1> DEFINE p == Parameter(n, s)
           q == [p EXCEPT !.default_value = Dumped(@)]
           r == [q EXCEPT !.default_value = parse_default_value(@)]
<1>1. q = [k \in ParameterField |-> q[k]]
    BY DEF Parameter, ParameterField
<1>2. parameter_to_json(p) = Object(q)
    BY DEF parameter_to_json
<1>3. Fields(Object(q), ParameterField) = q
    <2> HIDE DEF q
    <2> QED BY <1>1, RoundTrip
<1>4. parse_parameter_descriptor(parameter_to_json(p)) = r
    <2> HIDE DEF q
    <2> QED BY <1>2, <1>3 DEF parse_parameter_descriptor
<1>5. [r EXCEPT !.default_value = Dumped(@)]
        = [p EXCEPT !.default_value = ShownDefault(s.value)]
    BY DEF Parameter, ShownDefault
<1> HIDE DEF p, q, r
<1>6. parameter_to_json(r) = Object([p EXCEPT !.default_value = ShownDefault(s.value)])
    BY <1>5 DEF parameter_to_json
<1> QED
    BY <1>4, <1>6 DEF ParameterBody, p

\* The body that is shown.
LEMMA ShownBody ==
    ASSUME Stages, at = "shown"
    PROVE  /\ block \in Block /\ reflected = reflect_block(block)
           /\ reflected.inputs = to_ports(block.inputs, block, to_parameters(block), TRUE)
           /\ reflected.outputs = to_ports(block.outputs, block, to_parameters(block), FALSE)
           /\ \A k \in {"id", "name", "category", "summary"} : body[k] = reflected[k]
           /\ body.inputs = [i \in DOMAIN block.inputs |-> Object(reflected.inputs[i])]
           /\ body.outputs = [i \in DOMAIN block.outputs |-> Object(reflected.outputs[i])]
           /\ body.parameters = [n \in DOMAIN block.settings |->
                                    ParameterBody(n, block.settings[n])]
<1> DEFINE R == reflect_block(block)
           J == to_json(R)
           D == parse_block_descriptor(J)
           parameters == to_parameters(block)
<1>1. block \in Block /\ reflected = R /\ body = block_to_json(D)
    BY DEF Stages
<1>2. /\ R.inputs = to_ports(block.inputs, block, parameters, TRUE)
      /\ R.outputs = to_ports(block.outputs, block, parameters, FALSE)
      /\ R.parameters = parameters
    BY DEF reflect_block
<1>3. /\ R.inputs = [i \in DOMAIN block.inputs |-> R.inputs[i]]
      /\ R.outputs = [i \in DOMAIN block.outputs |-> R.outputs[i]]
      /\ \A i \in DOMAIN block.inputs : parse_port_descriptor(Object(R.inputs[i])) = R.inputs[i]
      /\ \A i \in DOMAIN block.outputs : parse_port_descriptor(Object(R.outputs[i])) = R.outputs[i]
    <2> HIDE DEF R, parameters
    <2>1. /\ R.inputs = [i \in DOMAIN block.inputs |-> R.inputs[i]]
          /\ R.outputs = [i \in DOMAIN block.outputs |-> R.outputs[i]]
        BY <1>2 DEF to_ports
    <2>2. \A i \in DOMAIN block.inputs : parse_port_descriptor(Object(R.inputs[i])) = R.inputs[i]
        <3> TAKE i \in DOMAIN block.inputs
        <3> DEFINE p == to_ports(block.inputs, block, parameters, TRUE)[i]
        <3>1. parse_port_descriptor(Object(p)) = p
            BY InputsKept
        <3> QED
            BY <1>2, <3>1
    <2>3. \A i \in DOMAIN block.outputs : parse_port_descriptor(Object(R.outputs[i])) = R.outputs[i]
        <3> TAKE i \in DOMAIN block.outputs
        <3> DEFINE p == to_ports(block.outputs, block, parameters, FALSE)[i]
        <3>1. parse_port_descriptor(Object(p)) = p
            BY OutputsKept
        <3> QED
            BY <1>2, <3>1
    <2> QED
        BY <2>1, <2>2, <2>3
<1>4. /\ J.inputs = [i \in DOMAIN block.inputs |-> Object(R.inputs[i])]
      /\ J.outputs = [i \in DOMAIN block.outputs |-> Object(R.outputs[i])]
      /\ J.parameters = [n \in DOMAIN block.settings |->
                            parameter_to_json(Parameter(n, block.settings[n]))]
      /\ J = [k \in {"id", "canonical_type", "name", "category", "summary", "inputs",
                     "outputs", "parameters"} |-> J[k]]
      /\ \A k \in {"id", "name", "category", "summary"} : J[k] = R[k]
    <2>1. R = [k \in {"id", "canonical_type", "name", "category", "summary", "inputs",
                      "outputs", "parameters"} |-> R[k]]
        BY DEF reflect_block
    <2>2. DOMAIN R.parameters = DOMAIN block.settings
          /\ \A n \in DOMAIN block.settings :
                R.parameters[n] = Parameter(n, block.settings[n])
        BY <1>2 DEF to_parameters
    <2>3. DOMAIN R.inputs = DOMAIN block.inputs /\ DOMAIN R.outputs = DOMAIN block.outputs
        BY <1>3
    <2> HIDE DEF R, parameters
    <2>4. J = [k \in {"id", "canonical_type", "name", "category", "summary", "inputs",
                      "outputs", "parameters"} |-> J[k]]
          /\ \A k \in {"id", "name", "category", "summary"} : J[k] = R[k]
        BY <2>1 DEF to_json
    <2>5. J.inputs = [i \in DOMAIN R.inputs |-> Object(R.inputs[i])]
        BY <2>1 DEF to_json
    <2>6. J.outputs = [i \in DOMAIN R.outputs |-> Object(R.outputs[i])]
        BY <2>1 DEF to_json
    <2>7. J.parameters = [n \in DOMAIN R.parameters |-> parameter_to_json(R.parameters[n])]
        BY <2>1 DEF to_json
    <2> HIDE DEF J
    <2>8. J.parameters = [n \in DOMAIN block.settings |->
                             parameter_to_json(Parameter(n, block.settings[n]))]
        BY <2>2, <2>7
    <2> QED
        BY <2>3, <2>4, <2>5, <2>6, <2>8
<1>5. /\ D.inputs = [i \in DOMAIN block.inputs |-> R.inputs[i]]
      /\ D.outputs = [i \in DOMAIN block.outputs |-> R.outputs[i]]
      /\ D.parameters = [n \in DOMAIN block.settings |-> parse_parameter_descriptor(
                            parameter_to_json(Parameter(n, block.settings[n])))]
      /\ D = [k \in {"id", "canonical_type", "name", "category", "summary", "inputs",
                     "outputs", "parameters"} |-> D[k]]
      /\ \A k \in {"id", "name", "category", "summary"} : D[k] = R[k]
    <2> HIDE DEF J, R, parameters
    <2>1. D = [k \in {"id", "canonical_type", "name", "category", "summary", "inputs",
                      "outputs", "parameters"} |-> D[k]]
          /\ \A k \in {"id", "name", "category", "summary"} : D[k] = J[k]
        BY <1>4 DEF parse_block_descriptor
    <2>2. D.inputs = [i \in DOMAIN J.inputs |-> parse_port_descriptor(J.inputs[i])]
        BY <1>4 DEF parse_block_descriptor
    <2>3. D.outputs = [i \in DOMAIN J.outputs |-> parse_port_descriptor(J.outputs[i])]
        BY <1>4 DEF parse_block_descriptor
    <2>4. D.parameters = [n \in DOMAIN J.parameters |->
                             parse_parameter_descriptor(J.parameters[n])]
        BY <1>4 DEF parse_block_descriptor
    <2> HIDE DEF D
    <2>5. D.inputs = [i \in DOMAIN block.inputs |-> R.inputs[i]]
        <3>1. DOMAIN J.inputs = DOMAIN block.inputs
              /\ \A i \in DOMAIN block.inputs : J.inputs[i] = Object(R.inputs[i])
            BY <1>4
        <3>2. \A i \in DOMAIN block.inputs : parse_port_descriptor(J.inputs[i]) = R.inputs[i]
            BY <3>1, <1>3
        <3> QED
            BY <3>1, <3>2, <2>2
    <2>6. D.outputs = [i \in DOMAIN block.outputs |-> R.outputs[i]]
        <3>1. DOMAIN J.outputs = DOMAIN block.outputs
              /\ \A i \in DOMAIN block.outputs : J.outputs[i] = Object(R.outputs[i])
            BY <1>4
        <3>2. \A i \in DOMAIN block.outputs : parse_port_descriptor(J.outputs[i]) = R.outputs[i]
            BY <3>1, <1>3
        <3> QED
            BY <3>1, <3>2, <2>3
    <2>7. D.parameters = [n \in DOMAIN block.settings |-> parse_parameter_descriptor(
                             parameter_to_json(Parameter(n, block.settings[n])))]
        BY <2>4, <1>4
    <2> QED
        BY <2>1, <2>5, <2>6, <2>7, <1>4
<1>6. /\ body.inputs = [i \in DOMAIN block.inputs |-> Object(R.inputs[i])]
      /\ body.outputs = [i \in DOMAIN block.outputs |-> Object(R.outputs[i])]
      /\ body.parameters = [n \in DOMAIN block.settings |-> parameter_to_json(
            parse_parameter_descriptor(parameter_to_json(Parameter(n, block.settings[n]))))]
      /\ \A k \in {"id", "name", "category", "summary"} : body[k] = R[k]
    <2> HIDE DEF D, J, R, parameters
    <2> QED
        BY <1>1, <1>5 DEF block_to_json, to_json
<1>7. body.parameters = [n \in DOMAIN block.settings |-> ParameterBody(n, block.settings[n])]
    BY <1>6, ParameterKept
<1> QED
    BY <1>1, <1>2, <1>6, <1>7

-----------------------------------------------------------------------------
(* Collections of ports.                                                    *)

LEMMA Smallest ==
    ASSUME NEW S, S \subseteq Nat, S # {}
    PROVE  \E k \in S : \A j \in S : k <= j
<1>1. \E k \in S : \A j \in S : <<j, k>> \notin OpToRel(<, Nat)
    BY NatLessThanWellFounded, WFMin
<1>2. PICK k \in S : \A j \in S : <<j, k>> \notin OpToRel(<, Nat)
    BY <1>1
<1>3. \A j \in S : ~ (j < k)
    BY <1>2 DEF OpToRel
<1> QED
    BY <1>3

LEMMA FirstFound ==
    ASSUME NEW candidates, DOMAIN candidates \subseteq Nat, NEW names,
           NEW found, found = {k \in DOMAIN candidates : candidates[k] \in names}
    PROVE  IF found = {} THEN FirstOf(candidates, names) = None
           ELSE \E k \in found : /\ FirstOf(candidates, names) = candidates[k]
                                 /\ \A j \in found : k <= j
<1> DEFINE k == CHOOSE n \in found : \A j \in found : n <= j
<1>1. found # {} => k \in found /\ \A j \in found : k <= j
    BY Smallest
<1>2. FirstOf(candidates, names) = IF found = {} THEN None ELSE candidates[k]
    BY DEF FirstOf
<1> QED
    BY <1>1, <1>2

LEMMA CandidatesTrue ==
    ASSUME NEW w
    PROVE  LET candidates == Candidates(w, TRUE)
           IN  /\ DOMAIN candidates = 1 .. 30
               /\ candidates[1] = <<"n_", w>>
               /\ \A k \in 1 .. 30 : \/ candidates[k][2][1] = w[1]
                                     \/ candidates[k][2][1] \notin {"out", "output"}
<1> DEFINE candidates == Candidates(w, TRUE)
           aliases == Aliases(w, TRUE)
<1>1. aliases[1] = w
    BY DEF Aliases
<1>2. ASSUME NEW j \in 1 .. 6
      PROVE  aliases[j][1] = w[1] \/ aliases[j][1] \notin {"out", "output"}
    <2>1. Singular(w)[1] = w[1] /\ Plural(w)[1] = w[1]
        BY DEF Singular, Plural
    <2>2. j \in {1, 2, 3, 4, 5, 6}
        OBVIOUS
    <2>3. /\ aliases[2] = Singular(w) /\ aliases[3] = Plural(w)
          /\ aliases[4][1] \notin {"out", "output"} /\ aliases[5][1] \notin {"out", "output"}
          /\ aliases[6][1] \notin {"out", "output"}
        BY DEF Aliases
    <2> HIDE DEF aliases
    <2> QED
        BY <1>1, <2>1, <2>2, <2>3
<1>3. candidates = [k \in 1 .. 30 |-> Candidate(aliases, k)]
    BY DEF Candidates
<1> HIDE DEF candidates, aliases
<1>4. candidates[1] = <<"n_", w>>
    <2>1. ((1 - 1) % 5) + 1 = 1 /\ ((1 - 1) \div 5) + 1 = 1
        OBVIOUS
    <2>2. Patterns[1] = "n_"
        BY DEF Patterns
    <2> QED
        BY <1>1, <1>3, <2>1, <2>2 DEF Candidate
<1>5. ASSUME NEW k \in 1 .. 30
      PROVE  candidates[k][2][1] = w[1] \/ candidates[k][2][1] \notin {"out", "output"}
    <2> DEFINE j == ((k - 1) \div 5) + 1
    <2>1. j \in 1 .. 6
        OBVIOUS
    <2>2. candidates[k][2] = aliases[j]
        BY <1>3 DEF Candidate
    <2> HIDE DEF j
    <2> QED
        BY <1>2, <2>1, <2>2
<1> QED
    BY <1>3, <1>4, <1>5 DEF candidates

LEMMA SizingTrue ==
    ASSUME NEW w, NEW names
    PROVE  LET size == infer_collection_size_parameter(w, TRUE, names)
           IN  /\ size # None => size \in names
               /\ size # None /\ size[2][1] \in {"out", "output"} => w[1] \in {"out", "output"}
               /\ <<"n_", w>> \in names => size = <<"n_", w>>
<1> DEFINE size == infer_collection_size_parameter(w, TRUE, names)
           candidates == Candidates(w, TRUE)
           found == {k \in DOMAIN candidates : candidates[k] \in names}
<1>1. size = FirstOf(candidates, names)
    BY DEF infer_collection_size_parameter
<1>2. /\ DOMAIN candidates = 1 .. 30 /\ candidates[1] = <<"n_", w>>
      /\ \A k \in 1 .. 30 : \/ candidates[k][2][1] = w[1]
                            \/ candidates[k][2][1] \notin {"out", "output"}
    BY CandidatesTrue
<1> HIDE DEF candidates, size
<1>3. DOMAIN candidates \subseteq Nat
    BY <1>2
<1>4. CASE found = {}
    <2>1. <<"n_", w>> \notin names
        BY <1>2, <1>4
    <2>2. size = None
        BY <1>1, <1>3, <1>4, FirstFound
    <2> QED
        BY <2>1, <2>2 DEF size
<1>5. CASE found # {}
    <2>1. PICK k \in found : size = candidates[k] /\ \A j \in found : k <= j
        BY <1>1, <1>3, <1>5, FirstFound
    <2>2. k \in 1 .. 30 /\ size \in names
        BY <1>2, <2>1
    <2>3. size[2][1] \in {"out", "output"} => w[1] \in {"out", "output"}
        BY <1>2, <2>1, <2>2
    <2>4. ASSUME <<"n_", w>> \in names PROVE size = <<"n_", w>>
        <3>1. 1 \in found
            BY <1>2, <2>4
        <3>2. k = 1
            BY <2>1, <2>2, <3>1
        <3> QED
            BY <1>2, <2>1, <3>2
    <2> QED
        BY <2>2, <2>3, <2>4 DEF size
<1> QED
    BY <1>4, <1>5

LEMMA CandidatesFalse ==
    ASSUME NEW w
    PROVE  LET candidates == Candidates(w, FALSE)
           IN  /\ DOMAIN candidates = 1 .. 30
               /\ candidates[1] = <<"n_", w>>
               /\ \A k \in 1 .. 30 : \/ candidates[k][2][1] = w[1]
                                     \/ candidates[k][2][1] \notin {"in", "input"}
<1> DEFINE candidates == Candidates(w, FALSE)
           aliases == Aliases(w, FALSE)
<1>1. aliases[1] = w
    BY DEF Aliases
<1>2. ASSUME NEW j \in 1 .. 6
      PROVE  aliases[j][1] = w[1] \/ aliases[j][1] \notin {"in", "input"}
    <2>1. Singular(w)[1] = w[1] /\ Plural(w)[1] = w[1]
        BY DEF Singular, Plural
    <2>2. j \in {1, 2, 3, 4, 5, 6}
        OBVIOUS
    <2>3. /\ aliases[2] = Singular(w) /\ aliases[3] = Plural(w)
          /\ aliases[4][1] \notin {"in", "input"} /\ aliases[5][1] \notin {"in", "input"}
          /\ aliases[6][1] \notin {"in", "input"}
        BY DEF Aliases
    <2> HIDE DEF aliases
    <2> QED
        BY <1>1, <2>1, <2>2, <2>3
<1>3. candidates = [k \in 1 .. 30 |-> Candidate(aliases, k)]
    BY DEF Candidates
<1> HIDE DEF candidates, aliases
<1>4. candidates[1] = <<"n_", w>>
    <2>1. ((1 - 1) % 5) + 1 = 1 /\ ((1 - 1) \div 5) + 1 = 1
        OBVIOUS
    <2>2. Patterns[1] = "n_"
        BY DEF Patterns
    <2> QED
        BY <1>1, <1>3, <2>1, <2>2 DEF Candidate
<1>5. ASSUME NEW k \in 1 .. 30
      PROVE  candidates[k][2][1] = w[1] \/ candidates[k][2][1] \notin {"in", "input"}
    <2> DEFINE j == ((k - 1) \div 5) + 1
    <2>1. j \in 1 .. 6
        OBVIOUS
    <2>2. candidates[k][2] = aliases[j]
        BY <1>3 DEF Candidate
    <2> HIDE DEF j
    <2> QED
        BY <1>2, <2>1, <2>2
<1> QED
    BY <1>3, <1>4, <1>5 DEF candidates

LEMMA SizingFalse ==
    ASSUME NEW w, NEW names
    PROVE  LET size == infer_collection_size_parameter(w, FALSE, names)
           IN  /\ size # None => size \in names
               /\ size # None /\ size[2][1] \in {"in", "input"} => w[1] \in {"in", "input"}
               /\ <<"n_", w>> \in names => size = <<"n_", w>>
<1> DEFINE size == infer_collection_size_parameter(w, FALSE, names)
           candidates == Candidates(w, FALSE)
           found == {k \in DOMAIN candidates : candidates[k] \in names}
<1>1. size = FirstOf(candidates, names)
    BY DEF infer_collection_size_parameter
<1>2. /\ DOMAIN candidates = 1 .. 30 /\ candidates[1] = <<"n_", w>>
      /\ \A k \in 1 .. 30 : \/ candidates[k][2][1] = w[1]
                            \/ candidates[k][2][1] \notin {"in", "input"}
    BY CandidatesFalse
<1> HIDE DEF candidates, size
<1>3. DOMAIN candidates \subseteq Nat
    BY <1>2
<1>4. CASE found = {}
    <2>1. <<"n_", w>> \notin names
        BY <1>2, <1>4
    <2>2. size = None
        BY <1>1, <1>3, <1>4, FirstFound
    <2> QED
        BY <2>1, <2>2 DEF size
<1>5. CASE found # {}
    <2>1. PICK k \in found : size = candidates[k] /\ \A j \in found : k <= j
        BY <1>1, <1>3, <1>5, FirstFound
    <2>2. k \in 1 .. 30 /\ size \in names
        BY <1>2, <2>1
    <2>3. size[2][1] \in {"in", "input"} => w[1] \in {"in", "input"}
        BY <1>2, <2>1, <2>2
    <2>4. ASSUME <<"n_", w>> \in names PROVE size = <<"n_", w>>
        <3>1. 1 \in found
            BY <1>2, <2>4
        <3>2. k = 1
            BY <2>1, <2>2, <3>1
        <3> QED
            BY <1>2, <2>1, <3>2
    <2> QED
        BY <2>2, <2>3, <2>4 DEF size
<1> QED
    BY <1>4, <1>5

\* The number of ports to draw keeps the bounds, or is the number of ports.
Drawable(p) ==
    IF p.render_port_count # None
    THEN /\ p.render_port_count \in Int
         /\ p.min_port_count <= p.render_port_count
         /\ \/ p.max_port_count < 0
            \/ p.render_port_count <= p.max_port_count
            \/ p.render_port_count = p.current_port_count
    ELSE p.min_port_count = 0 /\ p.current_port_count = 0

\* The numbers of a port, or of a collection of ports.
Counted(p) ==
    /\ p.cardinality_kind \in {"fixed", "dynamic"}
    /\ p.current_port_count \in 0 .. IntMax
    /\ p.min_port_count \in {0, 1}
    /\ p.max_port_count \in {-1, 1, PortLimit}
    /\ p.render_port_count # None => p.render_port_count \in Int32

LEMMA CollectionDrawable ==
    ASSUME NEW b \in Block, NEW size, size # None => size \in DOMAIN b.settings,
           NEW count \in 0 .. IntMax, NEW min \in {0, 1}, count > 0 => min = 1,
           NEW max \in {-1, PortLimit}, NEW p, p.cardinality_kind = "dynamic",
           p.render_port_count =
               infer_collection_render_port_count(size, to_parameters(b), count, min, max),
           p.min_port_count = min, p.max_port_count = max, p.current_port_count = count
    PROVE  Drawable(p) /\ Counted(p)
<1> DEFINE r == infer_collection_render_port_count(size, to_parameters(b), count, min, max)
<1>1. p.render_port_count = r
    OBVIOUS
<1>4. IntMax \in Nat /\ PortLimit \in 1 .. IntMax /\ Int32 = -IntMax - 1 .. IntMax
    BY ReflectionAssumption DEF Int32
<1>3. IF r # None THEN r \in Int32 /\ min <= r /\ (max < 0 \/ r <= max \/ r = count)
      ELSE min = 0 /\ count = 0
    <2> DEFINE default == to_parameters(b)[size].default_value
    <2>1. CASE size # None /\ default[1] = "int"
        <3> DEFINE v == b.settings[size].value
        <3>1. default = parameter_default_value(v)
            BY <2>1 DEF to_parameters, Parameter
        <3>2. v[1] \in Kind
            BY <2>1, ReflectionAssumption
        <3>3. default[2] \in Int32
            <4> HIDE DEF v, default
            <4>1. Null[1] # "int"
                BY DEF Null
            <4>2. default = v /\ v[1] = "int"
                BY <2>1, <3>1, <4>1 DEF parameter_default_value
            <4> QED
                BY <2>1, <3>1, <4>1, <4>2 DEF parameter_default_value
        <3>5. r = Clamp(default[2], min, max)
            BY <2>1 DEF infer_collection_render_port_count
        <3> HIDE DEF default, r
        <3>6. r \in Int32 /\ min <= r /\ (max < 0 \/ r <= max)
            BY <1>4, <3>3, <3>5 DEF Clamp
        <3> QED
            BY <1>4, <3>6, NoneAssumption
    <2>2. CASE ~ (size # None /\ default[1] = "int")
        <3>1. r = IF count > 0 THEN count ELSE IF min > 0 THEN min ELSE None
            BY <2>2 DEF infer_collection_render_port_count
        <3> HIDE DEF r
        <3>2. CASE count > 0
            BY <1>4, <3>1, <3>2, NoneAssumption
        <3>3. CASE count = 0 /\ min = 1
          <4>1. r = 1
              BY <3>1, <3>3
          <4>2. 1 \in Int32 /\ 1 # None /\ (max < 0 \/ 1 <= max)
              BY <1>4, NoneAssumption
          <4> QED
              BY <3>3, <4>1, <4>2
        <3>4. CASE count = 0 /\ min = 0
          <4>1. r = None
              BY <3>1, <3>4
          <4> QED
              BY <3>4, <4>1
        <3> QED
            BY <3>2, <3>3, <3>4
    <2> QED
        BY <2>1, <2>2
<1> HIDE DEF r
<1>2. Drawable(p)
    <2>1. CASE r # None
        <3>1. r \in Int32 /\ min <= r /\ (max < 0 \/ r <= max \/ r = count)
            BY <1>3, <2>1
        <3> QED
            BY <1>1, <1>4, <2>1, <3>1 DEF Drawable
    <2>2. CASE r = None
        <3>1. min = 0 /\ count = 0
            BY <1>3, <2>2
        <3> QED
            BY <1>1, <2>2, <3>1 DEF Drawable
    <2> QED
        BY <2>1, <2>2
<1>5. Counted(p)
    BY <1>1, <1>3, <1>4 DEF Counted
<1> QED
    BY <1>2, <1>5

LEMMA InputsDrawable ==
    ASSUME NEW b \in Block, NEW ports, \A i \in DOMAIN ports : ports[i].ports \in 0 .. IntMax,
           NEW k \in DOMAIN ports
    PROVE  LET p == to_ports(ports, b, to_parameters(b), TRUE)[k]
           IN  Drawable(p) /\ Counted(p)
<1> DEFINE port == ports[k]
           parameters == to_parameters(b)
           size == infer_collection_size_parameter(port.name, TRUE, DOMAIN parameters)
           min  == IF size \in Bounded \/ port.ports # 0 THEN 1 ELSE 0
           max  == IF size \in Bounded THEN PortLimit ELSE -1
           p    == to_port_descriptor(port, b, parameters, TRUE)
<1>1. to_ports(ports, b, parameters, TRUE)[k] = p
    BY DEF to_ports
<1>2. port.ports \in 0 .. IntMax /\ IntMax \in Nat /\ PortLimit \in 1 .. IntMax
    BY ReflectionAssumption
<1>3. size # None => size \in DOMAIN b.settings
    <2>1. DOMAIN parameters = DOMAIN b.settings
        BY DEF to_parameters
    <2>2. size # None => size \in DOMAIN parameters
        BY SizingTrue
    <2> QED
        BY <2>1, <2>2
<1>4. CASE ~ port.collection
    <2>1. /\ p.render_port_count = 1 /\ p.min_port_count = 1 /\ p.max_port_count = 1
          /\ p.current_port_count = 1 /\ p.cardinality_kind = "fixed"
        BY <1>4 DEF to_port_descriptor
    <2> HIDE DEF p
    <2>2. Drawable(p) /\ Counted(p)
        BY <1>2, <2>1, NoneAssumption DEF Drawable, Counted, Int32
    <2> QED
        BY <1>1, <2>2
<1>5. CASE port.collection
    <2>1. /\ p.render_port_count =
                infer_collection_render_port_count(size, parameters, port.ports, min, max)
          /\ p.min_port_count = min /\ p.max_port_count = max
          /\ p.current_port_count = port.ports /\ p.cardinality_kind = "dynamic"
        BY <1>5 DEF to_port_descriptor
    <2> HIDE DEF p, size, port, parameters
    <2>3. min \in {0, 1} /\ (port.ports > 0 => min = 1) /\ max \in {-1, PortLimit}
        BY <1>2
    <2> HIDE DEF min, max
    <2> USE DEF parameters
    <2>2. Drawable(p) /\ Counted(p)
        BY <1>2, <1>3, <2>1, <2>3, CollectionDrawable
    <2> QED
        BY <1>1, <2>2
<1> QED
    BY <1>4, <1>5

LEMMA OutputsDrawable ==
    ASSUME NEW b \in Block, NEW ports, \A i \in DOMAIN ports : ports[i].ports \in 0 .. IntMax,
           NEW k \in DOMAIN ports
    PROVE  LET p == to_ports(ports, b, to_parameters(b), FALSE)[k]
           IN  Drawable(p) /\ Counted(p)
<1> DEFINE port == ports[k]
           parameters == to_parameters(b)
           size == infer_collection_size_parameter(port.name, FALSE, DOMAIN parameters)
           min  == IF size \in Bounded \/ port.ports # 0 THEN 1 ELSE 0
           max  == IF size \in Bounded THEN PortLimit ELSE -1
           p    == to_port_descriptor(port, b, parameters, FALSE)
<1>1. to_ports(ports, b, parameters, FALSE)[k] = p
    BY DEF to_ports
<1>2. port.ports \in 0 .. IntMax /\ IntMax \in Nat /\ PortLimit \in 1 .. IntMax
    BY ReflectionAssumption
<1>3. size # None => size \in DOMAIN b.settings
    <2>1. DOMAIN parameters = DOMAIN b.settings
        BY DEF to_parameters
    <2>2. size # None => size \in DOMAIN parameters
        BY SizingFalse
    <2> QED
        BY <2>1, <2>2
<1>4. CASE ~ port.collection
    <2>1. /\ p.render_port_count = 1 /\ p.min_port_count = 1 /\ p.max_port_count = 1
          /\ p.current_port_count = 1 /\ p.cardinality_kind = "fixed"
        BY <1>4 DEF to_port_descriptor
    <2> HIDE DEF p
    <2>2. Drawable(p) /\ Counted(p)
        BY <1>2, <2>1, NoneAssumption DEF Drawable, Counted, Int32
    <2> QED
        BY <1>1, <2>2
<1>5. CASE port.collection
    <2>1. /\ p.render_port_count =
                infer_collection_render_port_count(size, parameters, port.ports, min, max)
          /\ p.min_port_count = min /\ p.max_port_count = max
          /\ p.current_port_count = port.ports /\ p.cardinality_kind = "dynamic"
        BY <1>5 DEF to_port_descriptor
    <2> HIDE DEF p, size, port, parameters
    <2>3. min \in {0, 1} /\ (port.ports > 0 => min = 1) /\ max \in {-1, PortLimit}
        BY <1>2
    <2> HIDE DEF min, max
    <2> USE DEF parameters
    <2>2. Drawable(p) /\ Counted(p)
        BY <1>2, <1>3, <2>1, <2>3, CollectionDrawable
    <2> QED
        BY <1>1, <2>2
<1> QED
    BY <1>4, <1>5

\* A client draws a legal number of ports, or the number the block has
\* (infer_collection_render_port_count).
THEOREM PortsAreDrawable == Spec => []PortsCanBeDrawn
<1>1. Stages => PortsCanBeDrawn
    <2> SUFFICES ASSUME Stages, at = "shown" PROVE PortsCanBeDrawn
        BY DEF PortsCanBeDrawn
    <2> DEFINE Legal(p) ==
            IF "render_port_count" \in DOMAIN p
            THEN /\ p.min_port_count <= p.render_port_count
                 /\ \/ p.max_port_count < 0
                    \/ p.render_port_count <= p.max_port_count
                    \/ p.render_port_count = p.current_port_count
            ELSE p.min_port_count = 0 /\ p.current_port_count = 0
    <2>1. ASSUME NEW q, q = [k \in PortField |-> q[k]], Drawable(q),
                 Counted(q)
          PROVE  Legal(Object(q))
        <3> DEFINE o == Object(q)
        <3>1. /\ o.min_port_count = q.min_port_count
              /\ o.max_port_count = q.max_port_count
              /\ o.current_port_count = q.current_port_count
            <4>1. /\ q.min_port_count # None /\ q.max_port_count # None
                  /\ q.current_port_count # None
                BY <2>1, ReflectionAssumption, NoneAssumption DEF Counted
            <4> QED
                BY <2>1, <4>1 DEF Object, PortField
        <3>2. "render_port_count" \in DOMAIN o <=> q.render_port_count # None
            BY <2>1 DEF Object, PortField
        <3>3. q.render_port_count # None => o.render_port_count = q.render_port_count
            BY <2>1 DEF Object, PortField
        <3> HIDE DEF o
        <3>4. /\ q.min_port_count \in Int /\ q.max_port_count \in Int
              /\ q.current_port_count \in Int
            BY <2>1, ReflectionAssumption DEF Counted
        <3>5. Legal(o)
            BY <2>1, <3>1, <3>2, <3>3, <3>4 DEF Drawable
        <3> QED
            BY <3>5 DEF o
    <2> HIDE DEF Legal
    <2>2. ASSUME NEW i \in DOMAIN body.inputs PROVE Legal(body.inputs[i])
        <3> DEFINE q == to_ports(block.inputs, block, to_parameters(block), TRUE)[i]
        <3>1. block \in Block /\ i \in DOMAIN block.inputs /\ body.inputs[i] = Object(q)
            BY ShownBody
        <3>2. q = [k \in PortField |-> q[k]]
            BY <3>1 DEF to_ports, to_port_descriptor, PortField
        <3>3. \A j \in DOMAIN block.inputs : block.inputs[j].ports \in 0 .. IntMax
            BY <3>1, ReflectionAssumption
        <3>4. Drawable(q) /\ Counted(q)
            BY <3>1, <3>3, InputsDrawable
        <3> HIDE DEF q
        <3> QED
            BY <2>1, <3>1, <3>2, <3>4
    <2>3. ASSUME NEW i \in DOMAIN body.outputs PROVE Legal(body.outputs[i])
        <3> DEFINE q == to_ports(block.outputs, block, to_parameters(block), FALSE)[i]
        <3>1. block \in Block /\ i \in DOMAIN block.outputs /\ body.outputs[i] = Object(q)
            BY ShownBody
        <3>2. q = [k \in PortField |-> q[k]]
            BY <3>1 DEF to_ports, to_port_descriptor, PortField
        <3>3. \A j \in DOMAIN block.outputs : block.outputs[j].ports \in 0 .. IntMax
            BY <3>1, ReflectionAssumption
        <3>4. Drawable(q) /\ Counted(q)
            BY <3>1, <3>3, OutputsDrawable
        <3> HIDE DEF q
        <3> QED
            BY <2>1, <3>1, <3>2, <3>4
    <2>4. \A side \in {"inputs", "outputs"} : \A i \in DOMAIN body[side] : Legal(body[side][i])
        BY <2>2, <2>3
    <2> QED
        BY <2>4 DEF PortsCanBeDrawn, Legal
<1> QED
    BY <1>1, StagesAlways, PTL

-----------------------------------------------------------------------------
(* Parameters and the whole body.                                           *)

\* A default in the body, by ParameterKept.
LEMMA ShownParameter ==
    ASSUME Stages, at = "shown", NEW n \in DOMAIN block.settings
    PROVE  LET s   == block.settings[n]
               now == body.parameters[n]
               was == reflected.parameters[n]
           IN  /\ was = Parameter(n, s)
               /\ now = Object([was EXCEPT !.default_value = ShownDefault(s.value)])
<1>1. reflected.parameters = to_parameters(block)
    <2>1. reflected = reflect_block(block)
        BY ShownBody
    <2> QED
        BY <2>1 DEF reflect_block
<1>2. reflected.parameters[n] = Parameter(n, block.settings[n])
    BY <1>1 DEF to_parameters
<1>3. body.parameters[n] = ParameterBody(n, block.settings[n])
    BY ShownBody
<1> QED
    BY <1>2, <1>3 DEF ParameterBody

\* A default that is shown is the value the block has, or null.
THEOREM DefaultsAreTrue == Spec => []DefaultsNeverWrap
<1>1. Stages => DefaultsNeverWrap
    <2> SUFFICES ASSUME Stages, at = "shown", NEW n \in DOMAIN body.parameters
                 PROVE  LET shown == body.parameters[n].default_value
                            value == block.settings[n].value
                        IN  \/ shown = value
                            \/ /\ shown = Null
                               /\ \/ value[1] \in {"complex", "map", "tensor"}
                                  \/ value[1] = "int" /\ value[2] \notin Int32
                                  \/ value = <<"float", "not finite">>
        BY DEF DefaultsNeverWrap
    <2> DEFINE v == block.settings[n].value
               was == reflected.parameters[n]
    <2>1. block \in Block /\ n \in DOMAIN block.settings
        BY ShownBody
    <2>2. v # None /\ Null # None
        BY <2>1, NoneAssumption
    <2>3. \/ ShownDefault(v) = v
          \/ /\ ShownDefault(v) = Null
             /\ \/ v[1] \in {"complex", "map", "tensor"}
                \/ v[1] = "int" /\ v[2] \notin Int32
                \/ v = <<"float", "not finite">>
        BY <2>1, DefaultKept
    <2>4. was = Parameter(n, block.settings[n])
          /\ body.parameters[n] = Object([was EXCEPT !.default_value = ShownDefault(v)])
        BY <2>1, ShownParameter
    <2>5. "default_value" \in DOMAIN was
        BY <2>4 DEF Parameter
    <2> HIDE DEF v, was
    <2>6. body.parameters[n].default_value = ShownDefault(v)
        BY <2>2, <2>3, <2>4, <2>5 DEF Object
    <2> QED
        BY <2>3, <2>6 DEF v
<1> QED
    BY <1>1, StagesAlways, PTL

\* The body shows the block as the child saw it: every field with a value, and
\* no other, came through the pipe and the two conversions.
THEOREM BodyIsReflection == Spec => []ShownAsReflected
<1>1. Stages => ShownAsReflected
    <2> SUFFICES ASSUME Stages, at = "shown" PROVE ShownAsReflected
        BY DEF ShownAsReflected
    <2>1. \A k \in {"id", "name", "category", "summary"} : body[k] = reflected[k]
        BY ShownBody
    <2>2. DOMAIN body.inputs = DOMAIN block.inputs
          /\ \A i \in DOMAIN body.inputs : body.inputs[i] = Object(reflected.inputs[i])
        BY ShownBody
    <2>3. DOMAIN body.outputs = DOMAIN block.outputs
          /\ \A i \in DOMAIN body.outputs : body.outputs[i] = Object(reflected.outputs[i])
        BY ShownBody
    <2>4. /\ \A i \in DOMAIN block.inputs : DOMAIN reflected.inputs[i] = PortField
          /\ \A i \in DOMAIN block.outputs : DOMAIN reflected.outputs[i] = PortField
        <3>1. /\ reflected.inputs = to_ports(block.inputs, block, to_parameters(block), TRUE)
              /\ reflected.outputs = to_ports(block.outputs, block, to_parameters(block), FALSE)
            BY ShownBody
        <3>2. ASSUME NEW i \in DOMAIN block.inputs
              PROVE  DOMAIN reflected.inputs[i] = PortField
            <4> DEFINE q == reflected.inputs[i]
            <4>1. q = to_port_descriptor(block.inputs[i], block, to_parameters(block), TRUE)
                BY <3>1 DEF to_ports
            <4> HIDE DEF q
            <4>2. DOMAIN q = PortField
                BY <4>1 DEF to_port_descriptor, PortField
            <4> QED
                BY <4>2 DEF q
        <3>3. ASSUME NEW i \in DOMAIN block.outputs
              PROVE  DOMAIN reflected.outputs[i] = PortField
            <4> DEFINE q == reflected.outputs[i]
            <4>1. q = to_port_descriptor(block.outputs[i], block, to_parameters(block), FALSE)
                BY <3>1 DEF to_ports
            <4> HIDE DEF q
            <4>2. DOMAIN q = PortField
                BY <4>1 DEF to_port_descriptor, PortField
            <4> QED
                BY <4>2 DEF q
        <3> QED
            BY <3>2, <3>3
    <2>5. ASSUME NEW q, DOMAIN q = PortField, NEW k \in PortField
          PROVE  IF k \in DOMAIN Object(q) THEN Object(q)[k] = q[k] ELSE q[k] = None
        BY <2>5 DEF Object
    <2>6. \A side \in {"inputs", "outputs"} :
              /\ DOMAIN body[side] = DOMAIN block[side]
              /\ \A i \in DOMAIN body[side], k \in PortField :
                    IF k \in DOMAIN body[side][i] THEN body[side][i][k] = reflected[side][i][k]
                                                  ELSE reflected[side][i][k] = None
        <3>1. \A i \in DOMAIN body.inputs, k \in PortField :
                 IF k \in DOMAIN body.inputs[i] THEN body.inputs[i][k] = reflected.inputs[i][k]
                                                ELSE reflected.inputs[i][k] = None
            BY <2>2, <2>4, <2>5
        <3>2. \A i \in DOMAIN body.outputs, k \in PortField :
                 IF k \in DOMAIN body.outputs[i] THEN body.outputs[i][k] = reflected.outputs[i][k]
                                                 ELSE reflected.outputs[i][k] = None
            BY <2>3, <2>4, <2>5
        <3> QED
            BY <2>2, <2>3, <3>1, <3>2
    <2>7. DOMAIN body.parameters = DOMAIN block.settings
        BY ShownBody
    <2>8. ASSUME NEW n \in DOMAIN body.parameters, NEW k \in ParameterField
          PROVE  LET now == body.parameters[n]
                     was == reflected.parameters[n]
                 IN  IF k \in DOMAIN now
                     THEN \/ now[k] = was[k]
                          \/ /\ k = "default_value" /\ now[k] = Null
                             /\ was[k] = <<"float", "not finite">>
                     ELSE was[k] = None
        <3> DEFINE v == block.settings[n].value
                   was == reflected.parameters[n]
                   now == [was EXCEPT !.default_value = ShownDefault(v)]
        <3>1. was = Parameter(n, block.settings[n]) /\ body.parameters[n] = Object(now)
            BY <2>7, ShownParameter
        <3>2. DOMAIN was = ParameterField /\ was.default_value = parameter_default_value(v)
            BY <3>1 DEF Parameter, ParameterField
        <3>3. \/ ShownDefault(v) = parameter_default_value(v)
              \/ /\ ShownDefault(v) = Null
                 /\ parameter_default_value(v) = <<"float", "not finite">>
            BY <2>7, ShownBody, DefaultReflected
        <3>4. ShownDefault(v) # None
            <4>1. v # None /\ Null # None
                BY <2>7, ShownBody, NoneAssumption
            <4>2. ShownDefault(v) = v \/ ShownDefault(v) = Null
                BY <2>7, ShownBody, DefaultKept
            <4> QED
                BY <4>1, <4>2
        <3> HIDE DEF was, v
        <3>5. CASE k = "default_value"
            <4>1. now[k] = ShownDefault(v)
                BY <3>2, <3>5
            <4>2. k \in DOMAIN Object(now) /\ Object(now)[k] = ShownDefault(v)
                BY <3>2, <3>4, <3>5, <4>1 DEF Object
            <4> QED
                BY <3>1, <3>2, <3>3, <3>5, <4>2 DEF was
        <3>6. CASE k # "default_value"
            <4>1. now[k] = was[k] /\ k \in DOMAIN now
                BY <3>2, <3>6
            <4>2. IF k \in DOMAIN Object(now) THEN Object(now)[k] = was[k] ELSE was[k] = None
                BY <4>1 DEF Object
            <4> QED
                BY <3>1, <4>2 DEF was
        <3> QED
            BY <3>5, <3>6
    <2> QED
        BY <2>1, <2>6, <2>7, <2>8 DEF ShownAsReflected
<1> QED
    BY <1>1, StagesAlways, PTL

\* The parameter that sizes a collection is the block's own, and the one with the
\* collection's name if there is one (infer_collection_size_parameter).
THEOREM SizesAreOwn == Spec => []SizedByItsOwnParameter
<1>1. Stages => SizedByItsOwnParameter
    <2> SUFFICES ASSUME Stages, at = "shown" PROVE SizedByItsOwnParameter
        BY DEF SizedByItsOwnParameter
    <2> DEFINE Sized(p, other) ==
            /\ "size_parameter" \in DOMAIN p =>
                  /\ p.size_parameter \in DOMAIN body.parameters
                  /\ p.size_parameter[2][1] \in other => p.name[1] \in other
            /\ p.cardinality_kind = "dynamic"
                  /\ <<"n_", p.name>> \in DOMAIN body.parameters =>
                      /\ "size_parameter" \in DOMAIN p
                      /\ p.size_parameter = <<"n_", p.name>>
    <2>1. ASSUME NEW q, DOMAIN q = PortField, NEW other, q.name # None,
                 q.cardinality_kind \in {"fixed", "dynamic"},
                 q.size_parameter # None => q.size_parameter \in DOMAIN block.settings,
                 q.size_parameter # None /\ q.size_parameter[2][1] \in other =>
                     q.name[1] \in other,
                 q.cardinality_kind = "dynamic"
                     /\ <<"n_", q.name>> \in DOMAIN block.settings =>
                         q.size_parameter # None /\ q.size_parameter = <<"n_", q.name>>
          PROVE  Sized(Object(q), other)
        <3> DEFINE o == Object(q)
        <3>1. DOMAIN body.parameters = DOMAIN block.settings
            BY ShownBody
        <3>2. "fixed" # None /\ "dynamic" # None
            BY NoneAssumption
        <3>3. q.cardinality_kind # None
            BY <2>1, <3>2
        <3>4. o.name = q.name /\ o.cardinality_kind = q.cardinality_kind
            BY <2>1, <3>3 DEF Object, PortField
        <3>5. /\ "size_parameter" \in DOMAIN o <=> q.size_parameter # None
              /\ q.size_parameter # None => o.size_parameter = q.size_parameter
            BY <2>1 DEF Object, PortField
        <3> HIDE DEF o
        <3>6. Sized(o, other)
            BY <2>1, <3>1, <3>4, <3>5
        <3> QED
            BY <3>6 DEF o
    <2> HIDE DEF Sized
    <2>2. ASSUME NEW i \in DOMAIN body.inputs PROVE Sized(body.inputs[i], {"out", "output"})
        <3> DEFINE port == block.inputs[i]
                   q == to_ports(block.inputs, block, to_parameters(block), TRUE)[i]
                   size == infer_collection_size_parameter(port.name, TRUE, DOMAIN block.settings)
        <3>1. block \in Block /\ i \in DOMAIN block.inputs /\ body.inputs[i] = Object(q)
            BY ShownBody
        <3>2. q = to_port_descriptor(port, block, to_parameters(block), TRUE)
            BY <3>1 DEF to_ports
        <3>3. DOMAIN to_parameters(block) = DOMAIN block.settings
            BY DEF to_parameters
        <3>4. port.name # None
            BY <3>1, NoneAssumption
        <3> HIDE DEF q, port
        <3>5. DOMAIN q = PortField /\ q.name = port.name
            BY <3>2 DEF to_port_descriptor, PortField
        <3>6. CASE ~ port.collection
            <4>1. q.size_parameter = None /\ q.cardinality_kind = "fixed"
                BY <3>2, <3>6 DEF to_port_descriptor
            <4>2. Sized(Object(q), {"out", "output"})
                BY <2>1, <3>4, <3>5, <4>1
            <4> QED
                BY <3>1, <4>2
        <3>7. CASE port.collection
            <4>1. /\ q.cardinality_kind = "dynamic"
                  /\ q.size_parameter = infer_collection_size_parameter(
                         port.name, TRUE, DOMAIN to_parameters(block))
                BY <3>2, <3>7 DEF to_port_descriptor
            <4>2. q.size_parameter = size
                BY <3>3, <4>1
            <4>3. /\ size # None => size \in DOMAIN block.settings
                  /\ size # None /\ size[2][1] \in {"out", "output"} => port.name[1] \in {"out", "output"}
                  /\ <<"n_", port.name>> \in DOMAIN block.settings =>
                        size = <<"n_", port.name>>
                BY SizingTrue
            <4> HIDE DEF size
            <4>4. <<"n_", port.name>> \in DOMAIN block.settings => size # None
                BY <3>1, <4>3, NoneAssumption
            <4>5. Sized(Object(q), {"out", "output"})
                BY <2>1, <3>4, <3>5, <4>1, <4>2, <4>3, <4>4
            <4> QED
                BY <3>1, <4>5
        <3> QED
            BY <3>6, <3>7
    <2>3. ASSUME NEW i \in DOMAIN body.outputs PROVE Sized(body.outputs[i], {"in", "input"})
        <3> DEFINE port == block.outputs[i]
                   q == to_ports(block.outputs, block, to_parameters(block), FALSE)[i]
                   size == infer_collection_size_parameter(port.name, FALSE, DOMAIN block.settings)
        <3>1. block \in Block /\ i \in DOMAIN block.outputs /\ body.outputs[i] = Object(q)
            BY ShownBody
        <3>2. q = to_port_descriptor(port, block, to_parameters(block), FALSE)
            BY <3>1 DEF to_ports
        <3>3. DOMAIN to_parameters(block) = DOMAIN block.settings
            BY DEF to_parameters
        <3>4. port.name # None
            BY <3>1, NoneAssumption
        <3> HIDE DEF q, port
        <3>5. DOMAIN q = PortField /\ q.name = port.name
            BY <3>2 DEF to_port_descriptor, PortField
        <3>6. CASE ~ port.collection
            <4>1. q.size_parameter = None /\ q.cardinality_kind = "fixed"
                BY <3>2, <3>6 DEF to_port_descriptor
            <4>2. Sized(Object(q), {"in", "input"})
                BY <2>1, <3>4, <3>5, <4>1
            <4> QED
                BY <3>1, <4>2
        <3>7. CASE port.collection
            <4>1. /\ q.cardinality_kind = "dynamic"
                  /\ q.size_parameter = infer_collection_size_parameter(
                         port.name, FALSE, DOMAIN to_parameters(block))
                BY <3>2, <3>7 DEF to_port_descriptor
            <4>2. q.size_parameter = size
                BY <3>3, <4>1
            <4>3. /\ size # None => size \in DOMAIN block.settings
                  /\ size # None /\ size[2][1] \in {"in", "input"} => port.name[1] \in {"in", "input"}
                  /\ <<"n_", port.name>> \in DOMAIN block.settings =>
                        size = <<"n_", port.name>>
                BY SizingFalse
            <4> HIDE DEF size
            <4>4. <<"n_", port.name>> \in DOMAIN block.settings => size # None
                BY <3>1, <4>3, NoneAssumption
            <4>5. Sized(Object(q), {"in", "input"})
                BY <2>1, <3>4, <3>5, <4>1, <4>2, <4>3, <4>4
            <4> QED
                BY <3>1, <4>5
        <3> QED
            BY <3>6, <3>7
    <2>4. /\ \A i \in DOMAIN body.inputs : Sized(body.inputs[i], {"out", "output"})
          /\ \A i \in DOMAIN body.outputs : Sized(body.outputs[i], {"in", "input"})
        BY <2>2, <2>3
    <2> QED
        BY <2>4 DEF SizedByItsOwnParameter, Sized
<1> QED
    BY <1>1, StagesAlways, PTL

-----------------------------------------------------------------------------
(* What a client may rely on.                                               *)

\* A default in the body is one that JSON can express, and fits into an int.
LEMMA DefaultTyped ==
    ASSUME NEW b \in Block, NEW n \in DOMAIN b.settings
    PROVE  LET v == ShownDefault(b.settings[n].value)
           IN  /\ v[1] \in {"null", "bool", "int", "float", "string"}
               /\ v[1] = "int" => v[2] \in Int32
               /\ v # <<"float", "not finite">>
<1> DEFINE v == b.settings[n].value
           d == parameter_default_value(v)
<1>1. v[1] \in Kind
    BY ReflectionAssumption
<1>2. Null[1] = "null" /\ Null # <<"float", "not finite">>
  <2>1. Null[1] = "null" /\ <<"float", "not finite">>[1] = "float"
      BY DEF Null
  <2> QED
      BY <2>1
<1>3. ShownDefault(v) = Null \/ ShownDefault(v) = d
    BY DefaultReflected
<1>4. ShownDefault(v) # <<"float", "not finite">>
    BY <1>2 DEF ShownDefault, Dumped
<1>5. d = Null \/ (d = v /\ (v[1] \in {"bool", "float", "string"} \/ v[2] \in Int32))
    BY DEF parameter_default_value
<1>6. v[1] \in {"complex", "map", "tensor"} => d = Null
    BY DEF parameter_default_value
<1> HIDE DEF d, v
<1>7. CASE ShownDefault(v) = Null
    BY <1>2, <1>7 DEF v
<1>8. CASE ShownDefault(v) = v /\ d = v /\ v # Null
  <2>1. v[1] \in {"bool", "int", "float", "string"}
      BY <1>1, <1>6, <1>8 DEF Kind
  <2>2. v[1] = "int" => v[2] \in Int32
      BY <1>5, <1>8
  <2> QED
      BY <1>4, <1>8, <2>1, <2>2 DEF v
<1> QED
    BY <1>2, <1>3, <1>4, <1>5, <1>7, <1>8 DEF v

\* A port of the body.
Readable(p) ==
    /\ p.cardinality_kind \in {"fixed", "dynamic"}
    /\ p.current_port_count \in 0 .. IntMax
    /\ p.min_port_count \in {0, 1}
    /\ p.max_port_count \in {-1, 1, PortLimit}
    /\ "render_port_count" \in DOMAIN p => p.render_port_count \in Int32

LEMMA PortReadable ==
    ASSUME NEW q, q = [k \in PortField |-> q[k]], Counted(q)
    PROVE  Readable(Object(q))
<1> DEFINE o == Object(q)
<1>1. /\ q.cardinality_kind # None /\ q.current_port_count # None
      /\ q.min_port_count # None /\ q.max_port_count # None
    BY ReflectionAssumption, NoneAssumption DEF Counted
<1>2. /\ o.cardinality_kind = q.cardinality_kind
      /\ o.current_port_count = q.current_port_count
      /\ o.min_port_count = q.min_port_count
      /\ o.max_port_count = q.max_port_count
    BY <1>1 DEF Object, PortField
<1>3. "render_port_count" \in DOMAIN o =>
          q.render_port_count # None /\ o.render_port_count = q.render_port_count
    BY DEF Object, PortField
<1> HIDE DEF o
<1>4. Readable(o)
    BY <1>2, <1>3 DEF Readable, Counted
<1> QED
    BY <1>4 DEF o

\* Any client can read a body: what a default is, numbers that fit into an int,
\* bounds that it knows (block_to_json).
THEOREM TypeCorrect == Spec => []TypeOK
<1>1. Stages => TypeOK
  <2> SUFFICES ASSUME Stages PROVE TypeOK
      OBVIOUS
  <2>1. ASSUME at = "shown", NEW n \in DOMAIN body.parameters
        PROVE  LET v == body.parameters[n].default_value
               IN  /\ v[1] \in {"null", "bool", "int", "float", "string"}
                   /\ v[1] = "int" => v[2] \in Int32
                   /\ v # <<"float", "not finite">>
    <3> DEFINE v == block.settings[n].value
               was == reflected.parameters[n]
    <3>1. block \in Block /\ n \in DOMAIN block.settings
        BY <2>1, ShownBody
    <3>2. /\ was = Parameter(n, block.settings[n])
          /\ body.parameters[n] = Object([was EXCEPT !.default_value = ShownDefault(v)])
        BY <2>1, <3>1, ShownParameter
    <3>3. "default_value" \in DOMAIN was
        BY <3>2 DEF Parameter
    <3>4. ShownDefault(v) # None
        BY <3>1, DefaultKept, NoneAssumption
    <3> HIDE DEF was, v
    <3>5. body.parameters[n].default_value = ShownDefault(v)
        BY <3>2, <3>3, <3>4 DEF Object
    <3> QED
        BY <3>1, <3>5, DefaultTyped DEF v
  <2>2. ASSUME at = "shown", NEW i \in DOMAIN body.inputs PROVE Readable(body.inputs[i])
    <3> DEFINE q == to_ports(block.inputs, block, to_parameters(block), TRUE)[i]
    <3>1. block \in Block /\ i \in DOMAIN block.inputs /\ body.inputs[i] = Object(q)
        BY <2>2, ShownBody
    <3>2. q = [k \in PortField |-> q[k]]
        BY <3>1 DEF to_ports, to_port_descriptor, PortField
    <3>3. Counted(q)
        BY <3>1, ReflectionAssumption, InputsDrawable
    <3> HIDE DEF q
    <3> QED
        BY <3>1, <3>2, <3>3, PortReadable
  <2>3. ASSUME at = "shown", NEW i \in DOMAIN body.outputs PROVE Readable(body.outputs[i])
    <3> DEFINE q == to_ports(block.outputs, block, to_parameters(block), FALSE)[i]
    <3>1. block \in Block /\ i \in DOMAIN block.outputs /\ body.outputs[i] = Object(q)
        BY <2>3, ShownBody
    <3>2. q = [k \in PortField |-> q[k]]
        BY <3>1 DEF to_ports, to_port_descriptor, PortField
    <3>3. Counted(q)
        BY <3>1, ReflectionAssumption, OutputsDrawable
    <3> HIDE DEF q
    <3> QED
        BY <3>1, <3>2, <3>3, PortReadable
  <2>4. at = "shown" =>
            \A side \in {"inputs", "outputs"} : \A i \in DOMAIN body[side] :
                Readable(body[side][i])
      BY <2>2, <2>3
  <2>5. at \in {"forked", "instantiated", "reflected", "written", "truncated",
                "listed", "shown", "skipped"}
      BY DEF Stages
  <2> QED
      BY <2>1, <2>4, <2>5 DEF TypeOK, Readable
<1> QED
    BY <1>1, StagesAlways, PTL
=============================================================================
