-------------------------- MODULE MCBlockReflection ---------------------------
(* Blocks for TLC: each family varies what one part of the reflection reads. *)
EXTENDS BlockReflection, TLC

Plain == [id |-> <<"gr", "basic", "Add">>, argument |-> "float", typeName |-> "T",
          name |-> "Add", category |-> None, description |-> "adds",
          settings |-> <<>>, inputs |-> <<>>, outputs |-> <<>>]

Holding(value) == [value |-> value, description |-> "", documentation |-> "doc",
                   enum_values |-> None, enum_type |-> None]

\* Identifiers with and without a namespace, and one whose template argument
\* contains "::"; usable and unusable names, categories and texts.
Texts ==
    {[Plain EXCEPT !.id = id, !.name = name, !.category = category,
                   !.typeName = type, !.description = description] :
        id \in {<<"gr", "basic", "Add">>, <<"gr", "math", "Op<std", "plus>">>,
                <<"", "gr", "Add">>, <<"Add">>},
        name \in {"", "Add", "gr::Add", "0xff"},
        category \in {None, "", "Toolbar", "basic/Add<T>"},
        type \in {"", "T"}, description \in {None, "adds", "0xff"}}

Value ==
    {<<"int", n>> : n \in -8 .. 9}
        \cup {<<"bool", TRUE>>, <<"float", "finite">>, <<"float", "not finite">>,
              <<"string", "Add">>, <<"string", "0xff">>, <<"complex", None>>,
              <<"map", None>>, <<"tensor", "float32">>}

\* One setting of any value, with any metadata.
Settings ==
    {[Plain EXCEPT !.settings = (n :> [value |-> v, description |-> d, documentation |-> o,
                                      enum_values |-> e[1], enum_type |-> e[2]])] :
        n \in {<<"", <<"name", "">>>>, <<"", <<"stride", "">>>>, <<"n_", <<"tap", "s">>>>},
        v \in Value, d \in {None, "", "adds", "0xff"}, o \in {None, "doc"},
        e \in {<<None, None>>, <<{"Sin", "Cos"}, "Wave">>}}

\* Parameters that may size a collection of inputs or outputs.
Sizes == {<<"n_", <<"input", "s">>>>, <<"num_", <<"in", "">>>>,
          <<"_count", <<"output", "s">>>>, <<"n_", <<"tap", "s">>>>,
          <<"", <<"entr", "ies">>>>}

Ports ==
    {[Plain EXCEPT
        !.settings = [n \in names |-> Holding(v)], !.argument = argument,
        !.inputs  = <<[collection |-> TRUE, name |-> w, ports |-> count, type |-> "float"]>>,
        !.outputs = <<[collection |-> FALSE, name |-> <<"out", "">>, ports |-> 1,
                       type |-> "float"],
                      [collection |-> TRUE, name |-> w, ports |-> count, type |-> "float"]>>] :
        names \in SUBSET Sizes,
        v \in {<<"int", -2>>, <<"int", 0>>, <<"int", 2>>, <<"int", 4>>, <<"int", 9>>,
               <<"string", "Add">>},
        w \in {<<"in", "">>, <<"input", "s">>, <<"out", "">>, <<"tap", "">>, <<"entr", "y">>},
        count \in {0, 1, 4}, argument \in {None, "float"}}

MCBlock == Texts \cup Settings \cup Ports
=============================================================================
