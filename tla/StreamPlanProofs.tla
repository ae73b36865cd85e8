--------------------------- MODULE StreamPlanProofs ---------------------------
(***************************************************************************)
(* What StreamPlan promises, proved for any graphs and any transports.     *)
(***************************************************************************)
EXTENDS StreamPlan, WellFoundedInduction, TLAPS

-----------------------------------------------------------------------------
(* What the planner's two loops are to find.                                *)

Declaring(g) == {k \in DOMAIN g : Declares(g[k])}

Fit(block) ==
    /\ PlannedName(block) # ""
    /\ Transport(block) \in Supported
    /\ Payload(block) # ""

Sound(g) ==
    /\ \A k \in Declaring(g) : Fit(g[k])
    /\ \A j, k \in Declaring(g) : StreamId(g[j]) = StreamId(g[k]) => j = k

-----------------------------------------------------------------------------
(* The loops.  Each is a fold, and a fold is a sequence of turns: what is   *)
(* common to both is stated for either, by its name.  The induction on the  *)
(* turns is stated on a set of numbers.                                     *)

LEMMA Smallest ==
    ASSUME NEW S, S \subseteq Nat, S # {}
    PROVE  \E k \in S : \A j \in S : k <= j
  <1>1. \E k \in S : \A j \in S : <<j, k>> \notin OpToRel(<, Nat)
    BY NatLessThanWellFounded, WFMin
  <1>2. PICK k \in S : \A j \in S : <<j, k>> \notin OpToRel(<, Nat)
    BY <1>1
  <1>3. \A j \in S : ~ (j < k)
    BY <1>2 DEF OpToRel
  <1> QED
    BY <1>3

LEMMA Induction ==
    ASSUME NEW S, 0 \in S, \A k \in Nat : k \in S => k + 1 \in S
    PROVE  Nat \subseteq S
  <1> SUFFICES ASSUME Nat \ S # {} PROVE FALSE
    OBVIOUS
  <1>1. PICK k \in Nat \ S : \A j \in Nat \ S : k <= j
    BY Smallest
  <1>2. k # 0 /\ k - 1 \in Nat /\ k - 1 \in S
    BY <1>1
  <1> QED
    BY <1>1, <1>2

LEMMA LargestOf ==
    ASSUME NEW n \in Nat, NEW t, t \subseteq 1 .. n, n \in t
    PROVE  Max(t) = n
  <1>1. n \in t /\ \A i \in t : n >= i
    OBVIOUS
  <1>2. \A m \in t : (\A i \in t : m >= i) => m = n
    OBVIOUS
  <1> QED
    BY <1>1, <1>2 DEF Max

\* The beginning and the turns of the loops.
Start(loop) ==
    IF loop = "contract" THEN [valid |-> TRUE, seen |-> {}]
                         ELSE [valid |-> TRUE, seen |-> {}, streams |-> {}]

Loop(loop, g, found, k) ==
    IF loop = "contract" THEN Checked(found, g[k]) ELSE Planned(g, found, k)

Turn(loop, g, turns, t) ==
    IF t = {} THEN Start(loop) ELSE Loop(loop, g, turns[t \ {Max(t)}], Max(t))

\* turns[1 .. k] is what the loop has found after the first k blocks.
AreTurns(loop, g, n, turns) ==
    turns = [t \in SUBSET (1 .. n) |-> Turn(loop, g, turns, t)]

LEMMA TurnsExist ==
    ASSUME NEW loop, NEW g, NEW n \in Nat
    PROVE  \E turns : AreTurns(loop, g, n, turns)
  <1> DEFINE S == {k \in Nat : \E turns : AreTurns(loop, g, k, turns)}
  <1>1. 0 \in S
    <2> DEFINE turns == [t \in SUBSET (1 .. 0) |-> Start(loop)]
    <2>1. SUBSET (1 .. 0) = {{}}
      OBVIOUS
    <2>2. AreTurns(loop, g, 0, turns)
      BY <2>1 DEF AreTurns, Turn
    <2> HIDE DEF turns
    <2> QED
      BY <2>2
  <1>2. ASSUME NEW k \in Nat, k \in S PROVE k + 1 \in S
    <2>1. PICK turns : AreTurns(loop, g, k, turns)
      BY <1>2
    <2> DEFINE more == [t \in SUBSET (1 .. k + 1) |->
                           IF k + 1 \notin t THEN turns[t]
                           ELSE Loop(loop, g, turns[t \ {k + 1}], k + 1)]
    <2>2. ASSUME NEW t \in SUBSET (1 .. k + 1) PROVE more[t] = Turn(loop, g, more, t)
      <3>1. CASE t = {}
        <4>1. t \in SUBSET (1 .. k) /\ k + 1 \notin t
          BY <3>1
        <4> QED
          BY <2>1, <3>1, <4>1 DEF AreTurns, Turn
      <3>2. CASE t # {} /\ k + 1 \notin t
        <4>1. t \in SUBSET (1 .. k)
          BY <3>2
        <4>2. turns[t] = Loop(loop, g, turns[t \ {Max(t)}], Max(t))
          BY <2>1, <3>2, <4>1 DEF AreTurns, Turn
        <4>3. t \ {Max(t)} \in SUBSET (1 .. k + 1) /\ k + 1 \notin t \ {Max(t)}
          BY <3>2
        <4>4. more[t \ {Max(t)}] = turns[t \ {Max(t)}]
          BY <4>3
        <4> QED
          BY <3>2, <4>2, <4>4 DEF Turn
      <3>3. CASE k + 1 \in t
        <4>1. Max(t) = k + 1
          <5>1. k + 1 \in Nat /\ t \subseteq 1 .. k + 1
            OBVIOUS
          <5> QED
            BY <3>3, <5>1, LargestOf
        <4>2. t \ {k + 1} \in SUBSET (1 .. k + 1) /\ k + 1 \notin t \ {k + 1}
          OBVIOUS
        <4>3. more[t \ {k + 1}] = turns[t \ {k + 1}]
          BY <4>2
        <4> QED
          BY <3>3, <4>1, <4>3 DEF Turn
      <3> QED
        BY <3>1, <3>2, <3>3
    <2>3. more = [t \in SUBSET (1 .. k + 1) |-> Turn(loop, g, more, t)]
      <3>1. more = [t \in SUBSET (1 .. k + 1) |-> more[t]]
        OBVIOUS
      <3> HIDE DEF more
      <3> QED
        BY <2>2, <3>1
    <2> HIDE DEF more
    <2> QED
      BY <2>3 DEF AreTurns
  <1> HIDE DEF S
  <1>3. n \in S
    BY <1>1, <1>2, Induction
  <1> QED
    BY <1>3 DEF S

\* What a loop does, turn by turn.
LEMMA TurnsAre ==
    ASSUME NEW loop, NEW g, NEW n \in Nat, NEW turns, AreTurns(loop, g, n, turns)
    PROVE  /\ turns[1 .. 0] = Start(loop)
           /\ \A k \in 0 .. n - 1 :
                  turns[1 .. k + 1] = Loop(loop, g, turns[1 .. k], k + 1)
  <1>1. turns[1 .. 0] = Start(loop)
    <2>1. 1 .. 0 = {}
      OBVIOUS
    <2>2. turns[{}] = Turn(loop, g, turns, {})
      BY DEF AreTurns
    <2> QED
      BY <2>1, <2>2 DEF Turn
  <1>2. ASSUME NEW k \in 0 .. n - 1
        PROVE  turns[1 .. k + 1] = Loop(loop, g, turns[1 .. k], k + 1)
    <2>1. k + 1 \in Nat /\ 1 .. k + 1 \in SUBSET (1 .. n) /\ k + 1 \in 1 .. k + 1
      OBVIOUS
    <2>2. Max(1 .. k + 1) = k + 1
      BY <2>1, LargestOf
    <2>3. (1 .. k + 1) \ {k + 1} = 1 .. k
      OBVIOUS
    <2>4. turns[1 .. k + 1] = Turn(loop, g, turns, 1 .. k + 1)
      BY <2>1 DEF AreTurns
    <2> QED
      BY <2>1, <2>2, <2>3, <2>4 DEF Turn
  <1> QED
    BY <1>1, <1>2

\* The two loops of the planner are such loops.
ContractTurns(g) ==
    CHOOSE turns : turns =
        [t \in SUBSET DOMAIN g |->
            IF t = {} THEN [valid |-> TRUE, seen |-> {}]
            ELSE Checked(turns[t \ {Max(t)}], g[Max(t)])]

PlanTurns(g) ==
    CHOOSE turns : turns =
        [t \in SUBSET DOMAIN Positions(g) |->
            IF t = {} THEN [valid |-> TRUE, seen |-> {}, streams |-> {}]
            ELSE Planned(g, turns[t \ {Max(t)}], Positions(g)[Max(t)])]

LEMMA ContractIsLoop ==
    ASSUME NEW g, Len(g) \in Nat, DOMAIN g = 1 .. Len(g)
    PROVE  /\ ContractHolds(g) = ContractTurns(g)[1 .. Len(g)].valid
           /\ AreTurns("contract", g, Len(g), ContractTurns(g))
  <1>1. ContractHolds(g) = ContractTurns(g)[DOMAIN g].valid
    BY Zenon DEF ContractHolds, FoldLeft, MapThenFoldSet, ContractTurns
  <1>2. \E turns : turns =
            [t \in SUBSET DOMAIN g |->
                IF t = {} THEN [valid |-> TRUE, seen |-> {}]
                ELSE Checked(turns[t \ {Max(t)}], g[Max(t)])]
    <2>1. PICK turns : AreTurns("contract", g, Len(g), turns)
      BY TurnsExist
    <2>2. turns = [t \in SUBSET DOMAIN g |->
                      IF t = {} THEN [valid |-> TRUE, seen |-> {}]
                      ELSE Checked(turns[t \ {Max(t)}], g[Max(t)])]
      BY <2>1 DEF AreTurns, Turn, Start, Loop
    <2> QED
      BY <2>2
  <1>3. ContractTurns(g) =
            [t \in SUBSET DOMAIN g |->
                IF t = {} THEN [valid |-> TRUE, seen |-> {}]
                ELSE Checked(ContractTurns(g)[t \ {Max(t)}], g[Max(t)])]
    BY <1>2 DEF ContractTurns
  <1>4. AreTurns("contract", g, Len(g), ContractTurns(g))
    BY <1>3 DEF AreTurns, Turn, Start, Loop
  <1> QED
    BY <1>1, <1>4

LEMMA PlanIsLoop ==
    ASSUME NEW g, Len(g) \in Nat, DOMAIN g = 1 .. Len(g)
    PROVE  /\ DerivedPlan(g) = LET plan == PlanTurns(g)[1 .. Len(g)]
                               IN  IF plan.valid THEN plan.streams ELSE {}
           /\ AreTurns("plan", g, Len(g), PlanTurns(g))
  <1> DEFINE planned(turns, t) ==
                 IF t = {} THEN [valid |-> TRUE, seen |-> {}, streams |-> {}]
                 ELSE Planned(g, turns[t \ {Max(t)}], Positions(g)[Max(t)])
  <1>1. DOMAIN Positions(g) = 1 .. Len(g)
    BY DEF Positions
  <1>2. DerivedPlan(g) = LET plan == PlanTurns(g)[DOMAIN Positions(g)]
                         IN  IF plan.valid THEN plan.streams ELSE {}
    BY Zenon DEF DerivedPlan, FoldLeft, MapThenFoldSet, PlanTurns
  <1>3. ASSUME NEW turns, NEW t \in SUBSET (1 .. Len(g))
        PROVE  planned(turns, t) = Turn("plan", g, turns, t)
    <2>1. CASE t = {}
      BY <2>1 DEF Turn, Start
    <2>2. CASE t # {}
      <3>1. Max(t) \in 1 .. Len(g)
        <4>1. PICK m \in t : \A i \in t : m >= i
          <5> DEFINE bounds == {m \in Nat : \A i \in t : m >= i}
          <5>1. Len(g) \in bounds
            OBVIOUS
          <5>2. PICK m \in bounds : \A j \in bounds : m <= j
            BY <5>1, Smallest
          <5>3. m \in t
            <6> SUFFICES ASSUME m \notin t PROVE FALSE
              OBVIOUS
            <6>1. m \in Nat /\ \A i \in t : i \in Nat /\ m >= i /\ i >= 1
              BY <5>2
            <6>2. m > 0
              <7>1. PICK i \in t : TRUE
                BY <2>2
              <7> QED
                BY <6>1, <7>1
            <6>3. m - 1 \in bounds
              BY <6>1, <6>2
            <6> QED
              BY <5>2, <6>1, <6>3
          <5> QED
            BY <5>2, <5>3
        <4> QED
          BY <4>1 DEF Max
      <3> QED
        BY <2>2, <3>1 DEF Turn, Loop, Positions
    <2> QED
      BY <2>1, <2>2
  <1>4. \A turns : turns = [t \in SUBSET DOMAIN Positions(g) |-> planned(turns, t)]
                       <=> AreTurns("plan", g, Len(g), turns)
    <2> HIDE DEF planned
    <2> QED
      BY <1>1, <1>3 DEF AreTurns
  <1>5. PlanTurns(g) = CHOOSE turns :
            turns = [t \in SUBSET DOMAIN Positions(g) |-> planned(turns, t)]
    BY DEF PlanTurns
  <1> HIDE DEF planned
  <1>6. \E turns : turns = [t \in SUBSET DOMAIN Positions(g) |-> planned(turns, t)]
    BY <1>4, TurnsExist
  <1>7. PlanTurns(g) = [t \in SUBSET DOMAIN Positions(g) |-> planned(PlanTurns(g), t)]
    BY <1>5, <1>6
  <1> QED
    BY <1>1, <1>2, <1>4, <1>7

-----------------------------------------------------------------------------
(* What the loops find.                                                     *)

DeclaringUpTo(g, k) == {j \in 1 .. k : Declares(g[j])}
IdsUpTo(g, k)       == {StreamId(g[j]) : j \in DeclaringUpTo(g, k)}

SoundUpTo(g, k) ==
    /\ \A j \in DeclaringUpTo(g, k) : Fit(g[j])
    /\ \A i, j \in DeclaringUpTo(g, k) : StreamId(g[i]) = StreamId(g[j]) => i = j

LEMMA NextDeclaring ==
    ASSUME NEW g, NEW k \in Nat
    PROVE  /\ ~ Declares(g[k + 1]) => /\ DeclaringUpTo(g, k + 1) = DeclaringUpTo(g, k)
                                      /\ IdsUpTo(g, k + 1) = IdsUpTo(g, k)
           /\ Declares(g[k + 1]) =>
                  /\ DeclaringUpTo(g, k + 1) = DeclaringUpTo(g, k) \cup {k + 1}
                  /\ IdsUpTo(g, k + 1) = IdsUpTo(g, k) \cup {StreamId(g[k + 1])}
  <1>1. 1 .. k + 1 = (1 .. k) \cup {k + 1}
    OBVIOUS
  <1>2. CASE ~ Declares(g[k + 1])
    <2>1. DeclaringUpTo(g, k + 1) = DeclaringUpTo(g, k)
      BY <1>1, <1>2 DEF DeclaringUpTo
    <2> QED
      BY <1>2, <2>1 DEF IdsUpTo
  <1>3. CASE Declares(g[k + 1])
    <2>1. DeclaringUpTo(g, k + 1) = DeclaringUpTo(g, k) \cup {k + 1}
      BY <1>1, <1>3 DEF DeclaringUpTo
    <2> QED
      BY <1>3, <2>1 DEF IdsUpTo
  <1> QED
    BY <1>2, <1>3

LEMMA NoneYet ==
    ASSUME NEW g
    PROVE  DeclaringUpTo(g, 0) = {} /\ IdsUpTo(g, 0) = {} /\ SoundUpTo(g, 0)
  <1>1. DeclaringUpTo(g, 0) = {}
    BY DEF DeclaringUpTo
  <1> QED
    BY <1>1 DEF IdsUpTo, SoundUpTo

\* A contract that holds is a sound graph: the loop has not left out an error.
LEMMA ContractIsSound ==
    ASSUME NEW g, Len(g) \in Nat, DOMAIN g = 1 .. Len(g), ContractHolds(g)
    PROVE  Sound(g)
  <1> DEFINE n        == Len(g)
             after(k) == ContractTurns(g)[1 .. k]
             Found(k) == after(k).valid =>
                             SoundUpTo(g, k) /\ after(k).seen = IdsUpTo(g, k)
             S        == {k \in Nat : k <= n => Found(k)}
  <1>1. /\ after(0) = Start("contract")
        /\ \A k \in 0 .. n - 1 : after(k + 1) = Checked(after(k), g[k + 1])
    BY ContractIsLoop, TurnsAre DEF Loop
  <1>2. after(n).valid
    BY ContractIsLoop
  <1> HIDE DEF after
  <1>3. 0 \in S
    <2>1. after(0).seen = {}
      BY <1>1 DEF Start
    <2> QED
      BY <2>1, NoneYet
  <1>4. ASSUME NEW k \in Nat, k \in S PROVE k + 1 \in S
    <2> SUFFICES ASSUME k + 1 <= n, after(k + 1).valid
                 PROVE  /\ SoundUpTo(g, k + 1)
                        /\ after(k + 1).seen = IdsUpTo(g, k + 1)
      OBVIOUS
    <2>1. k \in 0 .. n - 1 /\ Found(k)
      BY <1>4
    <2>2. after(k + 1) = Checked(after(k), g[k + 1])
      BY <1>1, <2>1
    <2>3. CASE ~ Declares(g[k + 1])
      <3>1. after(k + 1) = after(k)
        BY <2>2, <2>3 DEF Checked
      <3>2. SoundUpTo(g, k) /\ after(k + 1).seen = IdsUpTo(g, k)
        BY <2>1, <3>1
      <3> QED
        BY <2>3, <3>2, NextDeclaring DEF SoundUpTo
    <2>4. CASE Declares(g[k + 1])
      <3>1. after(k).valid
        BY <2>2 DEF Checked
      <3>2. SoundUpTo(g, k) /\ after(k).seen = IdsUpTo(g, k)
        BY <2>1, <3>1
      <3>3. /\ Valid(g[k + 1], after(k).seen)
            /\ after(k + 1).seen = after(k).seen \cup {StreamId(g[k + 1])}
        BY <2>2, <2>4, <3>1 DEF Checked
      <3>4. /\ DeclaringUpTo(g, k + 1) = DeclaringUpTo(g, k) \cup {k + 1}
            /\ IdsUpTo(g, k + 1) = IdsUpTo(g, k) \cup {StreamId(g[k + 1])}
        BY <2>4, NextDeclaring
      <3>5. /\ Fit(g[k + 1])
            /\ \A j \in DeclaringUpTo(g, k) : StreamId(g[j]) # StreamId(g[k + 1])
        BY <3>2, <3>3 DEF Valid, Fit, IdsUpTo
      <3>6. SoundUpTo(g, k + 1)
        BY <3>2, <3>4, <3>5 DEF SoundUpTo
      <3> QED
        BY <3>2, <3>3, <3>4, <3>6
    <2> QED
      BY <2>3, <2>4
  <1> HIDE DEF S
  <1>5. n \in S
    BY <1>3, <1>4, Induction
  <1>6. SoundUpTo(g, n)
    BY <1>2, <1>5 DEF S
  <1> QED
    BY <1>6 DEF SoundUpTo, DeclaringUpTo, Sound, Declaring

\* Of a sound graph the plan has every declared stream.
LEMMA PlanOfSound ==
    ASSUME NEW g, Len(g) \in Nat, DOMAIN g = 1 .. Len(g), Sound(g)
    PROVE  DerivedPlan(g) = Declaring(g)
  <1> DEFINE n        == Len(g)
             after(k) == PlanTurns(g)[1 .. k]
             Found(k) == after(k) = [valid |-> TRUE, seen |-> IdsUpTo(g, k),
                                     streams |-> DeclaringUpTo(g, k)]
             S        == {k \in Nat : k <= n => Found(k)}
  <1>1. /\ after(0) = Start("plan")
        /\ \A k \in 0 .. n - 1 : after(k + 1) = Planned(g, after(k), k + 1)
    BY PlanIsLoop, TurnsAre DEF Loop
  <1>2. DerivedPlan(g) = IF after(n).valid THEN after(n).streams ELSE {}
    BY PlanIsLoop
  <1> HIDE DEF after
  <1>3. 0 \in S
    BY <1>1, NoneYet DEF Start
  <1>4. ASSUME NEW k \in Nat, k \in S PROVE k + 1 \in S
    <2> SUFFICES ASSUME k + 1 <= n PROVE Found(k + 1)
      OBVIOUS
    <2>1. k \in 0 .. n - 1 /\ Found(k)
      BY <1>4
    <2>2. after(k + 1) = Planned(g, after(k), k + 1)
      BY <1>1, <2>1
    <2>3. CASE ~ Declares(g[k + 1])
      <3>1. after(k + 1) = after(k)
        BY <2>2, <2>3 DEF Planned
      <3> QED
        BY <2>1, <2>3, <3>1, NextDeclaring
    <2>4. CASE Declares(g[k + 1])
      <3>1. k + 1 \in Declaring(g) /\ DeclaringUpTo(g, k) \subseteq Declaring(g) \ {k + 1}
        BY <2>1, <2>4 DEF Declaring, DeclaringUpTo
      <3>2. Valid(g[k + 1], IdsUpTo(g, k)) = TRUE
        BY <3>1 DEF Sound, Fit, Valid, IdsUpTo
      <3>3. after(k + 1) = [valid   |-> TRUE,
                            seen    |-> IdsUpTo(g, k) \cup {StreamId(g[k + 1])},
                            streams |-> DeclaringUpTo(g, k) \cup {k + 1}]
        <4>1. /\ after(k).valid = TRUE /\ after(k).seen = IdsUpTo(g, k)
              /\ after(k).streams = DeclaringUpTo(g, k)
          BY <2>1
        <4>2. after(k + 1) = [valid   |-> Valid(g[k + 1], after(k).seen),
                              seen    |-> after(k).seen \cup {StreamId(g[k + 1])},
                              streams |-> after(k).streams \cup {k + 1}]
          BY Zenon, <2>2, <2>4, <4>1 DEF Planned
        <4> QED
          BY <3>2, <4>1, <4>2
      <3> QED
        BY <2>1, <2>4, <3>3, NextDeclaring
    <2> QED
      BY <2>3, <2>4
  <1> HIDE DEF S
  <1>5. n \in S
    BY <1>3, <1>4, Induction
  <1>6. after(n).valid /\ after(n).streams = DeclaringUpTo(g, n)
    BY <1>5 DEF S
  <1> QED
    BY <1>2, <1>6 DEF DeclaringUpTo, Declaring

-----------------------------------------------------------------------------
(* What each part of prepare_locked leaves to the next.                     *)

Normalized(g) == [k \in DOMAIN g |-> RuntimeBlock(g[k])]

PlanInv ==
    /\ graph \in Graphs
    /\ pc \in {"contract", "refused", "normalize", "inject", "uninjected", "load",
               "unloaded", "prepared"}
    /\ DOMAIN content = DOMAIN graph
    /\ pc \in {"contract", "refused", "uninjected", "unloaded"} => bindings = {}
    /\ pc \in {"normalize", "inject", "load", "prepared"} =>
           bindings = Declaring(graph) /\ Sound(graph)
    /\ pc = "inject" => content = Normalized(graph)
    /\ pc \in {"load", "prepared"} =>
           content = [k \in DOMAIN graph |-> WithEndpoint(Normalized(graph)[k])]
    /\ pc = "prepared" => \A k \in DOMAIN content : content[k]["id"] # ""
    /\ pc = "uninjected" => ~ Unambiguous

-----------------------------------------------------------------------------
(* Names.                                                                   *)

\* The fields of a normalised block.
LEMMA NormalizedFields ==
    ASSUME NEW block
    PROVE  /\ "parameters" \in DOMAIN RuntimeBlock(block)
           /\ RuntimeBlock(block)["parameters"] = NamedParameters(block)
           /\ Text(RuntimeBlock(block), "instance_name")
                  = Text(block, "instance_name")
           /\ Inner(RuntimeBlock(block), "raw_parameters")
                  = Inner(block, "raw_parameters")
  <1> DEFINE typed == With(block, "id", RuntimeType(block))
  <1>1. RuntimeBlock(block) = With(typed, "parameters", NamedParameters(block))
    BY DEF RuntimeBlock
  <1>2. /\ DOMAIN typed = DOMAIN block \cup {"id"}
        /\ \A f \in DOMAIN block : f # "id" => typed[f] = block[f]
    BY DEF With
  <1>3. /\ DOMAIN RuntimeBlock(block) = DOMAIN typed \cup {"parameters"}
        /\ RuntimeBlock(block)["parameters"] = NamedParameters(block)
        /\ \A f \in DOMAIN typed :
               f # "parameters" => RuntimeBlock(block)[f] = typed[f]
    BY <1>1 DEF With
  <1> HIDE DEF typed
  <1> QED
    BY <1>2, <1>3 DEF Text, Inner

\* A block that says what it is called has, normalised, the planner's name
\* for it among its parameters (or none, if the planner has none).
LEMMA ParametersHaveTheName ==
    ASSUME NEW block, SaysItsName(block)
    PROVE  Text(NamedParameters(block), "name") = PlannedName(block)
  <1> DEFINE p == Parameters(block)
  <1>1. CASE Text(p, "name") # ""
    <2>1. "name" \in DOMAIN p
      BY <1>1 DEF Text
    <2>2. NamedParameters(block) = p
      BY <2>1 DEF NamedParameters
    <2> QED
      BY <1>1, <2>2 DEF PlannedName, ??
  <1>2. CASE Text(p, "name") = ""
    <2>1. /\ "name" \notin DOMAIN p
          /\ "block" \in DOMAIN block \/ "id" \notin DOMAIN block
      BY <1>2 DEF SaysItsName
    <2>2. (IF "block" \in DOMAIN block THEN Text(block, "id") ELSE "")
              = Text(block, "id")
      BY <2>1 DEF Text
    <2>3. PlannedName(block) = GivenName(block)
      BY <1>2, <2>2 DEF PlannedName, GivenName, ??
    <2>4. CASE GivenName(block) = ""
      BY <1>2, <2>3, <2>4 DEF NamedParameters
    <2>5. CASE GivenName(block) # ""
      <3>1. NamedParameters(block) = With(p, "name", GivenName(block))
        BY <2>1, <2>5 DEF NamedParameters
      <3> QED
        BY <2>3, <3>1 DEF With, Text
    <2> QED
      BY <2>4, <2>5
  <1> QED
    BY <1>1, <1>2

\* ... and the injector calls it so.
LEMMA NamesAgree ==
    ASSUME NEW block, SaysItsName(block)
    PROVE  InjectedName(RuntimeBlock(block)) = PlannedName(block)
  <1>1. InjectedName(RuntimeBlock(block))
            = PlannedName(block) ?? Text(block, "instance_name")
    BY NormalizedFields, ParametersHaveTheName DEF InjectedName
  <1>2. PlannedName(block) = "" => Text(block, "instance_name") = ""
    BY DEF PlannedName, ??
  <1> QED
    BY <1>1, <1>2 DEF ??
-----------------------------------------------------------------------------
(* Bindings and blocks.                                                     *)

\* In an unambiguous graph a declared stream is injected into the block that
\* declares it, and into no other.
LEMMA OwnBinding ==
    ASSUME bindings = Declaring(graph), Sound(graph), Unambiguous,
           NEW k \in DOMAIN graph
    PROVE  BindingsFor(RuntimeBlock(graph[k])) = IF k \in bindings THEN {k} ELSE {}
  <1>1. InjectedName(RuntimeBlock(graph[k])) = PlannedName(graph[k])
    BY NamesAgree DEF Unambiguous
  <1>2. BindingsFor(RuntimeBlock(graph[k])) =
            {j \in bindings : /\ PlannedName(graph[k]) # ""
                              /\ PlannedName(graph[j]) = PlannedName(graph[k])}
    BY <1>1 DEF BindingsFor
  <1>3. bindings \subseteq DOMAIN graph
    BY DEF Declaring
  <1>4. \A j \in bindings : PlannedName(graph[j]) # ""
    BY DEF Sound, Fit
  <1>5. \A j \in bindings :
            PlannedName(graph[k]) # "" /\ PlannedName(graph[j]) = PlannedName(graph[k])
                => j = k
    BY <1>3 DEF Unambiguous
  <1> QED
    BY <1>2, <1>4, <1>5

LEMMA FirstOfOne == ASSUME NEW k \in Nat PROVE First({k}) = k
  BY DEF First

\* What the injector makes of a normalised block.
LEMMA InjectedBlock ==
    ASSUME graph \in Graphs, bindings = Declaring(graph), Sound(graph), Unambiguous,
           NEW k \in DOMAIN graph
    PROVE  WithEndpoint(RuntimeBlock(graph[k])) =
               LET block == RuntimeBlock(graph[k]) IN
               IF k \in bindings
               THEN With(block, "parameters", With(NamedParameters(graph[k]), "endpoint", k))
               ELSE block
  <1>1. k \in Nat
    BY GraphsAssumption
  <1>2. First({k}) = k
    BY <1>1, FirstOfOne
  <1> QED
    BY <1>2, OwnBinding, NormalizedFields DEF WithEndpoint

\* Every binding finds its block.
LEMMA AllInjected ==
    ASSUME graph \in Graphs, bindings = Declaring(graph), Sound(graph), Unambiguous,
           content = Normalized(graph)
    PROVE  Injected = bindings
  <1>1. /\ DOMAIN content = DOMAIN graph
        /\ \A k \in DOMAIN graph : content[k] = RuntimeBlock(graph[k])
    BY DEF Normalized
  <1>2. \A k \in DOMAIN graph :
            BindingsFor(content[k]) = IF k \in bindings THEN {k} ELSE {}
    BY <1>1, OwnBinding
  <1>3. bindings \subseteq DOMAIN graph
    BY DEF Declaring
  <1>4. {l \in DOMAIN content : BindingsFor(content[l]) # {}} = bindings
    BY <1>1, <1>2, <1>3
  <1>5. \A k \in bindings : First(BindingsFor(content[k])) = k
    <2>1. \A k \in DOMAIN graph : k \in Nat
      BY GraphsAssumption
    <2>2. \A k \in bindings : k \in Nat /\ BindingsFor(content[k]) = {k}
      BY <1>2, <1>3, <2>1
    <2> QED
      BY <2>2, FirstOfOne
  <1> QED
    BY <1>4, <1>5 DEF Injected

\* Normalisation leaves an authored endpoint alone.
LEMMA NormalizedEndpoint ==
    ASSUME NEW block
    PROVE  Endpoint(RuntimeBlock(block)) = Endpoint(block)
  <1> DEFINE normal == RuntimeBlock(block)
             p      == Parameters(block)
  <1>1. Inner(normal, "parameters") = NamedParameters(block)
    BY NormalizedFields DEF Inner
  <1>2. Inner(normal, "raw_parameters") = Inner(block, "raw_parameters")
    BY NormalizedFields
  <1>3. Parameters(normal)
            = Completed(NamedParameters(block), Inner(block, "raw_parameters"))
    BY <1>1, <1>2 DEF Parameters
  <1>4. DOMAIN Inner(block, "raw_parameters") \subseteq DOMAIN p
    BY DEF Parameters, Completed
  <1>5. /\ DOMAIN p \subseteq DOMAIN NamedParameters(block)
        /\ DOMAIN NamedParameters(block) \subseteq DOMAIN p \cup {"name"}
        /\ \A f \in DOMAIN p : f # "name" => NamedParameters(block)[f] = p[f]
    BY DEF NamedParameters, With
  <1> HIDE DEF normal, p
  <1>6. /\ "endpoint" \in DOMAIN Parameters(normal) <=> "endpoint" \in DOMAIN p
        /\ "endpoint" \in DOMAIN p =>
               Parameters(normal)["endpoint"] = p["endpoint"]
    BY <1>3, <1>4, <1>5 DEF Completed
  <1> QED
    BY <1>6 DEF Endpoint, normal, p

-----------------------------------------------------------------------------
(* The invariant.                                                           *)

LEMMA PlanInvInitially == Init => PlanInv
  BY DEF Init, PlanInv

LEMMA PlanInvKept == PlanInv /\ [Next]_vars => PlanInv'
  <1> SUFFICES ASSUME PlanInv, [Next]_vars PROVE PlanInv'
    OBVIOUS
  <1> USE DEF PlanInv
  <1>1. CASE Refuse
    BY <1>1 DEF Refuse
  <1>2. CASE Plan
    <2>1. Len(graph) \in Nat /\ DOMAIN graph = 1 .. Len(graph) /\ ContractHolds(graph)
      BY <1>2, GraphsAssumption DEF Plan
    <2>2. Sound(graph) /\ DerivedPlan(graph) = Declaring(graph)
      BY <2>1, ContractIsSound, PlanOfSound
    <2> QED
      BY <1>2, <2>2 DEF Plan
  <1>3. CASE Normalize
    BY <1>3 DEF Normalize, Normalized
  <1>4. CASE Inject
    <2>1. \A k \in DOMAIN graph : WithEndpoint(Normalized(graph)[k])'
                                      = WithEndpoint(Normalized(graph)[k])
      BY <1>4 DEF Inject, WithEndpoint, BindingsFor
    <2>2. content' = [k \in DOMAIN graph |-> WithEndpoint(Normalized(graph)[k])]
      BY <1>4 DEF Inject, Normalized
    <2> QED
      BY <1>4, <2>1, <2>2 DEF Inject
  <1>5. CASE InjectFails
    <2>1. ~ Unambiguous
      BY <1>5, AllInjected DEF InjectFails
    <2>2. ~ Unambiguous'
      BY <1>5, <2>1 DEF InjectFails, Unambiguous
    <2> QED
      BY <1>5, <2>2 DEF InjectFails
  <1>6. CASE Load
    <2>1. \A k \in DOMAIN graph : WithEndpoint(Normalized(graph)[k])'
                                      = WithEndpoint(Normalized(graph)[k])
      BY <1>6 DEF Load, WithEndpoint, BindingsFor
    <2> QED
      BY <1>6, <2>1 DEF Load
  <1>7. CASE LoadFails
    BY <1>7 DEF LoadFails
  <1>8. CASE UNCHANGED vars
    <2>1. \A k \in DOMAIN graph : WithEndpoint(Normalized(graph)[k])'
                                      = WithEndpoint(Normalized(graph)[k])
      BY <1>8 DEF vars, WithEndpoint, BindingsFor
    <2> QED
      BY <1>8, <2>1 DEF vars, Unambiguous
  <1> QED
    BY <1>1, <1>2, <1>3, <1>4, <1>5, <1>6, <1>7, <1>8 DEF Next

LEMMA PlanInvAlways == Spec => []PlanInv
  BY PlanInvInitially, PlanInvKept, PTL DEF Spec

-----------------------------------------------------------------------------
(* The theorems.                                                            *)

\* The types of the state, and: every stream has an identifier to be fetched
\* by.
THEOREM TypeCorrect == Spec => []TypeOK
  <1>1. PlanInv => TypeOK
    <2> SUFFICES ASSUME PlanInv PROVE TypeOK
      OBVIOUS
    <2>1. bindings \subseteq Declaring(graph)
      BY DEF PlanInv
    <2>2. \A k \in bindings : PlannedName(graph[k]) # ""
      BY <2>1 DEF PlanInv, Sound, Fit
    <2>3. \A k \in bindings : StreamId(graph[k]) # ""
      BY <2>2 DEF StreamId, ??
    <2> QED
      BY <2>1, <2>3 DEF PlanInv, TypeOK, Declaring
  <1> QED
    BY <1>1, PlanInvAlways, PTL

\* The fields of the parameters, and the type, that a block is loaded with.
LEMMA LoadedBlock ==
    ASSUME NEW block
    PROVE  LET loaded == WithEndpoint(RuntimeBlock(block)) IN
           /\ AuthorsStream(loaded) <=> IntentField \cap DOMAIN Parameters(block) # {}
           /\ loaded["id"] = RuntimeType(block)
  <1> DEFINE normal == RuntimeBlock(block)
             typed  == With(block, "id", RuntimeType(block))
             loaded == WithEndpoint(normal)
  <1>1. normal = With(typed, "parameters", NamedParameters(block))
    BY DEF RuntimeBlock
  <1>2. "id" \in DOMAIN typed /\ typed["id"] = RuntimeType(block)
    BY DEF With
  <1> HIDE DEF typed
  <1>3. /\ "parameters" \in DOMAIN normal
        /\ normal["parameters"] = NamedParameters(block)
        /\ "id" \in DOMAIN normal /\ normal["id"] = RuntimeType(block)
    BY <1>1, <1>2 DEF With
  <1> HIDE DEF normal
  <1>4. /\ loaded["id"] = normal["id"]
        /\ \/ loaded["parameters"] = normal["parameters"]
           \/ DOMAIN loaded["parameters"] = DOMAIN normal["parameters"] \cup {"endpoint"}
    BY <1>3 DEF WithEndpoint, With
  <1>5. /\ DOMAIN Parameters(block) \subseteq DOMAIN NamedParameters(block)
        /\ DOMAIN NamedParameters(block) \subseteq DOMAIN Parameters(block) \cup {"name"}
    BY DEF NamedParameters, With
  <1>6. "endpoint" \notin IntentField /\ "name" \notin IntentField
    BY DEF IntentField
  <1> HIDE DEF loaded
  <1>7. AuthorsStream(loaded) <=> IntentField \cap DOMAIN Parameters(block) # {}
    BY <1>3, <1>4, <1>5, <1>6 DEF AuthorsStream
  <1> QED
    BY <1>3, <1>4, <1>7 DEF loaded, normal

\* The planner and the loader read the type of a block differently when its
\* block field is empty, and only then.
LEMMA TypesAgree ==
    ASSUME NEW block, RuntimeType(block) # ""
    PROVE  BlockType(block) # "" <=> ~ BlockFieldEmpty(block)
  BY DEF RuntimeType, BlockType, BlockFieldEmpty, Text, ??

\* Whatever graphs sessions are created with: a block that runs with an
\* authored stream has a binding for it, unless its block field is empty
\* (prepare_locked checks the contract, derives the plan and normalises the
\* graph in three passes).
THEOREM DeclaredStreamsAreBound == Spec => []NeverSilentlyLegacy
  <1>1. PlanInv => NeverSilentlyLegacy
    <2> SUFFICES ASSUME PlanInv, pc = "prepared", NEW k \in DOMAIN content
                 PROVE  k \in bindings <=>
                            AuthorsStream(content[k]) /\ ~ BlockFieldEmpty(graph[k])
      BY DEF NeverSilentlyLegacy
    <2>1. /\ k \in DOMAIN graph /\ bindings = Declaring(graph)
          /\ content[k] = WithEndpoint(RuntimeBlock(graph[k]))
          /\ content[k]["id"] # ""
      BY DEF PlanInv, Normalized
    <2>2. /\ AuthorsStream(content[k])
                 <=> IntentField \cap DOMAIN Parameters(graph[k]) # {}
          /\ RuntimeType(graph[k]) # ""
      BY <2>1, LoadedBlock
    <2>3. BlockType(graph[k]) # "" <=> ~ BlockFieldEmpty(graph[k])
      BY <2>2, TypesAgree
    <2> QED
      BY <2>1, <2>2, <2>3 DEF Declaring, Declares
  <1> QED
    BY <1>1, PlanInvAlways, PTL

\* inject_stream_bindings does not throw, if the blocks say what they are
\* called.
THEOREM SoundGraphsInjected == Spec => []SoundGraphsAreInjected
  <1>1. PlanInv => SoundGraphsAreInjected
    BY DEF PlanInv, SoundGraphsAreInjected
  <1> QED
    BY <1>1, PlanInvAlways, PTL

\* Of such a graph each stream's endpoint is injected into the block that
\* declared it and nowhere else.
THEOREM EndpointsInjected == Spec => []EndpointsReachTheirBlocks
  <1>1. PlanInv => EndpointsReachTheirBlocks
    <2> SUFFICES ASSUME PlanInv, Unambiguous, pc = "prepared",
                        NEW k \in DOMAIN graph
                 PROVE  Endpoint(content[k])
                            = IF k \in bindings THEN {k} ELSE Endpoint(graph[k])
      BY DEF EndpointsReachTheirBlocks
    <2>1. /\ graph \in Graphs /\ bindings = Declaring(graph) /\ Sound(graph)
          /\ content[k] = WithEndpoint(RuntimeBlock(graph[k]))
      BY DEF PlanInv, Normalized
    <2>2. CASE k \in bindings
      <3>1. content[k] = With(RuntimeBlock(graph[k]), "parameters",
                              With(NamedParameters(graph[k]), "endpoint", k))
        BY <2>1, <2>2, InjectedBlock
      <3>2. Inner(content[k], "parameters")
                = With(NamedParameters(graph[k]), "endpoint", k)
        BY <3>1 DEF Inner, With
      <3>3. /\ "endpoint" \in DOMAIN Parameters(content[k])
            /\ Parameters(content[k])["endpoint"] = k
        BY <3>2 DEF Parameters, Completed, With
      <3> QED
        BY <2>2, <3>3 DEF Endpoint
    <2>3. CASE k \notin bindings
      BY <2>1, <2>3, InjectedBlock, NormalizedEndpoint
    <2> QED
      BY <2>2, <2>3
  <1> QED
    BY <1>1, PlanInvAlways, PTL

\* The block_instance_name of a stream's descriptor is the name under which
\* the running block is found.
THEOREM DescriptorsNameBlocks == Spec => []StreamsNameTheirBlocks
  <1>1. PlanInv => StreamsNameTheirBlocks
    <2> SUFFICES ASSUME PlanInv, Unambiguous, pc = "prepared", NEW k \in bindings
                 PROVE  Text(content[k]["parameters"], "name") = PlannedName(graph[k])
      BY DEF StreamsNameTheirBlocks
    <2>1. /\ graph \in Graphs /\ bindings = Declaring(graph) /\ Sound(graph)
          /\ k \in DOMAIN graph
      BY DEF PlanInv, Declaring
    <2>2. content[k] = With(RuntimeBlock(graph[k]), "parameters",
                            With(NamedParameters(graph[k]), "endpoint", k))
      BY <2>1, InjectedBlock DEF PlanInv, Normalized
    <2>3. content[k]["parameters"] = With(NamedParameters(graph[k]), "endpoint", k)
      BY <2>2 DEF With
    <2>4. Text(content[k]["parameters"], "name") = Text(NamedParameters(graph[k]), "name")
      BY <2>3 DEF With, Text
    <2> QED
      BY <2>1, <2>4, ParametersHaveTheName DEF Unambiguous
  <1> QED
    BY <1>1, PlanInvAlways, PTL
=============================================================================
