---------------------- MODULE ProcessingPipelineProofs ----------------------
(***************************************************************************)
(* What holds of the pipeline for plans of any length: an area that was    *)
(* given is applied; a plan whose steps can be ordered and whose inputs    *)
(* fit is run to its end, and each of its nodes reads what it names; and   *)
(* the plans the registry builds are such plans.  So are the others that   *)
(* the guard accepts: its walk finds the cycles, and its sort puts every   *)
(* step behind those it depends on.  What the preflight found of their     *)
(* uploads still holds when they run.                                      *)
(***************************************************************************)
EXTENDS ProcessingPipeline, Extremes, FiniteSetTheorems, SequenceTheorems, TLAPS

IsSeq(q) == q \in Seq(ToSet(q))

\* A sequence is a function on its positions.
LEMMA SeqShape ==
  ASSUME NEW q, IsSeq(q)
  PROVE  Len(q) \in Nat /\ DOMAIN q = 1..Len(q) /\ q \in [1..Len(q) -> ToSet(q)]
BY DEF IsSeq

LEMMA ShapeSeq ==
  ASSUME NEW n \in Nat, NEW S, NEW q \in [1..n -> S]
  PROVE  IsSeq(q) /\ Len(q) = n
<1>1. q \in Seq(S) /\ Len(q) = n
  OBVIOUS
<1>2. q \in [1..n -> ToSet(q)]
  BY DEF ToSet
<1>3. QED
  BY <1>1, <1>2 DEF IsSeq

LEMMA OnPositions ==
  ASSUME NEW S, NEW q \in Seq(S)
  PROVE  Len(q) \in Nat /\ q \in [1..Len(q) -> S]
OBVIOUS

\* A sequence grows by its last element.
LEMMA AppendShape ==
  ASSUME NEW q, IsSeq(q), NEW x
  PROVE  /\ IsSeq(Append(q, x)) /\ Len(Append(q, x)) = Len(q) + 1
         /\ DOMAIN Append(q, x) = 1..Len(q) + 1
         /\ \A i \in 1..Len(q) : Append(q, x)[i] = q[i]
         /\ Append(q, x)[Len(q) + 1] = x
<1> DEFINE S == ToSet(q) \cup {x}
<1>1. q \in Seq(S) /\ x \in S
  BY SeqShape
<1> HIDE DEF S
<1>2. /\ Append(q, x) \in Seq(S) /\ Len(Append(q, x)) = Len(q) + 1 /\ Len(q) \in Nat
      /\ \A i \in 1..Len(q) : Append(q, x)[i] = q[i]
      /\ Append(q, x)[Len(q) + 1] = x
  BY <1>1
<1>3. Len(q) + 1 \in Nat /\ Append(q, x) \in [1..Len(q) + 1 -> S]
  <2>1. Append(q, x) \in [1..Len(Append(q, x)) -> S]
    BY <1>2, OnPositions, Zenon
  <2>2. QED
    BY <1>2, <2>1
<1>4. IsSeq(Append(q, x))
  BY <1>2, <1>3, ShapeSeq
<1>5. QED
  BY <1>2, <1>3, <1>4

\* The sequence of a finite set is one, and holds nothing else.
LEMMA ListedOnly ==
  ASSUME NEW S, IsFiniteSet(S)
  PROVE  IsSeq(SetToSeq(S)) /\ ToSet(SetToSeq(S)) \subseteq S
<1>1. PICK f \in [1..Cardinality(S) -> S] : IsInjective(f)
  BY FS_CardinalityType DEF IsInjective, ExistsBijection, Bijection, Injection
<1>2. SetToSeq(S) \in [1..Cardinality(S) -> S]
  BY <1>1 DEF SetToSeq
<1>3. Cardinality(S) \in Nat
  BY FS_CardinalityType
<1>4. QED
  BY <1>2, <1>3, ShapeSeq DEF ToSet
-----------------------------------------------------------------------------
\* Plans that fit: the steps can be ordered, their references differ, and a
\* reference to a step before, or to what that one waits for, has the type of
\* the input it stands for.
IsNode(node) ==
    node = [op |-> node.op, deps |-> node.deps, inputs |-> node.inputs,
            params |-> node.params, out |-> node.out]

Ranked(p) ==
    \E rank \in [Steps(p) -> 0..Len(p)] : \A s \in Steps(p) : \A d \in ToSet(p[s].deps) :
        d \in Steps(p) /\ rank[d] < rank[s]

FormatsAreSeq(node) == node.op = "artifact.export" => IsSeq(Formats(node))

ListsAreSeqs(p) == \A s \in Steps(p) : IsSeq(p[s].deps) /\ FormatsAreSeq(p[s])

PlanFits(p) ==
    /\ IsSeq(p)
    /\ Ranked(p)
    /\ \A s, t \in Steps(p) : p[s].out = p[t].out => s = t
    /\ \A s \in Steps(p) : \A q \in Ancestors(p, s) :
         \A key \in DOMAIN p[s].inputs \cap DOMAIN InputTypes(p[s].op) :
           key # "upload_id" /\ p[s].inputs[key] = p[q].out
             => Compatible(OutputType(p[q].op), InputTypes(p[s].op)[key])

\* What the registry builds: each node waits for earlier ones, and reads their
\* outputs where the types agree.
NodeFits(nodes, node, s) ==
    /\ IsNode(node)
    /\ node.out = RefOf[s]
    /\ IsSeq(node.deps) /\ ToSet(node.deps) \subseteq 1..s - 1
    /\ FormatsAreSeq(node)
    /\ \A key \in DOMAIN node.inputs \ {"upload_id"} :
         /\ key \in DOMAIN InputTypes(node.op)
         /\ \E q \in 1..s - 1 :
              /\ node.inputs[key] = nodes[q].out
              /\ Compatible(OutputType(nodes[q].op), InputTypes(node.op)[key])

BuiltWell(nodes) ==
    /\ IsSeq(nodes)
    /\ 1..Len(nodes) \subseteq DOMAIN RefOf
    /\ \A s \in 1..Len(nodes) : NodeFits(nodes, nodes[s], s)

\* The latest of some steps is one of them.
LEMMA LatestIs ==
  ASSUME NEW n \in Nat, NEW T, T \subseteq 1..n
  PROVE  Latest(T) \subseteq T /\ (T # {} => Latest(T) # {})
<1>1. Latest(T) \subseteq T
  BY DEF Latest
<1>2. ASSUME T # {} PROVE Latest(T) # {}
  <2>1. T \subseteq 0..n
    OBVIOUS
  <2>2. PICK x \in T : \A y \in T : y <= x
    BY <1>2, <2>1, Greatest
  <2>3. QED
    BY <2>2 DEF Latest
<1>3. QED
  BY <1>1, <1>2

\* The steps picked for an input are there, and of its type.
LEMMA PickedFit ==
  ASSUME NEW nodes, IsSeq(nodes), NEW t
  PROVE  /\ PickSteps(nodes, t) \subseteq 1..Len(nodes)
         /\ \A q \in PickSteps(nodes, t) : Compatible(OutputType(nodes[q].op), t)
<1>1. \A u : StepsOfType(nodes, u) \subseteq 1..Len(nodes)
  BY SeqShape DEF StepsOfType
<1>2. \A u : Latest(StepsOfType(nodes, u)) \subseteq StepsOfType(nodes, u)
  BY DEF Latest
<1>3. CASE t = "any"
  <2>1. ASSUME NEW q \in PrimarySteps(nodes) PROVE q \in 1..Len(nodes)
    <3>1. PICK u : q \in Latest(StepsOfType(nodes, u))
      BY <2>1 DEF PrimarySteps
    <3>2. QED
      BY <3>1, <1>1, <1>2
  <2>2. QED
    BY <1>3, <2>1 DEF PickSteps, Compatible
<1>4. CASE t = "raster[]"
  BY <1>1, <1>4 DEF PickSteps, StepsOfType, Compatible, BaseType
<1>5. CASE t \notin {"any", "raster[]"}
  <2>1. PickSteps(nodes, t) \subseteq StepsOfType(nodes, t)
    BY <1>2, <1>5 DEF PickSteps
  <2>2. QED
    BY <1>1, <1>5, <2>1 DEF StepsOfType, Compatible, BaseType
<1>6. QED
  BY <1>3, <1>4, <1>5

\* A built node fits behind the nodes it was built for.
LEMMA NodeBuilt ==
  ASSUME NEW nodes, IsSeq(nodes), NEW op, NEW paths
  PROVE  NodeFits(nodes, BuiltNode(nodes, op, paths), Len(nodes) + 1)
<1> DEFINE node == BuiltNode(nodes, op, paths)
           picked(key) == PickSteps(nodes, InputTypes(op)[key])
           wired == {key \in DOMAIN InputTypes(op) : picked(key) # {}}
           producers == UNION {picked(key) : key \in wired}
           deps == IF producers = {} /\ nodes # <<>> THEN {Len(nodes)} ELSE producers
           inputs == [key \in wired |-> LatestRef(nodes, picked(key))]
<1>1. node = [op |-> op, deps |-> SetToSeq(deps), inputs |-> inputs,
              params |-> NodeParams(op, paths), out |-> RefOf[Len(nodes) + 1]]
  BY DEF BuiltNode
<1>2. Len(nodes) \in Nat /\ DOMAIN nodes = 1..Len(nodes)
  BY SeqShape
<1>3. producers \subseteq 1..Len(nodes)
  BY PickedFit
<1>4. deps \subseteq 1..Len(nodes)
  <2>1. CASE producers = {} /\ nodes # <<>>
    <3>1. Len(nodes) # 0
      BY <2>1 DEF IsSeq
    <3>2. QED
      BY <1>2, <2>1, <3>1
  <2>2. CASE ~(producers = {} /\ nodes # <<>>)
    BY <1>3, <2>2
  <2>3. QED
    BY <2>1, <2>2
<1> HIDE DEF producers, deps
<1>5. IsSeq(SetToSeq(deps)) /\ ToSet(SetToSeq(deps)) \subseteq 1..Len(nodes)
  <2>1. IsFiniteSet(1..Len(nodes))
    BY <1>2, FS_Interval
  <2>2. IsFiniteSet(deps)
    BY <2>1, <1>4, FS_Subset
  <2>3. QED
    BY <1>4, <2>2, ListedOnly
<1>6. ASSUME NEW key \in wired
      PROVE  \E q \in 1..Len(nodes) :
               /\ inputs[key] = nodes[q].out
               /\ Compatible(OutputType(nodes[q].op), InputTypes(op)[key])
  <2>1. picked(key) \subseteq 1..Len(nodes) /\ picked(key) # {}
    BY <1>6, PickedFit
  <2> HIDE DEF picked
  <2>2. PICK q : q = CHOOSE s \in Latest(picked(key)) : TRUE
    OBVIOUS
  <2>3. q \in picked(key)
    BY <1>2, <2>1, <2>2, LatestIs
  <2>4. inputs[key] = nodes[q].out
    BY <1>6, <2>2 DEF LatestRef
  <2>5. Compatible(OutputType(nodes[q].op), InputTypes(op)[key])
    BY <2>3, PickedFit DEF picked
  <2>6. QED
    BY <2>1, <2>3, <2>4, <2>5
<1> HIDE DEF inputs, wired
<1>7. /\ node.op = op /\ node.deps = SetToSeq(deps) /\ node.inputs = inputs
      /\ node.out = RefOf[Len(nodes) + 1] /\ IsNode(node)
  BY <1>1 DEF IsNode
<1>8. DOMAIN inputs = wired /\ wired \subseteq DOMAIN InputTypes(op)
  BY DEF inputs, wired
<1> HIDE DEF node
<1>9. \A key \in DOMAIN node.inputs \ {"upload_id"} :
        /\ key \in DOMAIN InputTypes(node.op)
        /\ \E q \in 1..Len(nodes) :
             /\ node.inputs[key] = nodes[q].out
             /\ Compatible(OutputType(nodes[q].op), InputTypes(node.op)[key])
  BY <1>6, <1>7, <1>8
<1>10. Len(nodes) + 1 - 1 = Len(nodes)
  BY <1>2
<1>11. FormatsAreSeq(node)
  <2> SUFFICES ASSUME node.op = "artifact.export" PROVE IsSeq(Formats(node))
    BY DEF FormatsAreSeq
  <2>1. node.params = With(RequestParams(op, paths), "formats", DefaultFormats)
    BY <1>1, <1>7 DEF NodeParams
  <2>2. Formats(node) = DefaultFormats
    BY <2>1 DEF Formats, With, DefaultFormats
  <2>3. QED
    BY <2>2 DEF DefaultFormats, IsSeq, ToSet
<1>12. QED
  BY <1>5, <1>7, <1>9, <1>10, <1>11 DEF NodeFits, node

\* So does the export that closes a plan.
LEMMA ExportCloses ==
  ASSUME NEW nodes, IsSeq(nodes), NEW paths
  PROVE  NodeFits(nodes, ClosingExport(nodes, paths), Len(nodes) + 1)
<1> DEFINE node == BuiltNode(nodes, "artifact.export", paths)
           export == ClosingExport(nodes, paths)
<1>1. NodeFits(nodes, node, Len(nodes) + 1)
  BY NodeBuilt
<1>2. PICK t : export = [node EXCEPT !.params = With(node.params, "formats", ExportFormats(t))]
  BY DEF ClosingExport
<1> HIDE DEF node, export
<1>3. /\ export.op = node.op /\ export.deps = node.deps /\ export.inputs = node.inputs
      /\ export.out = node.out /\ IsNode(export)
      /\ export.params = With(node.params, "formats", ExportFormats(t))
  BY <1>1, <1>2 DEF NodeFits, IsNode
<1>4. FormatsAreSeq(export)
  <2>1. ExportFormats(t) # <<>> /\ IsSeq(ExportFormats(t))
    <3>1. /\ <<"geojson">> # <<>> /\ IsSeq(<<"geojson">>)
          /\ <<"csv">> # <<>> /\ IsSeq(<<"csv">>)
          /\ <<"geotiff", "png_map">> # <<>> /\ IsSeq(<<"geotiff", "png_map">>)
      BY DEF IsSeq, ToSet
    <3>2. QED
      BY <3>1, Zenon DEF ExportFormats
  <2>2. Formats(export) = ExportFormats(t)
    BY <1>3, <2>1 DEF Formats, With
  <2>3. QED
    BY <2>1, <2>2 DEF FormatsAreSeq
<1>5. NodeFits(nodes, export, Len(nodes) + 1)
  BY <1>1, <1>3, <1>4 DEF NodeFits
<1>6. QED
  BY <1>5 DEF export

\* A plan that is built well stays so with a node that fits.
LEMMA WellGrows ==
  ASSUME NEW nodes, BuiltWell(nodes), NEW node, NodeFits(nodes, node, Len(nodes) + 1),
         Len(nodes) + 1 \in DOMAIN RefOf
  PROVE  BuiltWell(Append(nodes, node)) /\ Len(Append(nodes, node)) = Len(nodes) + 1
<1> DEFINE more == Append(nodes, node)
<1>1. IsSeq(nodes) /\ Len(nodes) \in Nat
  BY SeqShape DEF BuiltWell
<1>2. /\ IsSeq(more) /\ Len(more) = Len(nodes) + 1
      /\ \A i \in 1..Len(nodes) : more[i] = nodes[i]
      /\ more[Len(nodes) + 1] = node
  BY <1>1, AppendShape
<1> HIDE DEF more
<1>3. 1..Len(more) \subseteq DOMAIN RefOf
  BY <1>1, <1>2 DEF BuiltWell
<1>4. ASSUME NEW s \in 1..Len(more) PROVE NodeFits(more, more[s], s)
  <2>1. NodeFits(nodes, more[s], s)
    <3>1. CASE s \in 1..Len(nodes)
      BY <3>1, <1>2 DEF BuiltWell
    <3>2. CASE s = Len(nodes) + 1
      BY <3>2, <1>2
    <3>3. QED
      BY <1>1, <1>2, <1>4, <3>1, <3>2
  <2>2. \A q \in 1..s - 1 : more[q] = nodes[q]
    BY <1>1, <1>2, <1>4
  <2>3. QED
    BY <2>1, <2>2 DEF NodeFits
<1>5. QED
  BY <1>2, <1>3, <1>4 DEF BuiltWell, more

\* The nodes after each operation, as the recursion defines them.
Step(nodes, op, paths) == Append(nodes, BuiltNode(nodes, op, paths))

Recursion(f, n, ops, paths) ==
    f = [k \in 0..n |-> IF k = 0 THEN <<>> ELSE Step(f[k - 1], ops[k], paths)]

LEMMA RecursionDefines ==
  ASSUME NEW ops, IsSeq(ops), NEW paths
  PROVE  Recursion(BuiltNodes(ops, paths), Len(ops), ops, paths)
<1> DEFINE Bad == {n \in 0..Len(ops) : ~ \E f : Recursion(f, n, ops, paths)}
<1>1. Len(ops) \in Nat
  BY SeqShape
<1>2. Bad = {}
  <2> SUFFICES ASSUME Bad # {} PROVE FALSE
    OBVIOUS
  <2>1. Bad \subseteq Nat
    OBVIOUS
  <2>2. PICK n \in Bad : \A m \in Bad : n <= m
    BY <2>1, Least
  <2>3. n \in 0..Len(ops)
    OBVIOUS
  <2>4. CASE n = 0
    <3> DEFINE f == [k \in 0..0 |-> <<>>]
    <3>1. Recursion(f, 0, ops, paths)
      BY DEF Recursion
    <3>2. QED
      BY <2>4, <3>1
  <2>5. CASE n # 0
    <3>1. n - 1 \in 0..Len(ops) /\ n - 1 \notin Bad
      BY <1>1, <2>2, <2>3, <2>5
    <3>2. PICK f : Recursion(f, n - 1, ops, paths)
      BY <3>1
    <3> DEFINE g == [k \in 0..n |-> IF k = n THEN Step(f[n - 1], ops[n], paths) ELSE f[k]]
    <3>3. \A k \in 0..n - 1 : f[k] = IF k = 0 THEN <<>> ELSE Step(f[k - 1], ops[k], paths)
      BY <3>2 DEF Recursion
    <3>4. ASSUME NEW k \in 0..n
          PROVE  g[k] = IF k = 0 THEN <<>> ELSE Step(g[k - 1], ops[k], paths)
      <4>1. CASE k = n
        <5>1. g[k - 1] = f[n - 1]
          BY <2>3, <2>5, <4>1
        <5>2. QED
          BY <2>3, <2>5, <4>1, <5>1
      <4>2. CASE k # n
        <5>1. k \in 0..n - 1 /\ g[k] = f[k] /\ (k # 0 => g[k - 1] = f[k - 1])
          BY <2>3, <4>2
        <5>2. QED
          BY <3>3, <5>1
      <4>3. QED
        BY <4>1, <4>2
    <3>5. g = [k \in 0..n |-> IF k = 0 THEN <<>> ELSE Step(g[k - 1], ops[k], paths)]
      <4>1. g = [k \in 0..n |-> g[k]]
        OBVIOUS
      <4> HIDE DEF g
      <4>2. QED
        BY <3>4, <4>1
    <3>6. Recursion(g, n, ops, paths)
      BY <3>5 DEF Recursion
    <3>7. QED
      BY <3>6
  <2>6. QED
    BY <2>4, <2>5
<1>3. \E f : Recursion(f, Len(ops), ops, paths)
  BY <1>1, <1>2
<1>4. BuiltNodes(ops, paths) =
        CHOOSE f : f = [k \in 0..Len(ops) |->
                          IF k = 0 THEN <<>> ELSE Step(f[k - 1], ops[k], paths)]
  BY DEF BuiltNodes, Step
<1>5. QED
  BY <1>3, <1>4 DEF Recursion

\* The nodes for the operations of a request are built well,
LEMMA NodesAreWell ==
  ASSUME NEW r \in Requests
  PROVE  LET nodes == BuiltNodes(r.ops, r.paths)[Len(r.ops)]
         IN  BuiltWell(nodes) /\ Len(nodes) = Len(r.ops)
<1> DEFINE L == Len(r.ops)
           f == BuiltNodes(r.ops, r.paths)
           Good(n) == BuiltWell(f[n]) /\ Len(f[n]) = n
           Bad == {n \in 0..L : ~ Good(n)}
<1>1. IsSeq(r.ops) /\ L \in Nat /\ 1..L + 1 \subseteq DOMAIN RefOf
  BY RequestsAssumption, SeqShape DEF IsSeq
<1>2. Recursion(f, L, r.ops, r.paths)
  BY <1>1, RecursionDefines
<1> HIDE DEF f, L
<1>3. \A n \in 0..L : f[n] = IF n = 0 THEN <<>> ELSE Step(f[n - 1], r.ops[n], r.paths)
  BY <1>2 DEF Recursion
<1>4. Good(0)
  <2>1. f[0] = <<>>
    BY <1>1, <1>3
  <2>2. IsSeq(<<>>) /\ Len(<<>>) = 0
    BY DEF IsSeq
  <2>3. QED
    BY <2>1, <2>2 DEF BuiltWell
<1>5. ASSUME NEW n \in 0..L, n # 0, Good(n - 1)
      PROVE  Good(n)
  <2>1. f[n] = Append(f[n - 1], BuiltNode(f[n - 1], r.ops[n], r.paths))
    BY <1>3, <1>5 DEF Step
  <2>2. BuiltWell(f[n - 1]) /\ Len(f[n - 1]) = n - 1 /\ IsSeq(f[n - 1])
    BY <1>5 DEF BuiltWell
  <2>3. Len(f[n - 1]) + 1 = n /\ n \in DOMAIN RefOf
    BY <1>1, <1>5, <2>2
  <2>4. NodeFits(f[n - 1], BuiltNode(f[n - 1], r.ops[n], r.paths), Len(f[n - 1]) + 1)
    BY <2>2, NodeBuilt
  <2>5. QED
    BY <2>1, <2>2, <2>3, <2>4, WellGrows
<1> HIDE DEF Good
<1>6. Bad = {}
  <2> SUFFICES ASSUME Bad # {} PROVE FALSE
    OBVIOUS
  <2>1. Bad \subseteq Nat
    OBVIOUS
  <2>2. PICK n \in Bad : \A m \in Bad : n <= m
    BY <2>1, Least
  <2>3. n \in 0..L /\ n # 0
    BY <1>4, <2>2
  <2>4. n - 1 \in 0..L /\ n - 1 \notin Bad
    BY <1>1, <2>2, <2>3
  <2>5. QED
    BY <1>5, <2>2, <2>3, <2>4
<1>7. QED
  BY <1>1, <1>6 DEF Good, f, L

\* and with the export that closes it, so is the plan.
LEMMA PlanIsWell ==
  ASSUME NEW r \in Requests
  PROVE  BuiltWell(BuildPlan(r.ops, r.paths))
<1> DEFINE nodes == BuiltNodes(r.ops, r.paths)[Len(r.ops)]
<1>1. BuiltWell(nodes) /\ Len(nodes) = Len(r.ops) /\ IsSeq(nodes)
  BY NodesAreWell DEF BuiltWell
<1>2. Len(nodes) + 1 \in DOMAIN RefOf
  <2>1. Len(r.ops) \in Nat /\ 1..Len(r.ops) + 1 \subseteq DOMAIN RefOf
    BY RequestsAssumption, SeqShape DEF IsSeq
  <2>2. QED
    BY <1>1, <2>1
<1>3. BuildPlan(r.ops, r.paths) \in {nodes, Append(nodes, ClosingExport(nodes, r.paths))}
  BY DEF BuildPlan
<1> HIDE DEF nodes
<1>4. BuiltWell(Append(nodes, ClosingExport(nodes, r.paths)))
  BY <1>1, <1>2, ExportCloses, WellGrows
<1>5. QED
  BY <1>1, <1>3, <1>4

\* The paths of uploads leave the wiring of a node alone.
LEMMA InjectedFits ==
  ASSUME NEW nodes, NEW node, NEW s, NodeFits(nodes, node, s), NEW paths, NEW uploads
  PROVE  /\ NodeFits(nodes, InjectNode(node, paths, uploads), s)
         /\ InjectNode(node, paths, uploads).op = node.op
<1> DEFINE injected == InjectNode(node, paths, uploads)
<1>1. PICK inputs, params :
        /\ inputs \in {node.inputs, With(node.inputs, "upload_id", "file")}
        /\ injected = [op |-> node.op, deps |-> node.deps, inputs |-> inputs,
                       params |-> params, out |-> node.out]
        /\ node.op = "artifact.export" => params = node.params
  <2>1. IsNode(node)
    BY DEF NodeFits
  <2> DEFINE more == IF node.op \in Uploads /\ Given(node.inputs, "upload_id") = ""
                        /\ (IF node.op = "input.upload_raster" THEN "raster" ELSE "vector")
                             \in DOMAIN uploads
                     THEN With(node.inputs, "upload_id", "file") ELSE node.inputs
  <2>2. \/ injected = [node EXCEPT !.inputs = more]
        \/ node.op # "artifact.export" /\ \E params : injected = [node EXCEPT !.inputs = more, !.params = params]
    BY DEF InjectNode, Uploads
  <2>3. more \in {node.inputs, With(node.inputs, "upload_id", "file")}
    OBVIOUS
  <2> HIDE DEF more, injected
  <2>4. \/ injected = [op |-> node.op, deps |-> node.deps, inputs |-> more,
                       params |-> node.params, out |-> node.out]
        \/ node.op # "artifact.export"
           /\ \E params : injected = [op |-> node.op, deps |-> node.deps, inputs |-> more,
                                      params |-> params, out |-> node.out]
    BY <2>1, <2>2 DEF IsNode
  <2>5. QED
    BY <2>3, <2>4
<1> HIDE DEF injected
<1>2. /\ injected.op = node.op /\ injected.deps = node.deps /\ injected.out = node.out
      /\ injected.inputs = inputs /\ IsNode(injected)
      /\ node.op = "artifact.export" => injected.params = node.params
  BY <1>1 DEF IsNode
<1>3. \A key \in DOMAIN inputs \ {"upload_id"} :
        key \in DOMAIN node.inputs /\ inputs[key] = node.inputs[key]
  <2>1. CASE inputs = node.inputs
    BY <2>1
  <2>2. CASE inputs = With(node.inputs, "upload_id", "file")
    BY <2>2 DEF With
  <2>3. QED
    BY <1>1, <2>1, <2>2
<1>4. FormatsAreSeq(injected)
  BY <1>2 DEF NodeFits, FormatsAreSeq, Formats
<1>5. NodeFits(nodes, injected, s)
  BY <1>2, <1>3, <1>4 DEF NodeFits
<1>6. QED
  BY <1>2, <1>5 DEF injected

LEMMA InjectedIsWell ==
  ASSUME NEW nodes, BuiltWell(nodes), NEW paths, NEW uploads
  PROVE  BuiltWell(Inject(nodes, paths, uploads))
<1> DEFINE more == Inject(nodes, paths, uploads)
<1>1. IsSeq(nodes) /\ Len(nodes) \in Nat /\ DOMAIN nodes = 1..Len(nodes)
  BY SeqShape DEF BuiltWell
<1>2. more = [s \in 1..Len(nodes) |-> InjectNode(nodes[s], paths, uploads)]
  BY <1>1 DEF Inject, Steps
<1>3. IsSeq(more) /\ Len(more) = Len(nodes)
  <2> DEFINE S == {InjectNode(nodes[s], paths, uploads) : s \in 1..Len(nodes)}
  <2>1. more \in [1..Len(nodes) -> S]
    BY <1>2
  <2>2. QED
    BY <1>1, <2>1, ShapeSeq
<1>4. \A s \in 1..Len(nodes) : more[s] = InjectNode(nodes[s], paths, uploads)
  BY <1>2
<1> HIDE DEF more
<1>5. ASSUME NEW s \in 1..Len(nodes) PROVE NodeFits(more, more[s], s)
  <2>1. NodeFits(nodes, more[s], s)
    BY <1>4, InjectedFits DEF BuiltWell
  <2>2. ASSUME NEW q \in 1..s - 1 PROVE more[q].out = nodes[q].out /\ more[q].op = nodes[q].op
    <3>1. q \in 1..Len(nodes)
      BY <1>1
    <3>2. NodeFits(nodes, nodes[q], q) /\ NodeFits(nodes, more[q], q)
      BY <1>4, <3>1, InjectedFits DEF BuiltWell
    <3>3. more[q].op = nodes[q].op
      BY <1>4, <3>1, <3>2, InjectedFits
    <3>4. QED
      BY <3>2, <3>3 DEF NodeFits
  <2>3. QED
    BY <2>1, <2>2 DEF NodeFits
<1>6. QED
  BY <1>3, <1>5 DEF BuiltWell, more

\* A plan that is built well fits: its steps wait for earlier ones only.
LEMMA WellFits ==
  ASSUME NEW nodes, BuiltWell(nodes)
  PROVE  PlanFits(nodes) /\ ListsAreSeqs(nodes)
<1>1. IsSeq(nodes) /\ Len(nodes) \in Nat /\ DOMAIN nodes = 1..Len(nodes) /\ Steps(nodes) = 1..Len(nodes)
  BY SeqShape DEF BuiltWell, Steps
<1>2. \A s \in Steps(nodes) : NodeFits(nodes, nodes[s], s) /\ s \in DOMAIN RefOf
  BY <1>1 DEF BuiltWell
<1>3. Ranked(nodes)
  <2> DEFINE rank == [s \in Steps(nodes) |-> s]
  <2>1. rank \in [Steps(nodes) -> 0..Len(nodes)]
    BY <1>1
  <2>2. \A s \in Steps(nodes) : \A d \in ToSet(nodes[s].deps) :
          d \in Steps(nodes) /\ rank[d] < rank[s]
    <3>1. ASSUME NEW s \in Steps(nodes), NEW d \in ToSet(nodes[s].deps)
          PROVE  d \in Steps(nodes) /\ d < s
      <4>1. d \in 1..s - 1
        BY <1>2 DEF NodeFits
      <4>2. QED
        BY <1>1, <4>1
    <3>2. QED
      BY <3>1
  <2> HIDE DEF rank
  <2>3. QED
    BY <2>1, <2>2 DEF Ranked
<1>4. ASSUME NEW s \in Steps(nodes), NEW t \in Steps(nodes), nodes[s].out = nodes[t].out
      PROVE  s = t
  BY <1>2, <1>4, RefsAssumption DEF NodeFits
<1>5. ASSUME NEW s \in Steps(nodes), NEW q \in Ancestors(nodes, s),
             NEW key \in DOMAIN nodes[s].inputs \cap DOMAIN InputTypes(nodes[s].op),
             key # "upload_id", nodes[s].inputs[key] = nodes[q].out
      PROVE  Compatible(OutputType(nodes[q].op), InputTypes(nodes[s].op)[key])
  <2>1. PICK e \in 1..s - 1 :
          /\ nodes[s].inputs[key] = nodes[e].out
          /\ Compatible(OutputType(nodes[e].op), InputTypes(nodes[s].op)[key])
    BY <1>2, <1>5 DEF NodeFits
  <2>2. e \in Steps(nodes) /\ q \in Steps(nodes)
    BY <1>1 DEF Ancestors
  <2>3. e = q
    BY <1>4, <1>5, <2>1, <2>2
  <2>4. QED
    BY <2>1, <2>3
<1>6. QED
  BY <1>1, <1>2, <1>3, <1>4, <1>5 DEF PlanFits, NodeFits, ListsAreSeqs
-----------------------------------------------------------------------------
\* The invariant of a run, whatever the plan.
Idle == {"planning", "draft", "refused", "ready"}

PlanInv ==
    /\ phase \in Phases
    /\ IsSeq(plan) /\ ListsAreSeqs(plan)
    /\ source \in {"built", "injected"} => PlanFits(plan)
    /\ phase \in Idle => completed = {} /\ references = <<>> /\ progressed = FALSE

\* A step completes after all that it waits for.
StepsInv ==
    /\ completed \subseteq Steps(plan)
    /\ \A s \in completed : ToSet(plan[s].deps) \subseteq completed
    /\ phase = "running" \/ completed # {} =>
         DOMAIN made = Steps(plan) /\ DOMAIN reads = Steps(plan) /\ DOMAIN artifacts = Steps(plan)

Distinct(q) == \A i, j \in DOMAIN q : q[i] = q[j] => i = j
Sorted(q) == \A i, j \in DOMAIN q : i < j => q[i] < q[j]

\* A pass without progress has shown, for all steps it has visited, that they
\* wait for one that has not completed.
PassInv ==
    phase = "running" =>
        /\ pending \in Seq(Steps(plan)) /\ Distinct(pending)
        /\ visiting \in Seq(Steps(plan)) /\ Distinct(visiting)
        /\ ToSet(pending) = Steps(plan) \ completed
        /\ ToSet(visiting) \cap completed = {}
        /\ \A s \in Steps(plan) \ completed : artifacts[s] = <<>>
        /\ progressed \in BOOLEAN
        /\ ~ progressed =>
             /\ pending # <<>>
             /\ \A s \in Steps(plan) \ completed :
                  s \in ToSet(visiting) \/ ~ ToSet(plan[s].deps) \subseteq completed

\* A run that is done has run every step.
DoneIsWhole == phase = "done" => completed = Steps(plan)

RunInv == PlanInv /\ StepsInv /\ PassInv /\ DoneIsWhole

\* What is registered is what the steps that completed made, each under its
\* own reference.
RefsInv ==
    /\ IsSeq(references)
    /\ \A i \in DOMAIN references : \E p \in completed : references[i] = <<plan[p].out, made[p]>>
    /\ \A p \in completed : \E i \in DOMAIN references : references[i] = <<plan[p].out, made[p]>>
    /\ \A p \in completed :
         /\ made[p].ok
         /\ plan[p].op \notin {"artifact.export", "input.upload_vector"}
              => made[p].type = OutputType(plan[p].op)

FitInv ==
    PlanFits(plan) =>
        /\ phase # "stuck"
        /\ RefsInv
        /\ DeclaredWiringIsRead /\ ExportsWhatIsWired /\ WiredNodesFindSources

\* What gets as far as the pipeline fits.
AcceptedFit == phase \notin {"planning", "draft", "refused"} => PlanFits(plan)

-----------------------------------------------------------------------------
\* What the passes do with their lists.
LEMMA TailShape ==
  ASSUME NEW S, NEW q \in Seq(S), Distinct(q), q # <<>>
  PROVE  /\ Head(q) \in ToSet(q) /\ ToSet(q) \subseteq S
         /\ Tail(q) \in Seq(S) /\ Distinct(Tail(q))
         /\ ToSet(Tail(q)) = ToSet(q) \ {Head(q)}
<1>1. Len(q) \in Nat /\ Len(q) # 0 /\ DOMAIN q = 1..Len(q) /\ q \in [1..Len(q) -> S]
  OBVIOUS
<1>2. Tail(q) \in Seq(S) /\ Len(Tail(q)) = Len(q) - 1 /\ DOMAIN Tail(q) = 1..Len(q) - 1
  BY <1>1
<1>3. \A i \in 1..Len(q) - 1 : Tail(q)[i] = q[i + 1]
  BY <1>1
<1>4. Head(q) = q[1] /\ 1 \in DOMAIN q
  BY <1>1
<1> DEFINE r == Tail(q)
<1> HIDE DEF r
<1>5. Distinct(r)
  <2> SUFFICES ASSUME NEW i \in DOMAIN r, NEW j \in DOMAIN r, r[i] = r[j] PROVE i = j
    BY DEF Distinct
  <2>1. i + 1 \in DOMAIN q /\ j + 1 \in DOMAIN q /\ q[i + 1] = q[j + 1]
    BY <1>1, <1>2, <1>3 DEF r
  <2>2. i + 1 = j + 1 /\ i \in Int /\ j \in Int
    BY <1>2, <2>1 DEF Distinct, r
  <2>3. QED
    BY <2>2
<1>6. ToSet(r) = ToSet(q) \ {q[1]}
  <2>1. ASSUME NEW i \in DOMAIN r PROVE r[i] \in ToSet(q) \ {q[1]}
    <3>1. i + 1 \in DOMAIN q /\ i + 1 # 1 /\ r[i] = q[i + 1]
      BY <1>1, <1>2, <1>3 DEF r
    <3>2. QED
      BY <1>4, <3>1 DEF Distinct, ToSet
  <2>2. ASSUME NEW i \in DOMAIN q, q[i] # q[1] PROVE q[i] \in ToSet(r)
    <3>1. i - 1 \in DOMAIN r /\ r[i - 1] = q[i]
      BY <1>1, <1>2, <1>3, <2>2 DEF r
    <3>2. QED
      BY <3>1 DEF ToSet
  <2>3. QED
    BY <2>1, <2>2 DEF ToSet
<1>7. QED
  BY <1>1, <1>2, <1>4, <1>5, <1>6 DEF r, ToSet

LEMMA TailSorted ==
  ASSUME NEW S, NEW q \in Seq(S), Sorted(q), q # <<>>
  PROVE  Sorted(Tail(q)) /\ \A y \in ToSet(Tail(q)) : Head(q) < y
<1> DEFINE r == Tail(q)
<1>1. /\ Len(q) \in Nat /\ Len(q) # 0 /\ DOMAIN q = 1..Len(q) /\ Head(q) = q[1]
      /\ DOMAIN r = 1..Len(q) - 1 /\ \A i \in 1..Len(q) - 1 : r[i] = q[i + 1]
  OBVIOUS
<1> HIDE DEF r
<1>2. ASSUME NEW i \in DOMAIN r PROVE i + 1 \in DOMAIN q /\ r[i] = q[i + 1] /\ q[1] < r[i] /\ i \in Int
  BY <1>1 DEF Sorted
<1>3. Sorted(r)
  <2> SUFFICES ASSUME NEW i \in DOMAIN r, NEW j \in DOMAIN r, i < j PROVE r[i] < r[j]
    BY DEF Sorted
  <2>1. i + 1 < j + 1
    BY <1>2
  <2>2. QED
    BY <1>2, <2>1 DEF Sorted
<1>4. QED
  BY <1>1, <1>2, <1>3 DEF r, ToSet

LEMMA SuffixShape ==
  ASSUME NEW S, NEW q \in Seq(S), NEW k \in 1..Len(q)
  PROVE  LET r == SubSeq(q, k + 1, Len(q))
         IN  r \in Seq(S) /\ Len(r) = Len(q) - k /\ \A i \in 1..Len(q) - k : r[i] = q[k + i]
<1>1. PICK m \in Int, n \in Int : m = k + 1 /\ n = Len(q)
  OBVIOUS
<1>2. Len(q) \in Nat /\ \A i \in m..n : q[i] \in S
  BY <1>1
<1> DEFINE r == SubSeq(q, m, n)
<1>3. /\ r \in Seq(S)
      /\ Len(r) = IF m <= n THEN n - m + 1 ELSE 0
      /\ \A i \in 1..n - m + 1 : r[i] = q[m + i - 1]
  BY <1>2, SubSeqProperties
<1>4. r = SubSeq(q, k + 1, Len(q))
  BY <1>1
<1> HIDE DEF r
<1>5. Len(r) = Len(q) - k
  BY <1>1, <1>2, <1>3
<1>6. ASSUME NEW i \in 1..Len(q) - k PROVE r[i] = q[k + i]
  <2>1. i \in 1..n - m + 1 /\ m + i - 1 = k + i
    BY <1>1, <1>2
  <2>2. QED
    BY <1>3, <2>1
<1>7. QED
  BY <1>3, <1>4, <1>5, <1>6

LEMMA RemoveOne ==
  ASSUME NEW S, NEW q \in Seq(S), Distinct(q), NEW x \in ToSet(q)
  PROVE  /\ RemoveFirst(q, x) \in Seq(S) /\ Distinct(RemoveFirst(q, x))
         /\ ToSet(RemoveFirst(q, x)) = ToSet(q) \ {x}
         /\ Sorted(q) => Sorted(RemoveFirst(q, x))
<1>1. Len(q) \in Nat /\ DOMAIN q = 1..Len(q) /\ q \in [1..Len(q) -> S]
  OBVIOUS
<1>2. PICK k \in 1..Len(q) : q[k] = x
  BY <1>1 DEF ToSet
<1>3. {i \in 1..Len(q) : q[i] = x} = {k}
  BY <1>1, <1>2 DEF Distinct
<1>4. SelectInSeq(q, LAMBDA v : v = x) = k
  <2>1. Min({k}) = k
    BY <1>1 DEF Min
  <2>2. QED
    BY <1>3, <2>1 DEF SelectInSeq
<1> DEFINE r == SubSeq(q, 1, k - 1) \o SubSeq(q, k + 1, Len(q))
<1>5. RemoveFirst(q, x) = r
  BY <1>2, <1>4 DEF RemoveFirst, RemoveAt
<1>6. /\ r \in Seq(S) /\ Len(r) = Len(q) - 1 /\ DOMAIN r = 1..Len(q) - 1
      /\ \A i \in 1..Len(q) - 1 : r[i] = IF i < k THEN q[i] ELSE q[i + 1]
  <2> DEFINE a == SubSeq(q, 1, k - 1)
             b == SubSeq(q, k + 1, Len(q))
  <2>1. a \in Seq(S) /\ Len(a) = k - 1 /\ \A i \in 1..k - 1 : a[i] = q[i]
    BY <1>1
  <2>2. b \in Seq(S) /\ Len(b) = Len(q) - k /\ \A i \in 1..Len(q) - k : b[i] = q[k + i]
    BY SuffixShape
  <2> HIDE DEF a, b
  <2>3. /\ a \o b \in Seq(S) /\ Len(a \o b) = Len(a) + Len(b)
        /\ \A i \in 1..Len(a) + Len(b) : (a \o b)[i] = IF i <= Len(a) THEN a[i] ELSE b[i - Len(a)]
    BY <2>1, <2>2, ConcatProperties
  <2> DEFINE c == a \o b
  <2> HIDE DEF c
  <2>4. /\ c \in Seq(S) /\ Len(c) = Len(q) - 1 /\ DOMAIN c = 1..Len(q) - 1
        /\ \A i \in 1..Len(q) - 1 : c[i] = IF i <= Len(a) THEN a[i] ELSE b[i - Len(a)]
    <3>1. Len(a) + Len(b) = Len(q) - 1
      BY <1>1, <2>1, <2>2
    <3>2. /\ c \in Seq(S) /\ Len(c) = Len(a) + Len(b)
          /\ \A i \in 1..Len(a) + Len(b) : c[i] = IF i <= Len(a) THEN a[i] ELSE b[i - Len(a)]
      BY <2>3 DEF c
    <3>3. QED
      BY <3>1, <3>2
  <2>5. ASSUME NEW i \in 1..Len(q) - 1
        PROVE  c[i] = IF i < k THEN q[i] ELSE q[i + 1]
    <3>1. CASE i < k
      BY <1>1, <2>1, <2>4, <3>1
    <3>2. CASE ~ (i < k)
      <4>1. c[i] = b[i - (k - 1)]
        BY <1>1, <2>1, <2>4, <3>2
      <4>2. i - (k - 1) \in 1..Len(q) - k /\ k + (i - (k - 1)) = i + 1
        BY <1>1, <3>2
      <4>3. QED
        BY <2>2, <3>2, <4>1, <4>2
    <3>3. QED
      BY <3>1, <3>2
  <2>6. QED
    BY <2>4, <2>5 DEF a, b, c
<1> HIDE DEF r
<1>7. Distinct(r)
  <2> SUFFICES ASSUME NEW i \in DOMAIN r, NEW j \in DOMAIN r, r[i] = r[j] PROVE i = j
    BY DEF Distinct
  <2> DEFINE at(m) == IF m < k THEN m ELSE m + 1
  <2>1. at(i) \in DOMAIN q /\ at(j) \in DOMAIN q /\ q[at(i)] = q[at(j)]
    BY <1>1, <1>6
  <2>2. at(i) = at(j)
    BY <2>1 DEF Distinct
  <2>3. QED
    BY <1>1, <1>6, <2>2
<1>8. ToSet(r) = ToSet(q) \ {x}
  <2>1. ASSUME NEW i \in DOMAIN r PROVE r[i] \in ToSet(q) \ {x}
    <3>1. PICK j \in DOMAIN q : j # k /\ r[i] = q[j]
      BY <1>1, <1>6
    <3>2. QED
      BY <1>1, <1>2, <3>1 DEF Distinct, ToSet
  <2>2. ASSUME NEW j \in DOMAIN q, q[j] # x PROVE q[j] \in ToSet(r)
    <3>1. \E i \in DOMAIN r : r[i] = q[j]
      <4>1. CASE j < k
        BY <1>1, <1>6, <4>1
      <4>2. CASE j > k
        <5>1. j - 1 \in DOMAIN r /\ r[j - 1] = q[j]
          BY <1>1, <1>6, <4>2
        <5>2. QED
          BY <5>1
      <4>3. QED
        BY <1>1, <1>2, <2>2, <4>1, <4>2
    <3>2. QED
      BY <3>1 DEF ToSet
  <2>3. QED
    BY <2>1, <2>2 DEF ToSet
<1>9. ASSUME Sorted(q) PROVE Sorted(r)
  <2> SUFFICES ASSUME NEW i \in DOMAIN r, NEW j \in DOMAIN r, i < j PROVE r[i] < r[j]
    BY DEF Sorted
  <2> DEFINE at(m) == IF m < k THEN m ELSE m + 1
  <2>1. at(i) \in DOMAIN q /\ at(j) \in DOMAIN q /\ r[i] = q[at(i)] /\ r[j] = q[at(j)] /\ at(i) < at(j)
    BY <1>1, <1>6
  <2>2. QED
    BY <1>9, <2>1 DEF Sorted
<1>10. QED
  BY <1>5, <1>6, <1>7, <1>8, <1>9

-----------------------------------------------------------------------------
\* The invariant of a run holds before it starts,
LEMMA InitRun == Init => RunInv
<1> SUFFICES ASSUME Init PROVE RunInv
  OBVIOUS
<1>1. IsSeq(<<>>) /\ ListsAreSeqs(<<>>)
  BY DEF IsSeq, ListsAreSeqs, Steps
<1>2. PlanInv /\ StepsInv /\ PassInv /\ DoneIsWhole
  BY <1>1 DEF Init, PlanInv, StepsInv, PassInv, DoneIsWhole, Phases, Idle
<1>3. QED
  BY <1>2 DEF RunInv

LEMMA Prepared ==
  ASSUME IsSeq(plan'), ListsAreSeqs(plan'), source' \in {"built", "injected"} => PlanFits(plan'),
         phase' \in {"draft", "ready", "refused", "tool failed"},
         completed' = {}, references' = <<>>, progressed' = FALSE
  PROVE  RunInv'
<1>1. PlanInv'
  BY DEF PlanInv, Phases, Idle
<1>2. StepsInv' /\ PassInv' /\ DoneIsWhole'
  BY DEF StepsInv, PassInv, DoneIsWhole
<1>3. QED
  BY <1>1, <1>2 DEF RunInv

LEMMA PlanKept ==
  ASSUME RunInv, Next, phase \in Idle, phase' # "running"
  PROVE  RunInv'
<1>1. /\ IsSeq(plan) /\ ListsAreSeqs(plan)
      /\ completed = {} /\ references = <<>> /\ progressed = FALSE
  BY DEF RunInv, PlanInv
<1>2. source \in {"built", "injected"} => PlanFits(plan)
  BY DEF RunInv, PlanInv
<1>3. CASE Hand
  <2>1. IsSeq(plan') /\ ListsAreSeqs(plan')
    <3>1. \A s \in Steps(plan') : IsSeq(plan'[s].deps)
      BY <1>3, PlansAssumption DEF Hand, IsSeq, Steps
    <3>2. IsSeq(plan') /\ \A s \in Steps(plan') : "formats" \in DOMAIN plan'[s].params =>
                                                     IsSeq(plan'[s].params["formats"])
      BY <1>3, PlansAssumption DEF Hand, IsSeq, Steps
    <3>3. IsSeq(<<"geotiff">>)
      BY DEF IsSeq, ToSet
    <3>4. \A s \in Steps(plan') : IsSeq(Formats(plan'[s]))
      BY <3>2, <3>3 DEF Formats
    <3>5. QED
      BY <3>1, <3>2, <3>4 DEF ListsAreSeqs, FormatsAreSeq
  <2>2. QED
    BY <1>1, <1>3, <2>1, Prepared DEF Hand, runVars
<1>4. CASE Build
  <2>1. PICK r \in Requests :
          \/ plan' = BuildPlan(r.ops, r.paths)
          \/ plan' = Inject(BuildPlan(r.ops, r.paths), r.paths, r.uploads)
    BY <1>4 DEF Build
  <2>2. BuiltWell(plan')
    BY <2>1, PlanIsWell, InjectedIsWell
  <2>3. IsSeq(plan') /\ PlanFits(plan') /\ ListsAreSeqs(plan')
    BY <2>2, WellFits DEF BuiltWell
  <2>4. QED
    BY <1>1, <1>4, <2>3, Prepared DEF Build, runVars
<1>5. CASE Approve
  BY <1>1, <1>2, <1>5, Prepared DEF Approve, runVars
<1>6. CASE TakeUnreviewed
  BY <1>1, <1>2, <1>6, Prepared DEF TakeUnreviewed, runVars
<1>7. CASE Start
  BY <1>1, <1>2, <1>7, Prepared DEF Start, runVars
<1>8. CASE Run
  BY <1>8 DEF Run, SkipNode, RunNode, FailNode, EndPass, Ready, Idle
<1>9. QED
  BY <1>3, <1>4, <1>5, <1>6, <1>7, <1>8 DEF Next

\* when it starts,
LEMMA StartKeeps ==
  ASSUME RunInv, Start, phase' = "running"
  PROVE  RunInv'
<1>1. IsSeq(plan) /\ completed = {} /\ references = <<>> /\ progressed = FALSE
  BY DEF RunInv, PlanInv, Start, Idle
<1>2. /\ plan # <<>> /\ plan' = plan /\ source' = source /\ pending' = [s \in Steps(plan) |-> s]
      /\ visiting' = pending' /\ progressed' = FALSE /\ completed' = {} /\ references' = <<>>
      /\ made' = [s \in Steps(plan) |-> NoFile] /\ reads' = [s \in Steps(plan) |-> <<>>]
      /\ artifacts' = [s \in Steps(plan) |-> <<>>]
  BY <1>1 DEF Start
<1>3. Steps(plan) = 1..Len(plan) /\ Len(plan) \in Nat
  BY <1>1, SeqShape DEF Steps
<1>4. PlanInv'
  BY <1>1, <1>2 DEF RunInv, PlanInv, Phases, Idle
<1>5. StepsInv'
  BY <1>2 DEF StepsInv
<1>6. pending' \in Seq(Steps(plan)) /\ Distinct(pending') /\ ToSet(pending') = Steps(plan) /\ pending' # <<>>
  <2> DEFINE p == [s \in 1..Len(plan) |-> s]
  <2>1. p \in Seq(1..Len(plan)) /\ Len(p) = Len(plan)
    BY <1>3
  <2>2. Distinct(p) /\ ToSet(p) = 1..Len(plan)
    BY DEF Distinct, ToSet
  <2>3. Len(plan) # 0
    BY <1>1, <1>2 DEF IsSeq
  <2>4. p # <<>>
    BY <2>1, <2>3
  <2>5. pending' = p
    BY <1>2, <1>3
  <2> HIDE DEF p
  <2>6. QED
    BY <1>3, <2>1, <2>2, <2>4, <2>5
<1>7. PassInv'
  <2>1. /\ pending' \in Seq(Steps(plan)) /\ Distinct(pending')
        /\ visiting' \in Seq(Steps(plan)) /\ Distinct(visiting')
        /\ ToSet(pending') = Steps(plan') \ completed'
        /\ ToSet(visiting') \cap completed' = {}
    BY <1>2, <1>6
  <2>2. \A s \in Steps(plan') \ completed' : artifacts'[s] = <<>> /\ s \in ToSet(visiting')
    BY <1>2, <1>6
  <2>3. QED
    BY <1>2, <1>6, <2>1, <2>2 DEF PassInv
<1>8. DoneIsWhole'
  BY <1>2 DEF Start, DoneIsWhole
<1>9. QED
  BY <1>4, <1>5, <1>7, <1>8 DEF RunInv

\* The step at the head of a pass, while it runs.
LEMMA HeadOfPass ==
  ASSUME RunInv, phase = "running", visiting # <<>>
  PROVE  /\ Head(visiting) \in Steps(plan) \ completed /\ Head(visiting) \in ToSet(pending)
         /\ Tail(visiting) \in Seq(Steps(plan)) /\ Distinct(Tail(visiting))
         /\ ToSet(Tail(visiting)) = ToSet(visiting) \ {Head(visiting)}
<1>1. /\ visiting \in Seq(Steps(plan)) /\ Distinct(visiting)
      /\ ToSet(visiting) \cap completed = {} /\ ToSet(pending) = Steps(plan) \ completed
  BY DEF RunInv, PassInv
<1>2. /\ Head(visiting) \in ToSet(visiting) /\ ToSet(visiting) \subseteq Steps(plan)
      /\ Tail(visiting) \in Seq(Steps(plan)) /\ Distinct(Tail(visiting))
      /\ ToSet(Tail(visiting)) = ToSet(visiting) \ {Head(visiting)}
  BY <1>1, TailShape
<1>3. QED
  BY <1>1, <1>2

\* when a node waits,
LEMMA SkipKeeps ==
  ASSUME RunInv, SkipNode
  PROVE  RunInv'
<1> DEFINE s == Head(visiting)
<1>1. /\ phase = "running" /\ visiting # <<>> /\ ~ ToSet(plan[s].deps) \subseteq completed
      /\ visiting' = Tail(visiting)
      /\ UNCHANGED <<plan, source, phase, pending, progressed, completed, references, reads, made, artifacts>>
  BY DEF SkipNode
<1>2. /\ s \in Steps(plan) \ completed
      /\ Tail(visiting) \in Seq(Steps(plan)) /\ Distinct(Tail(visiting))
      /\ ToSet(Tail(visiting)) = ToSet(visiting) \ {s}
  BY <1>1, HeadOfPass
<1> HIDE DEF s
<1>3. PlanInv' /\ StepsInv' /\ DoneIsWhole'
  BY <1>1 DEF RunInv, PlanInv, StepsInv, DoneIsWhole
<1>4. PassInv'
  <2>1. /\ pending \in Seq(Steps(plan)) /\ Distinct(pending)
        /\ ToSet(pending) = Steps(plan) \ completed
        /\ ToSet(visiting) \cap completed = {}
        /\ \A t \in Steps(plan) \ completed : artifacts[t] = <<>>
        /\ progressed \in BOOLEAN
    BY <1>1 DEF RunInv, PassInv
  <2>2. ~ progressed =>
          /\ pending # <<>>
          /\ \A t \in Steps(plan) \ completed :
               t \in ToSet(visiting) \/ ~ ToSet(plan[t].deps) \subseteq completed
    BY <1>1 DEF RunInv, PassInv
  <2>3. ~ progressed =>
          \A t \in Steps(plan) \ completed :
               t \in ToSet(visiting') \/ ~ ToSet(plan[t].deps) \subseteq completed
    BY <1>1, <1>2, <2>2
  <2>4. ToSet(visiting') \cap completed = {}
    BY <1>1, <1>2, <2>1
  <2>5. QED
    BY <1>1, <1>2, <2>1, <2>2, <2>3, <2>4 DEF PassInv
<1>5. QED
  BY <1>3, <1>4 DEF RunInv

\* when a node runs,
LEMMA NodeKeeps ==
  ASSUME RunInv, RunNode
  PROVE  RunInv'
<1> DEFINE s == Head(visiting)
<1>1. /\ phase = "running" /\ visiting # <<>> /\ ToSet(plan[s].deps) \subseteq completed
      /\ visiting' = Tail(visiting) /\ pending' = RemoveFirst(pending, s)
      /\ completed' = completed \cup {s} /\ progressed' = TRUE
      /\ UNCHANGED <<plan, source, phase>>
  BY DEF RunNode, Ready
<1>2. /\ made' = [made EXCEPT ![s] = NodeMakes(s, plan[s], references)]
      /\ reads' = [reads EXCEPT ![s] = NodeReads(plan[s], references)]
      /\ \/ artifacts' = [artifacts EXCEPT ![s] = Exported(plan[s], references)]
         \/ artifacts' = artifacts
  BY DEF RunNode
<1>3. /\ s \in Steps(plan) \ completed /\ s \in ToSet(pending)
      /\ Tail(visiting) \in Seq(Steps(plan)) /\ Distinct(Tail(visiting))
      /\ ToSet(Tail(visiting)) = ToSet(visiting) \ {s}
  BY <1>1, HeadOfPass
<1> HIDE DEF s
<1>4. /\ completed \subseteq Steps(plan)
      /\ \A t \in completed : ToSet(plan[t].deps) \subseteq completed
      /\ DOMAIN made = Steps(plan) /\ DOMAIN reads = Steps(plan) /\ DOMAIN artifacts = Steps(plan)
  BY <1>1 DEF RunInv, StepsInv
<1>5. PlanInv'
  BY <1>1 DEF RunInv, PlanInv, Idle
<1>6. StepsInv'
  <2>1. DOMAIN made' = Steps(plan) /\ DOMAIN reads' = Steps(plan) /\ DOMAIN artifacts' = Steps(plan)
    BY <1>2, <1>4
  <2>2. QED
    BY <1>1, <1>3, <1>4, <2>1 DEF StepsInv
<1>7. PassInv'
  <2>1. /\ pending \in Seq(Steps(plan)) /\ Distinct(pending)
        /\ ToSet(pending) = Steps(plan) \ completed
        /\ ToSet(visiting) \cap completed = {}
        /\ \A t \in Steps(plan) \ completed : artifacts[t] = <<>>
    BY <1>1 DEF RunInv, PassInv
  <2>2. /\ pending' \in Seq(Steps(plan)) /\ Distinct(pending')
        /\ ToSet(pending') = ToSet(pending) \ {s}
    BY <1>1, <1>3, <2>1, RemoveOne
  <2>3. \A t \in Steps(plan) \ completed' : artifacts'[t] = <<>>
    BY <1>1, <1>2, <1>4, <2>1
  <2>4. ToSet(pending') = Steps(plan) \ completed' /\ ToSet(visiting') \cap completed' = {}
    BY <1>1, <1>3, <2>1, <2>2
  <2>5. QED
    BY <1>1, <1>3, <2>2, <2>3, <2>4 DEF PassInv
<1>8. DoneIsWhole'
  BY <1>1 DEF DoneIsWhole
<1>9. QED
  BY <1>5, <1>6, <1>7, <1>8 DEF RunInv

\* when it fails, and at the end of a pass.
LEMMA FailKeeps ==
  ASSUME RunInv, FailNode
  PROVE  RunInv'
<1>1. /\ phase = "running" /\ phase' \in {"source missing", "export refused", "tool failed"}
      /\ UNCHANGED <<plan, source, completed, reads, made, artifacts>>
  BY DEF FailNode, Ready, runVars
<1>2. PlanInv' /\ StepsInv' /\ PassInv' /\ DoneIsWhole'
  BY <1>1 DEF RunInv, PlanInv, StepsInv, PassInv, DoneIsWhole, Phases, Idle
<1>3. QED
  BY <1>2 DEF RunInv

LEMMA PassKeeps ==
  ASSUME RunInv, EndPass
  PROVE  RunInv'
<1>1. /\ phase = "running" /\ visiting = <<>> /\ visiting' = pending /\ progressed' = FALSE
      /\ phase' = IF ~ progressed THEN "stuck" ELSE IF pending = <<>> THEN "done" ELSE "running"
      /\ UNCHANGED <<plan, source, pending, completed, references, reads, made, artifacts>>
  BY DEF EndPass
<1>2. /\ pending \in Seq(Steps(plan)) /\ Distinct(pending)
      /\ ToSet(pending) = Steps(plan) \ completed
      /\ \A t \in Steps(plan) \ completed : artifacts[t] = <<>>
  BY <1>1 DEF RunInv, PassInv
<1>3. phase' \in {"stuck", "done", "running"} /\ (phase' = "done" => pending = <<>>)
      /\ (phase' = "running" => pending # <<>>)
  BY <1>1
<1>4. PlanInv' /\ StepsInv'
  BY <1>1, <1>3 DEF RunInv, PlanInv, StepsInv, Phases, Idle
<1>5. PassInv'
  <2> SUFFICES ASSUME phase' = "running" PROVE PassInv'
    BY DEF PassInv
  <2>1. ToSet(pending) \cap completed = {}
    BY <1>2
  <2>2. \A s \in Steps(plan) \ completed : s \in ToSet(pending)
    BY <1>2
  <2>3. QED
    BY <1>1, <1>2, <1>3, <2>1, <2>2 DEF PassInv
<1>6. DoneIsWhole'
  <2> SUFFICES ASSUME phase' = "done" PROVE completed' = Steps(plan')
    BY DEF DoneIsWhole
  <2>1. ToSet(pending) = {}
    BY <1>3 DEF ToSet
  <2>2. QED
    BY <1>1, <1>2, <2>1 DEF RunInv, StepsInv
<1>7. QED
  BY <1>4, <1>5, <1>6 DEF RunInv

LEMMA StutterKeeps ==
  ASSUME RunInv, UNCHANGED vars
  PROVE  RunInv'
BY DEF vars, runVars, RunInv, PlanInv, StepsInv, PassInv, DoneIsWhole

LEMMA RunInvKept == RunInv /\ [Next]_vars => RunInv'
<1> SUFFICES ASSUME RunInv, [Next]_vars PROVE RunInv'
  OBVIOUS
<1>1. CASE UNCHANGED vars
  BY <1>1, StutterKeeps
<1>2. CASE Next /\ phase \in Idle /\ phase' # "running"
  BY <1>2, PlanKept
<1>3. CASE Hand \/ Build \/ Approve \/ TakeUnreviewed
  BY <1>3, PlanKept DEF Hand, Build, Approve, TakeUnreviewed, Idle, Next
<1>4. CASE Start
  <2>1. phase \in Idle
    BY <1>4 DEF Start, Idle
  <2>2. QED
    BY <1>2, <1>4, <2>1, StartKeeps DEF Next
<1>5. CASE Run
  BY <1>5, SkipKeeps, NodeKeeps, FailKeeps, PassKeeps DEF Run
<1>6. QED
  BY <1>1, <1>3, <1>4, <1>5 DEF Next
-----------------------------------------------------------------------------
\* What a node reads of the file that an input of it names.
LEMMA GeometryRead ==
  ASSUME NEW refs, NEW key, NEW v, NEW file, Named(refs, v) # {}, FileOf(refs, v) = file,
         file.ok, file.type = "vector",
         key \in {"vector", "overlay", "clip_vector", "aoi", "zones"}
  PROVE  Geometries(refs, key, v) = {file}
BY DEF Geometries

LEMMA GeometriesHold ==
  ASSUME NEW node, NEW refs, NEW I, NEW P, NEW key \in I \cap DOMAIN node.inputs, NEW file,
         Geometries(refs, key, node.inputs[key]) = {file}
  PROVE  file \in AllGeometries(node, refs, I, P)
BY DEF AllGeometries

LEMMA GeometriesThere ==
  ASSUME NEW node, NEW refs, NEW I, NEW P
  PROVE  NoFile \notin AllGeometries(node, refs, I, P)
<1>1. ASSUME NEW key, NEW v PROVE NoFile \notin Geometries(refs, key, v)
  <2> DEFINE file == IF Named(refs, v) # {} THEN FileOf(refs, v) ELSE FileAt(v)
             here == [type |-> "vector", ok |-> TRUE, from |-> v]
  <2>1. Geometries(refs, key, v) \in {{here}, {file}, {}}
        /\ (Geometries(refs, key, v) = {file} => file.ok \/ file = here)
    BY DEF Geometries
  <2>2. here.type # NoFile.type
    BY DEF NoFile
  <2>3. ~ NoFile.ok
    BY DEF NoFile
  <2>4. here # NoFile
    BY <2>2
  <2> HIDE DEF file, here
  <2>5. QED
    BY <2>1, <2>3, <2>4
<1>2. QED
  BY <1>1 DEF AllGeometries

LEMMA WiredRead ==
  ASSUME NEW node, NEW refs, NEW key \in DOMAIN InputTypes(node.op) \ {"rasters", "upload_id"},
         key \in DOMAIN node.inputs, NEW file,
         Named(refs, node.inputs[key]) # {}, FileOf(refs, node.inputs[key]) = file,
         key # "primary" => file.ok /\ file.type = InputTypes(node.op)[key]
  PROVE  /\ file \in NodeReads(node, refs)[key]
         /\ key \in {"raster", "primary"} => NodeReads(node, refs)[key] = {file}
<1>1. /\ key \in {"raster", "aoi", "zones", "vector", "clip_vector", "overlay", "primary"}
      /\ node.op \in Takers[key] /\ InputTypes(node.op)[key] = TypeTaken[key]
  BY DEF InputTypes, Takers
<1>2. NodeReads(node, refs)[key] = FilesRead(node, refs, key)
  BY DEF NodeReads
<1>3. Given(node.inputs, key) = node.inputs[key]
  BY DEF Given
<1>4. CASE key = "raster"
  <2>1. Supported(file)
    BY <1>1, <1>4 DEF Supported, TypeTaken
  <2>2. RasterSource(node, refs) = file
    BY <1>3, <1>4, <2>1 DEF RasterSource
  <2>3. Template(node, refs) = {file}
    BY <1>3, <1>4, <2>1 DEF Template
  <2>4. QED
    BY <1>2, <1>4, <2>2, <2>3 DEF FilesRead
<1>5. CASE key = "primary"
  <2>1. ExportSource(node, refs) = file
    BY <1>3, <1>5 DEF ExportSource
  <2>2. QED
    BY <1>2, <1>5, <2>1 DEF FilesRead
<1>6. CASE key \in {"aoi", "zones", "vector", "clip_vector", "overlay"}
  <2>1. file.type = "vector" /\ file.ok
    BY <1>1, <1>6 DEF TypeTaken
  <2>2. Geometries(refs, key, node.inputs[key]) = {file}
    BY <1>6, <2>1, GeometryRead
  <2>3. CASE key \in {"aoi", "zones"}
    <3>1. key \in ExplicitKeys(node.op).inputs
      BY <1>1, <2>3 DEF ExplicitKeys, Takers
    <3>2. file \in AllGeometries(node, refs, ExplicitKeys(node.op).inputs, ExplicitKeys(node.op).params)
      BY <2>2, <3>1, GeometriesHold
    <3>3. file \in ExplicitGeometries(node, refs)
      BY <3>2 DEF ExplicitGeometries
    <3>4. QED
      BY <1>2, <2>3, <3>3 DEF FilesRead
  <2>4. CASE key = "vector"
    <3>1. file \in AllGeometries(node, refs, {"vector"}, {"source_path", "geometry", "bbox"})
      BY <2>2, <2>4, GeometriesHold
    <3>2. file \in MainGeometries(node, refs)
      BY <3>1 DEF MainGeometries, OrDefault
    <3>3. QED
      BY <1>2, <2>4, <3>2 DEF FilesRead
  <2>5. CASE key \in {"clip_vector", "overlay"}
    <3>1. file \in AllGeometries(node, refs, {"overlay", "clip_vector"},
             {"overlay_path", "overlay_geometry", "clip_geometry", "overlay_bbox", "clip_bbox"})
      BY <2>2, <2>5, GeometriesHold
    <3>2. file \in OverlayGeometries(node, refs)
      BY <3>1 DEF OverlayGeometries, OrDefault
    <3>3. QED
      BY <1>2, <2>5, <3>2 DEF FilesRead
  <2>6. QED
    BY <1>6, <2>3, <2>4, <2>5
<1>7. QED
  BY <1>1, <1>4, <1>5, <1>6

\* What an export of it holds.
LEMMA WiredExport ==
  ASSUME NEW node, NEW refs, NEW file, "primary" \in DOMAIN node.inputs,
         Named(refs, node.inputs["primary"]) # {}, FileOf(refs, node.inputs["primary"]) = file,
         file.ok, NEW i \in DOMAIN Formats(node),
         \/ file.type = "raster" /\ Formats(node)[i] \in Rasters
         \/ file.type = "vector" /\ ToSet(Formats(node)) \subseteq Vectors
  PROVE  DOMAIN Exported(node, refs) = DOMAIN Formats(node) /\ Exported(node, refs)[i] = file
<1> DEFINE formats == Formats(node)
           earlier == \E j \in DOMAIN formats : j < i /\ formats[j] = "geotiff"
           from == IF earlier THEN RasterToExport(refs, file) ELSE file
<1>1. ExportSource(node, refs) = file
  BY DEF ExportSource, Given
<1>2. /\ DOMAIN Exported(node, refs) = DOMAIN formats
      /\ Exported(node, refs)[i] = ExportedFile(refs, from, formats[i])
  BY <1>1 DEF Exported
<1> HIDE DEF formats
<1>3. CASE file.type = "raster" /\ formats[i] \in Rasters
  <2>1. Supported(file)
    BY <1>3 DEF Supported
  <2>2. RasterToExport(refs, file) = file
    BY <2>1 DEF RasterToExport
  <2>3. from = file
    BY <2>2
  <2> HIDE DEF from
  <2>4. QED
    BY <1>2, <1>3, <2>1, <2>2, <2>3 DEF ExportedFile, formats
<1>4. CASE file.type = "vector" /\ ToSet(formats) \subseteq Vectors
  <2>1. \A j \in DOMAIN formats : formats[j] \in Vectors
    BY <1>4 DEF ToSet
  <2>2. ~ earlier /\ formats[i] \in Vectors
    BY <2>1 DEF Vectors, formats
  <2>3. from = file
    BY <2>2
  <2> HIDE DEF from
  <2>4. VectorToExport(refs, file) = file
    BY <1>4 DEF VectorToExport
  <2>5. QED
    BY <1>2, <1>4, <2>2, <2>3, <2>4 DEF ExportedFile, Vectors, Rasters, formats
<1>5. QED
  BY <1>2, <1>3, <1>4 DEF formats

\* A node that does not raise makes a file that is there, and of its type
\* unless a vector upload finds another.
LEMMA FileMade ==
  ASSUME NEW s, NEW node, NEW refs, ~ Raises(node, refs), node.op # "artifact.export"
  PROVE  /\ NodeMakes(s, node, refs).ok
         /\ node.op # "input.upload_vector" => NodeMakes(s, node, refs).type = OutputType(node.op)
<1>1. CASE node.op \notin Uploads
  BY <1>1 DEF NodeMakes
<1>2. CASE node.op \in Uploads
  <2>1. "upload_id" \in DOMAIN InputTypes(node.op)
    BY <1>2 DEF InputTypes, Takers
  <2>2. DOMAIN NodeReads(node, refs) = DOMAIN InputTypes(node.op)
    BY DEF NodeReads
  <2>3. NoFile \notin NodeReads(node, refs)["upload_id"]
    BY <2>1, <2>2 DEF Raises, SourceMissing
  <2>4. NodeReads(node, refs)["upload_id"] = FilesRead(node, refs, "upload_id")
    BY <2>1 DEF NodeReads
  <2>5. PICK file : NodeReads(node, refs)["upload_id"] = {file}
                    /\ file \in {RasterSource(node, refs), VectorSource(node, refs)}
    BY <2>4 DEF FilesRead
  <2>6. RasterSource(node, refs) = NoFile \/ RasterSource(node, refs).ok
    BY DEF RasterSource, Supported, Default
  <2>7. VectorSource(node, refs) = NoFile \/ VectorSource(node, refs).ok
    <3>1. PICK found : VectorSource(node, refs) = IF found.ok THEN found ELSE NoFile
      BY DEF VectorSource
    <3>2. QED
      BY <3>1
  <2>8. file # NoFile
    BY <2>3, <2>5
  <2>9. NodeMakes(s, node, refs) = file
    BY <1>2, <2>5 DEF NodeMakes
  <2>10. file.ok
    BY <2>5, <2>6, <2>7, <2>8
  <2>11. node.op = "input.upload_raster" => file.type = "raster" /\ OutputType(node.op) = "raster"
    <3> SUFFICES ASSUME node.op = "input.upload_raster"
                 PROVE  file.type = "raster" /\ OutputType(node.op) = "raster"
      OBVIOUS
    <3>1. NodeReads(node, refs)["upload_id"] = {RasterSource(node, refs)}
      BY <2>4 DEF FilesRead
    <3>2. file = RasterSource(node, refs)
      BY <2>5, <3>1
    <3>3. RasterSource(node, refs) = NoFile \/ RasterSource(node, refs).type = "raster"
      BY DEF RasterSource, Supported, Default
    <3>4. file.type = "raster"
      BY <2>8, <3>2, <3>3
    <3>5. OutputType("input.upload_raster") = "raster"
      BY DEF OutputType, VectorUnary, VectorOverlay
    <3>6. QED
      BY <3>4, <3>5
  <2>12. QED
    BY <1>2, <2>9, <2>10, <2>11 DEF Uploads
<1>3. QED
  BY <1>1, <1>2
\* An export that does not raise registers a file that is there.
LEMMA ExportMade ==
  ASSUME NEW s, NEW node, NEW refs, ~ Raises(node, refs), node.op = "artifact.export",
         FormatsAreSeq(node)
  PROVE  NodeMakes(s, node, refs).ok
<1> DEFINE formats == Formats(node)
           files == Exported(node, refs)
           n == Len(formats)
<1>1. formats # <<>> /\ n \in Nat /\ DOMAIN formats = 1..n
  <2>1. formats # <<>>
    BY DEF Formats
  <2>2. QED
    BY <2>1, SeqShape DEF FormatsAreSeq
<1>2. n # 0
  BY <1>1 DEF FormatsAreSeq, IsSeq
<1>3. \A from, format : ExportedFile(refs, from, format) = NoFile \/ ExportedFile(refs, from, format).ok
  BY DEF ExportedFile, Supported, VectorToExport, Default
<1>4. DOMAIN files = 1..n /\ \A i \in 1..n : \E from : files[i] = ExportedFile(refs, from, formats[i])
  BY <1>1 DEF Exported
<1>5. NoFile \notin ToSet(files)
  BY DEF Raises, ExportRefused
<1>6. files = [i \in 1..n |-> files[i]]
  BY <1>1 DEF Exported
<1> HIDE DEF formats, files, n
<1>7. Len(files) = n
  BY <1>1, <1>6
<1>8. n \in DOMAIN files /\ files[n] # NoFile
  BY <1>1, <1>2, <1>4, <1>5 DEF ToSet
<1>9. files[n].ok
  BY <1>3, <1>4, <1>8
<1>10. NodeMakes(s, node, refs) = Last(files)
  BY DEF NodeMakes, Uploads, files
<1>11. QED
  BY <1>7, <1>9, <1>10 DEF Last
-----------------------------------------------------------------------------
\* What a step waits for has completed when it runs, and when it has run.
LEMMA AncestorsIn ==
  ASSUME NEW p, NEW s, NEW C \in SUBSET Steps(p), \A d \in C \cup {s} : ToSet(p[d].deps) \subseteq C
  PROVE  Ancestors(p, s) \subseteq C
BY DEF Ancestors, ClosedFrom

LEMMA AncestorsDone ==
  ASSUME completed \subseteq Steps(plan), \A t \in completed : ToSet(plan[t].deps) \subseteq completed,
         NEW s, ToSet(plan[s].deps) \subseteq completed
  PROVE  Ancestors(plan, s) \subseteq completed
BY AncestorsIn

\* A step left of the least rank waits for none that is left: a pass over the
\* steps that are left makes progress.
LEMMA PassProgresses ==
  ASSUME RunInv, EndPass, Ranked(plan)
  PROVE  phase' # "stuck"
<1> SUFFICES ASSUME ~ progressed PROVE FALSE
  BY DEF EndPass
<1>1. /\ phase = "running" /\ visiting = <<>>
      /\ ToSet(pending) = Steps(plan) \ completed /\ pending \in Seq(Steps(plan)) /\ pending # <<>>
      /\ \A s \in Steps(plan) \ completed :
           s \in ToSet(visiting) \/ ~ ToSet(plan[s].deps) \subseteq completed
  BY DEF EndPass, RunInv, PassInv
<1>2. PICK rank \in [Steps(plan) -> 0..Len(plan)] :
        \A s \in Steps(plan) : \A d \in ToSet(plan[s].deps) : d \in Steps(plan) /\ rank[d] < rank[s]
  BY DEF Ranked
<1>3. IsSeq(plan) /\ Len(plan) \in Nat
  BY SeqShape DEF RunInv, PlanInv
<1> DEFINE T == {rank[s] : s \in Steps(plan) \ completed}
<1>4. T \subseteq Nat /\ T # {}
  <2>1. ToSet(pending) # {}
    BY <1>1 DEF ToSet
  <2>2. QED
    BY <1>1, <1>2, <1>3, <2>1
<1>5. PICK x \in T : \A y \in T : x <= y
  BY <1>4, Least
<1>6. PICK s \in Steps(plan) \ completed : x = rank[s]
  BY <1>5
<1>7. s \notin ToSet(visiting)
  BY <1>1 DEF ToSet
<1>8. PICK d \in ToSet(plan[s].deps) : d \notin completed
  BY <1>1, <1>6, <1>7
<1>9. d \in Steps(plan) \ completed /\ rank[d] < rank[s]
  BY <1>2, <1>6, <1>8
<1>10. rank[d] \in T
  BY <1>9
<1>11. rank[s] <= rank[d] /\ rank[s] \in Nat /\ rank[d] \in Nat
  BY <1>4, <1>5, <1>6, <1>10
<1>12. QED
  BY <1>9, <1>11

\* What a reference of the plan names among what is registered.
LEMMA NamedIs ==
  ASSUME RefsInv, completed \subseteq Steps(plan),
         \A s, t \in Steps(plan) : plan[s].out = plan[t].out => s = t, NEW p \in completed
  PROVE  Named(references, plan[p].out) # {} /\ FileOf(references, plan[p].out) = made[p]
<1> DEFINE N == Named(references, plan[p].out)
<1>1. PICK j \in DOMAIN references : references[j] = <<plan[p].out, made[p]>>
  BY DEF RefsInv
<1>2. j \in N
  BY <1>1 DEF Named
<1>3. ASSUME NEW i \in N PROVE references[i][2] = made[p]
  <2>1. PICK q \in completed : references[i] = <<plan[q].out, made[q]>>
    BY DEF RefsInv, Named
  <2>2. references[i][1] = plan[p].out
    BY DEF Named
  <2>3. plan[q].out = plan[p].out
    BY <2>1, <2>2
  <2>4. q = p
    BY <2>3
  <2>5. QED
    BY <2>1, <2>4
<1>4. PICK i : i = CHOOSE k \in N : TRUE
  OBVIOUS
<1>5. FileOf(references, plan[p].out) = references[i][2]
  BY <1>4 DEF FileOf
<1>6. i \in N
  BY <1>2, <1>4
<1> HIDE DEF N
<1>7. QED
  BY <1>2, <1>3, <1>5, <1>6 DEF N

LEMMA NotNamed ==
  ASSUME RefsInv, completed \subseteq Steps(plan),
         \A s, t \in Steps(plan) : plan[s].out = plan[t].out => s = t,
         NEW s \in Steps(plan) \ completed
  PROVE  Named(references, plan[s].out) = {}
<1> SUFFICES ASSUME NEW i \in Named(references, plan[s].out) PROVE FALSE
  OBVIOUS
<1>1. i \in DOMAIN references /\ references[i][1] = plan[s].out
  BY DEF Named
<1>2. PICK p \in completed : references[i] = <<plan[p].out, made[p]>>
  BY <1>1 DEF RefsInv
<1>3. plan[p].out = plan[s].out
  BY <1>1, <1>2
<1>4. QED
  BY <1>3

\* A step that runs registers what it made under its reference.
LEMMA RefsKept ==
  ASSUME RunInv, RefsInv, PlanFits(plan), RunNode
  PROVE  RefsInv'
<1> DEFINE s == Head(visiting)
           file == NodeMakes(s, plan[s], references)
<1>1. /\ phase = "running" /\ visiting # <<>> /\ ~ Raises(plan[s], references)
      /\ plan' = plan /\ completed' = completed \cup {s}
      /\ made' = [made EXCEPT ![s] = file]
      /\ references' = Register(references, plan[s].out, file)
  BY DEF RunNode, Ready
<1>2. s \in Steps(plan) \ completed
  BY <1>1, HeadOfPass
<1>3. /\ file.ok
      /\ plan[s].op \notin {"artifact.export", "input.upload_vector"}
           => file.type = OutputType(plan[s].op)
  <2>1. FormatsAreSeq(plan[s])
    BY <1>2 DEF RunInv, PlanInv, ListsAreSeqs
  <2>2. CASE plan[s].op = "artifact.export"
    BY <1>1, <2>1, <2>2, ExportMade
  <2>3. CASE plan[s].op # "artifact.export"
    BY <1>1, <2>3, FileMade
  <2>4. QED
    BY <2>2, <2>3
<1> HIDE DEF s, file
<1>4. completed \subseteq Steps(plan) /\ DOMAIN made = Steps(plan)
  BY <1>1 DEF RunInv, StepsInv
<1>5. references' = Append(references, <<plan[s].out, file>>)
  <2>1. Named(references, plan[s].out) = {}
    BY <1>2, <1>4, NotNamed DEF PlanFits
  <2>2. QED
    BY <1>1, <2>1 DEF Register
<1>6. /\ IsSeq(references') /\ Len(references) \in Nat /\ DOMAIN references = 1..Len(references)
      /\ DOMAIN references' = 1..Len(references) + 1
      /\ \A i \in 1..Len(references) : references'[i] = references[i]
      /\ references'[Len(references) + 1] = <<plan[s].out, file>>
  BY <1>5, AppendShape, SeqShape DEF RefsInv
<1>7. made'[s] = file /\ \A p \in completed : made'[p] = made[p]
  BY <1>1, <1>2, <1>4
<1>8. ASSUME NEW i \in DOMAIN references'
      PROVE  \E p \in completed' : references'[i] = <<plan[p].out, made'[p]>>
  <2>1. CASE i \in 1..Len(references)
    <3>1. PICK p \in completed : references[i] = <<plan[p].out, made[p]>>
      BY <1>6, <2>1 DEF RefsInv
    <3>2. QED
      BY <1>1, <1>6, <1>7, <2>1, <3>1
  <2>2. CASE i = Len(references) + 1
    BY <1>1, <1>6, <1>7, <2>2
  <2>3. QED
    BY <1>6, <2>1, <2>2
<1>9. ASSUME NEW p \in completed'
      PROVE  \E i \in DOMAIN references' : references'[i] = <<plan[p].out, made'[p]>>
  <2>1. CASE p \in completed
    <3>1. PICK i \in DOMAIN references : references[i] = <<plan[p].out, made[p]>>
      BY <2>1 DEF RefsInv
    <3>2. QED
      BY <1>6, <1>7, <2>1, <3>1
  <2>2. CASE p = s
    BY <1>6, <1>7, <2>2
  <2>3. QED
    BY <1>1, <2>1, <2>2
<1>10. ASSUME NEW p \in completed'
       PROVE  /\ made'[p].ok
              /\ plan[p].op \notin {"artifact.export", "input.upload_vector"}
                   => made'[p].type = OutputType(plan[p].op)
  <2>1. CASE p \in completed
    BY <1>7, <2>1 DEF RefsInv
  <2>2. CASE p = s
    BY <1>3, <1>7, <2>2
  <2>3. QED
    BY <1>1, <2>1, <2>2
<1>11. QED
  BY <1>1, <1>6, <1>8, <1>9, <1>10 DEF RefsInv

\* The type of an input is that of what it is wired to.
LEMMA TypesWired ==
  ASSUME NEW op, NEW of, NEW key \in DOMAIN InputTypes(op) \ {"rasters", "upload_id", "primary"},
         Compatible(OutputType(of), InputTypes(op)[key])
  PROVE  OutputType(of) = InputTypes(op)[key] /\ of # "artifact.export"
<1>1. InputTypes(op)[key] = TypeTaken[key]
      /\ key \in {"raster", "aoi", "zones", "vector", "clip_vector", "overlay"}
  BY DEF InputTypes, Takers
<1>2. TypeTaken[key] \in {"raster", "vector"}
  BY <1>1 DEF TypeTaken
<1>3. OutputType(of) = InputTypes(op)[key]
  BY <1>1, <1>2 DEF Compatible, BaseType
<1>4. OutputType("artifact.export") = "artifact"
  BY DEF OutputType
<1>5. QED
  BY <1>1, <1>2, <1>3, <1>4

\* The step that runs: what it is, and what it leaves alone.
LEMMA StepThatRuns ==
  ASSUME RunInv, RunNode, NEW t \in completed'
  PROVE  LET s == Head(visiting)
         IN  /\ s \in Steps(plan) \ completed /\ plan' = plan /\ completed' = completed \cup {s}
             /\ completed \subseteq Steps(plan) /\ t \in completed \cup {s}
             /\ Ancestors(plan, t) \subseteq completed
             /\ \A p \in completed : made'[p] = made[p] /\ reads'[p] = reads[p] /\ artifacts'[p] = artifacts[p]
             /\ reads'[s] = NodeReads(plan[s], references)
             /\ artifacts'[s] = IF plan[s].op = "artifact.export"
                                THEN Exported(plan[s], references) ELSE <<>>
<1> DEFINE s == Head(visiting)
           file == NodeMakes(s, plan[s], references)
<1>1. /\ phase = "running" /\ visiting # <<>> /\ ToSet(plan[s].deps) \subseteq completed
      /\ plan' = plan /\ completed' = completed \cup {s}
      /\ made' = [made EXCEPT ![s] = file]
      /\ reads' = [reads EXCEPT ![s] = NodeReads(plan[s], references)]
      /\ artifacts' = IF plan[s].op = "artifact.export"
                      THEN [artifacts EXCEPT ![s] = Exported(plan[s], references)]
                      ELSE artifacts
  BY DEF RunNode, Ready
<1>2. s \in Steps(plan) \ completed
  BY <1>1, HeadOfPass
<1>3. /\ completed \subseteq Steps(plan)
      /\ \A d \in completed : ToSet(plan[d].deps) \subseteq completed
      /\ DOMAIN made = Steps(plan) /\ DOMAIN reads = Steps(plan) /\ DOMAIN artifacts = Steps(plan)
      /\ artifacts[s] = <<>>
  BY <1>1, <1>2 DEF RunInv, StepsInv, PassInv
<1> HIDE DEF s, file
<1>4. t \in completed \cup {s} /\ ToSet(plan[t].deps) \subseteq completed
  BY <1>1, <1>3
<1>5. Ancestors(plan, t) \subseteq completed
  BY <1>3, <1>4, AncestorsDone
<1>6. \A p \in completed : made'[p] = made[p] /\ reads'[p] = reads[p] /\ artifacts'[p] = artifacts[p]
  BY <1>1, <1>2, <1>3
<1>7. /\ reads'[s] = NodeReads(plan[s], references)
      /\ artifacts'[s] = IF plan[s].op = "artifact.export"
                         THEN Exported(plan[s], references) ELSE <<>>
  BY <1>1, <1>2, <1>3
<1>8. QED
  BY <1>1, <1>2, <1>3, <1>4, <1>5, <1>6, <1>7 DEF s

\* A node that runs, and that names the output of a step that has completed,
\* reads it; or that step is an upload the pipeline does not open.
LEMMA NamedFileIsRead ==
  ASSUME RefsInv, PlanFits(plan), completed \subseteq Steps(plan),
         NEW s \in Steps(plan), NEW key \in DOMAIN InputTypes(plan[s].op) \ {"rasters", "upload_id"},
         NEW p \in completed, p \in Ancestors(plan, s),
         key \in DOMAIN plan[s].inputs, plan[s].inputs[key] = plan[p].out
  PROVE  /\ made[p].ok
         /\ made[p] \in NodeReads(plan[s], references)[key] \/ Unopened(p)
         /\ key \in {"raster", "primary"} => NodeReads(plan[s], references)[key] = {made[p]}
<1>1. made[p].ok
  BY DEF RefsInv
<1>2. Named(references, plan[p].out) # {} /\ FileOf(references, plan[p].out) = made[p]
  BY NamedIs DEF PlanFits
<1>3. Compatible(OutputType(plan[p].op), InputTypes(plan[s].op)[key])
  BY DEF PlanFits
<1>4. CASE key = "primary" \/ ~ Unopened(p)
  <2>1. key # "primary" => made[p].ok /\ made[p].type = InputTypes(plan[s].op)[key]
    <3> SUFFICES ASSUME key # "primary" PROVE made[p].type = InputTypes(plan[s].op)[key]
      BY <1>1
    <3>1. OutputType(plan[p].op) = InputTypes(plan[s].op)[key] /\ plan[p].op # "artifact.export"
      BY <1>3, TypesWired
    <3>2. CASE plan[p].op = "input.upload_vector"
      <4>1. OutputType("input.upload_vector") = "vector"
        BY DEF OutputType, VectorUnary, VectorOverlay
      <4>2. QED
        BY <1>4, <3>1, <3>2, <4>1 DEF Unopened
    <3>3. CASE plan[p].op # "input.upload_vector"
      BY <3>1, <3>3 DEF RefsInv
    <3>4. QED
      BY <3>2, <3>3
  <2>2. PICK node, file : node = plan[s] /\ file = made[p]
    OBVIOUS
  <2>3. /\ key \in DOMAIN InputTypes(node.op) \ {"rasters", "upload_id"}
        /\ key \in DOMAIN node.inputs
        /\ Named(references, node.inputs[key]) # {}
        /\ FileOf(references, node.inputs[key]) = file
        /\ key # "primary" => file.ok /\ file.type = InputTypes(node.op)[key]
    BY <1>2, <2>1, <2>2
  <2>4. /\ file \in NodeReads(node, references)[key]
        /\ key \in {"raster", "primary"} => NodeReads(node, references)[key] = {file}
    BY <2>3, WiredRead
  <2>5. QED
    BY <1>1, <2>2, <2>4
<1>5. CASE key # "primary" /\ Unopened(p)
  <2>1. OutputType(plan[p].op) = InputTypes(plan[s].op)[key]
    BY <1>3, <1>5, TypesWired
  <2>2. OutputType(plan[p].op) = "vector"
    BY <1>5 DEF Unopened, OutputType, VectorUnary, VectorOverlay
  <2>3. InputTypes(plan[s].op)[key] = TypeTaken[key]
    BY DEF InputTypes
  <2>4. TypeTaken["raster"] = "raster"
    BY DEF TypeTaken
  <2>5. key # "raster"
    BY <2>1, <2>2, <2>3, <2>4
  <2>6. QED
    BY <1>1, <1>5, <2>5
<1>6. QED
  BY <1>4, <1>5

LEMMA WiringKept ==
  ASSUME RunInv, RefsInv, PlanFits(plan), DeclaredWiringIsRead, RunNode
  PROVE  DeclaredWiringIsRead'
<1> SUFFICES ASSUME NEW t \in completed', NEW key \in DOMAIN reads'[t] \ {"rasters", "upload_id"},
                    NEW p \in WiredTo(t, key)'
             PROVE  /\ made'[p] \in reads'[t][key] \/ Unopened(p)'
                    /\ key \in {"raster", "primary"} => reads'[t][key] = {made'[p]}
  BY DEF DeclaredWiringIsRead
<1> DEFINE s == Head(visiting)
<1>1. /\ s \in Steps(plan) \ completed /\ plan' = plan
      /\ completed \subseteq Steps(plan) /\ t \in completed \cup {s}
      /\ Ancestors(plan, t) \subseteq completed
      /\ \A q \in completed : made'[q] = made[q] /\ reads'[q] = reads[q]
      /\ reads'[s] = NodeReads(plan[s], references)
  BY StepThatRuns
<1> HIDE DEF s
<1>2. /\ p \in Ancestors(plan, t) /\ key \in DOMAIN plan[t].inputs
      /\ plan[t].inputs[key] = plan[p].out
  BY <1>1 DEF WiredTo
<1>3. p \in completed /\ made'[p] = made[p] /\ (Unopened(p) => Unopened(p)')
  BY <1>1, <1>2 DEF Unopened
<1>4. CASE t \in completed
  <2>1. p \in WiredTo(t, key) /\ key \in DOMAIN reads[t] \ {"rasters", "upload_id"}
    BY <1>1, <1>2, <1>4 DEF WiredTo
  <2>2. /\ made[p] \in reads[t][key] \/ Unopened(p)
        /\ key \in {"raster", "primary"} => reads[t][key] = {made[p]}
    BY <1>4, <2>1 DEF DeclaredWiringIsRead
  <2>3. QED
    BY <1>1, <1>3, <1>4, <2>2
<1>5. CASE t = s
  <2>1. key \in DOMAIN InputTypes(plan[s].op) \ {"rasters", "upload_id"}
    <3>1. DOMAIN reads'[t] = DOMAIN InputTypes(plan[s].op)
      BY <1>1, <1>5 DEF NodeReads
    <3>2. QED
      BY <3>1
  <2>2. /\ made[p] \in NodeReads(plan[s], references)[key] \/ Unopened(p)
        /\ key \in {"raster", "primary"} => NodeReads(plan[s], references)[key] = {made[p]}
    BY <1>1, <1>2, <1>3, <1>5, <2>1, NamedFileIsRead
  <2>3. QED
    BY <1>1, <1>3, <1>5, <2>2
<1>6. QED
  BY <1>1, <1>4, <1>5

\* A source that a node must have and does not find is not one it names by
\* the output of a step that it waits for.
LEMMA SourcesFound ==
  ASSUME RefsInv, PlanFits(plan), completed \subseteq Steps(plan),
         NEW s \in Steps(plan), NEW key \in DOMAIN InputTypes(plan[s].op) \ {"rasters", "upload_id"},
         NEW p \in completed, p \in WiredTo(s, key), ~ Unopened(p)
  PROVE  NoFile \notin NodeReads(plan[s], references)[key]
<1> DEFINE node == plan[s]
           keys == ExplicitKeys(node.op)
           found == AllGeometries(node, references, keys.inputs, keys.params)
<1>1. p \in Ancestors(plan, s) /\ key \in DOMAIN plan[s].inputs /\ plan[s].inputs[key] = plan[p].out
  BY DEF WiredTo
<1>2. /\ made[p].ok /\ made[p] \in NodeReads(plan[s], references)[key]
      /\ key \in {"raster", "primary"} => NodeReads(plan[s], references)[key] = {made[p]}
  BY <1>1, NamedFileIsRead
<1>3. made[p] # NoFile
  BY <1>2 DEF NoFile
<1>4. NodeReads(node, references)[key] = FilesRead(node, references, key)
  BY DEF NodeReads
<1>5. \A files : NoFile \notin files => NoFile \notin OrDefault(files)
  BY DEF OrDefault, Default, NoFile
<1>6. CASE key \in {"raster", "primary"}
  BY <1>2, <1>3, <1>6
<1>7. CASE key \in {"aoi", "zones"}
  <2>1. FilesRead(node, references, key) = ExplicitGeometries(node, references)
    BY <1>7 DEF FilesRead
  <2>2. ExplicitGeometries(node, references) \in {{NoFile}, found}
    BY DEF ExplicitGeometries
  <2>3. NoFile \notin found
    BY GeometriesThere
  <2> HIDE DEF found
  <2>4. ExplicitGeometries(node, references) # {NoFile}
    BY <1>2, <1>3, <1>4, <2>1
  <2>5. QED
    BY <1>4, <2>1, <2>2, <2>3, <2>4
<1>8. CASE key = "vector"
  <2>1. FilesRead(node, references, key) = MainGeometries(node, references)
    BY <1>8 DEF FilesRead
  <2>2. QED
    BY <1>4, <1>5, <2>1, GeometriesThere DEF MainGeometries
<1>9. CASE key \notin {"raster", "primary", "aoi", "zones", "vector"}
  <2>1. FilesRead(node, references, key) = OverlayGeometries(node, references)
    BY <1>9 DEF FilesRead
  <2>2. QED
    BY <1>4, <1>5, <2>1, GeometriesThere DEF OverlayGeometries
<1>10. QED
  BY <1>6, <1>7, <1>8, <1>9

LEMMA FailFinds ==
  ASSUME RunInv, RefsInv, PlanFits(plan), FailNode
  PROVE  WiredNodesFindSources'
<1> DEFINE s == Head(visiting)
<1>1. /\ phase = "running" /\ visiting # <<>> /\ ToSet(plan[s].deps) \subseteq completed
      /\ UNCHANGED <<plan, visiting, made>>
      /\ phase' = "source missing" => SourceMissing(plan[s], references)
  BY DEF FailNode, Ready, runVars
<1>2. s \in Steps(plan) /\ completed \subseteq Steps(plan) /\ Ancestors(plan, s) \subseteq completed
  <2>1. s \in Steps(plan) /\ completed \subseteq Steps(plan)
        /\ \A d \in completed : ToSet(plan[d].deps) \subseteq completed
    BY <1>1, HeadOfPass DEF RunInv, StepsInv
  <2>2. QED
    BY <1>1, <2>1, AncestorsDone
<1>3. \A key, p : (p \in WiredTo(s, key))' = (p \in WiredTo(s, key)) /\ Unopened(p)' = Unopened(p)
  BY <1>1 DEF WiredTo, Unopened
<1> HIDE DEF s
<1>4. ASSUME SourceMissing(plan[s], references), plan[s].op \notin Uploads \cup {"raster.mosaic"}
      PROVE  \E key \in DOMAIN InputTypes(plan[s].op) : \A p \in WiredTo(s, key) : Unopened(p)
  <2>1. PICK key \in DOMAIN InputTypes(plan[s].op) : NoFile \in NodeReads(plan[s], references)[key]
    BY <1>4 DEF SourceMissing, NodeReads
  <2>2. key \notin {"rasters", "upload_id"}
    BY <1>4, <2>1 DEF InputTypes, Takers
  <2>3. ASSUME NEW p \in WiredTo(s, key) PROVE Unopened(p)
    <3>1. p \in completed
      BY <1>2 DEF WiredTo
    <3>2. QED
      BY <1>2, <2>1, <2>2, <3>1, SourcesFound
  <2>4. QED
    BY <2>1, <2>3
<1>5. QED
  BY <1>1, <1>3, <1>4 DEF WiredNodesFindSources, s

LEMMA ExportsKept ==
  ASSUME RunInv, RefsInv, PlanFits(plan), ExportsWhatIsWired, RunNode
  PROVE  ExportsWhatIsWired'
<1> SUFFICES ASSUME NEW t \in completed', NEW p \in WiredTo(t, "primary")', NEW i \in DOMAIN artifacts'[t],
                    \/ made'[p].type = "raster" /\ Formats(plan'[t])[i] \in Rasters
                    \/ made'[p].type = "vector" /\ ToSet(Formats(plan'[t])) \subseteq Vectors
             PROVE  artifacts'[t][i].from = made'[p].from
  BY DEF ExportsWhatIsWired
<1> DEFINE s == Head(visiting)
<1>1. /\ s \in Steps(plan) \ completed /\ plan' = plan
      /\ completed \subseteq Steps(plan) /\ t \in completed \cup {s}
      /\ Ancestors(plan, t) \subseteq completed
      /\ \A q \in completed : made'[q] = made[q] /\ artifacts'[q] = artifacts[q]
      /\ artifacts'[s] = IF plan[s].op = "artifact.export"
                         THEN Exported(plan[s], references) ELSE <<>>
  BY StepThatRuns
<1> HIDE DEF s
<1>2. /\ p \in Ancestors(plan, t) /\ "primary" \in DOMAIN plan[t].inputs
      /\ plan[t].inputs["primary"] = plan[p].out
  BY <1>1 DEF WiredTo
<1>3. p \in completed /\ made'[p] = made[p]
  BY <1>1, <1>2
<1>4. CASE t \in completed
  <2>1. p \in WiredTo(t, "primary")
    BY <1>1, <1>2, <1>3, <1>4 DEF WiredTo
  <2>2. artifacts'[t] = artifacts[t]
    BY <1>1, <1>4
  <2>3. QED
    BY <1>1, <1>3, <1>4, <2>1, <2>2 DEF ExportsWhatIsWired
<1>5. CASE t = s
  <2>1. plan[s].op = "artifact.export" /\ artifacts'[t] = Exported(plan[s], references)
    BY <1>1, <1>5
  <2>2. Named(references, plan[p].out) # {} /\ FileOf(references, plan[p].out) = made[p]
    BY <1>1, <1>3, NamedIs DEF PlanFits
  <2>3. made[p].ok
    BY <1>3 DEF RefsInv
  <2>4. i \in DOMAIN Formats(plan[s])
    BY <2>1 DEF Exported
  <2>5. Exported(plan[s], references)[i] = made[p]
    BY <1>1, <1>2, <1>3, <1>5, <2>2, <2>3, <2>4, WiredExport
  <2>6. QED
    BY <1>3, <2>1, <2>5
<1>6. QED
  BY <1>1, <1>4, <1>5

\* Before anything is registered.
LEMMA RefsFresh ==
  ASSUME completed' = {}, references' = <<>>
  PROVE  RefsInv'
<1>1. IsSeq(<<>>)
  BY DEF IsSeq
<1>2. QED
  BY <1>1 DEF RefsInv

\* A plan that fits is run to its end, and its nodes read what they name.
LEMMA FitFresh ==
  ASSUME completed' = {}, references' = <<>>, phase' # "stuck", phase' # "source missing"
  PROVE  FitInv'
<1>1. RefsInv'
  BY RefsFresh
<1>2. DeclaredWiringIsRead' /\ ExportsWhatIsWired' /\ WiredNodesFindSources'
  BY DEF DeclaredWiringIsRead, ExportsWhatIsWired, WiredNodesFindSources
<1>3. QED
  BY <1>1, <1>2 DEF FitInv

LEMMA FitStill ==
  ASSUME FitInv, UNCHANGED <<plan, completed, references, made, reads, artifacts>>,
         PlanFits(plan) => phase' # "stuck" /\ WiredNodesFindSources'
  PROVE  FitInv'
<1> SUFFICES ASSUME PlanFits(plan)
             PROVE  /\ phase' # "stuck" /\ RefsInv'
                    /\ DeclaredWiringIsRead' /\ ExportsWhatIsWired' /\ WiredNodesFindSources'
  BY DEF FitInv
<1>1. RefsInv /\ DeclaredWiringIsRead /\ ExportsWhatIsWired
  BY DEF FitInv
<1>2. RefsInv'
  BY <1>1 DEF RefsInv
<1>3. DeclaredWiringIsRead'
  BY <1>1 DEF DeclaredWiringIsRead, WiredTo, Unopened
<1>4. ExportsWhatIsWired'
  BY <1>1 DEF ExportsWhatIsWired, WiredTo
<1>5. QED
  BY <1>2, <1>3, <1>4

LEMMA FitInvKept == RunInv /\ FitInv /\ [Next]_vars => FitInv'
<1> SUFFICES ASSUME RunInv, FitInv, [Next]_vars PROVE FitInv'
  OBVIOUS
<1>1. CASE UNCHANGED vars
  <2>1. UNCHANGED <<phase, visiting, plan, completed, references, made, reads, artifacts>>
    BY <1>1 DEF vars, runVars
  <2>2. PlanFits(plan) => phase' # "stuck" /\ WiredNodesFindSources'
    <3> SUFFICES ASSUME PlanFits(plan) PROVE phase' # "stuck" /\ WiredNodesFindSources'
      OBVIOUS
    <3>1. phase # "stuck" /\ WiredNodesFindSources
      BY DEF FitInv
    <3>2. \A s, key, p : (p \in WiredTo(s, key))' = (p \in WiredTo(s, key)) /\ Unopened(p)' = Unopened(p)
      BY <2>1 DEF WiredTo, Unopened
    <3>3. QED
      BY <2>1, <3>1, <3>2 DEF WiredNodesFindSources
  <2>3. QED
    BY <2>1, <2>2, FitStill
<1>2. CASE Hand \/ Build \/ Approve \/ TakeUnreviewed \/ Start
  <2>1. phase \in Idle /\ phase' \notin {"stuck", "source missing"}
        /\ UNCHANGED <<completed, references>>
    BY <1>2 DEF Hand, Build, Approve, TakeUnreviewed, Start, runVars, Idle
  <2>2. completed' = {} /\ references' = <<>>
    BY <2>1 DEF RunInv, PlanInv
  <2>3. QED
    BY <2>1, <2>2, FitFresh
<1>3. CASE SkipNode \/ FailNode
  <2>1. phase' # "stuck" /\ UNCHANGED <<plan, completed, references, made, reads, artifacts>>
    BY <1>3 DEF SkipNode, FailNode, Ready, runVars
  <2>2. PlanFits(plan) => WiredNodesFindSources'
    <3>1. CASE SkipNode
      BY <3>1 DEF SkipNode, WiredNodesFindSources
    <3>2. CASE FailNode
      BY <3>2, FailFinds DEF FitInv
    <3>3. QED
      BY <1>3, <3>1, <3>2
  <2>3. QED
    BY <2>1, <2>2, FitStill
<1>4. CASE EndPass
  <2>1. UNCHANGED <<plan, completed, references, made, reads, artifacts>>
    BY <1>4 DEF EndPass
  <2>2. PlanFits(plan) => phase' # "stuck" /\ WiredNodesFindSources'
    <3>1. phase' # "source missing"
      BY <1>4 DEF EndPass
    <3>2. WiredNodesFindSources'
      BY <3>1 DEF WiredNodesFindSources
    <3>3. QED
      BY <1>4, <3>2, PassProgresses DEF PlanFits
  <2>3. QED
    BY <2>1, <2>2, FitStill
<1>5. CASE RunNode
  <2>1. plan' = plan /\ phase' = phase /\ phase = "running"
    BY <1>5 DEF RunNode, Ready
  <2>4. WiredNodesFindSources'
    BY <2>1 DEF WiredNodesFindSources
  <2> SUFFICES ASSUME PlanFits(plan)
               PROVE  phase' # "stuck" /\ RefsInv' /\ DeclaredWiringIsRead' /\ ExportsWhatIsWired'
    BY <2>1, <2>4 DEF FitInv
  <2>2. phase # "stuck" /\ RefsInv /\ DeclaredWiringIsRead /\ ExportsWhatIsWired
    BY DEF FitInv
  <2>3. QED
    BY <1>5, <2>1, <2>2, RefsKept, WiringKept, ExportsKept
<1>6. QED
  BY <1>1, <1>2, <1>3, <1>4, <1>5 DEF Next, Run

LEMMA InitFit == Init => FitInv
<1> SUFFICES ASSUME Init PROVE FitInv
  OBVIOUS
<1>1. IsSeq(<<>>)
  BY DEF IsSeq
<1>2. QED
  BY <1>1 DEF Init, FitInv, RefsInv, DeclaredWiringIsRead, ExportsWhatIsWired, WiredNodesFindSources
-----------------------------------------------------------------------------
\* The guard's walk and sort.  The dependencies of every step are a list of
\* steps.
Listed(p) ==
    /\ IsSeq(p)
    /\ \A s \in Steps(p) : IsSeq(p[s].deps) /\ ToSet(p[s].deps) \subseteq Steps(p)

LEMMA StepsFinite ==
  ASSUME NEW p, IsSeq(p)
  PROVE  /\ Len(p) \in Nat /\ Steps(p) = 1..Len(p)
         /\ IsFiniteSet(Steps(p)) /\ Cardinality(Steps(p)) = Len(p)
         /\ \A S \in SUBSET Steps(p) : IsFiniteSet(S) /\ Cardinality(S) \in 0..Len(p)
<1>1. Len(p) \in Nat /\ Steps(p) = 1..Len(p)
  BY SeqShape DEF Steps
<1>2. IsFiniteSet(1..Len(p)) /\ Cardinality(1..Len(p)) = IF 1 > Len(p) THEN 0 ELSE Len(p) - 1 + 1
  BY <1>1, FS_Interval
<1>3. IsFiniteSet(Steps(p)) /\ Cardinality(Steps(p)) = Len(p)
  BY <1>1, <1>2
<1>4. \A S \in SUBSET Steps(p) :
        IsFiniteSet(S) /\ Cardinality(S) <= Len(p) /\ Cardinality(S) \in Nat
  BY <1>3, FS_Subset, FS_CardinalityType
<1>5. QED
  BY <1>1, <1>3, <1>4

LEMMA DepsAreAncestors ==
  ASSUME NEW p, Listed(p), NEW s \in Steps(p), NEW d \in ToSet(p[s].deps)
  PROVE  d \in Ancestors(p, s)
BY DEF Listed, Ancestors, ClosedFrom

LEMMA AncestorsOf ==
  ASSUME NEW p, NEW s, NEW q \in Ancestors(p, s)
  PROVE  Ancestors(p, q) \subseteq Ancestors(p, s)
<1>1. ASSUME NEW c \in ClosedFrom(p, s) PROVE c \in ClosedFrom(p, q)
  BY <1>1 DEF Ancestors, ClosedFrom
<1>2. QED
  BY <1>1 DEF Ancestors

\* Steps that do not wait for themselves are ranked by how many they wait for.
LEMMA AcyclicRanked ==
  ASSUME NEW p, Listed(p), ~ HasCycle(p)
  PROVE  Ranked(p)
<1> DEFINE rank == [s \in Steps(p) |-> Cardinality(Ancestors(p, s))]
<1>3. \A s : IsFiniteSet(Ancestors(p, s)) /\ Cardinality(Ancestors(p, s)) \in 0..Len(p)
  <2>1. \A s : Ancestors(p, s) \in SUBSET Steps(p)
    BY DEF Ancestors
  <2>2. QED
    BY <2>1, StepsFinite DEF Listed
<1>4. ASSUME NEW s \in Steps(p), NEW d \in ToSet(p[s].deps)
      PROVE  d \in Steps(p) /\ rank[d] < rank[s]
  <2>1. d \in Steps(p)
    BY DEF Listed
  <2>2. d \in Ancestors(p, s) /\ d \notin Ancestors(p, d)
    BY <2>1, DepsAreAncestors DEF HasCycle
  <2>3. Ancestors(p, d) \subseteq Ancestors(p, s) /\ Ancestors(p, d) # Ancestors(p, s)
    BY <2>2, AncestorsOf
  <2>4. Cardinality(Ancestors(p, d)) <= Cardinality(Ancestors(p, s))
        /\ Cardinality(Ancestors(p, d)) # Cardinality(Ancestors(p, s))
    BY <1>3, <2>3, FS_Subset
  <2>5. QED
    BY <1>3, <2>1, <2>4
<1>5. rank \in [Steps(p) -> 0..Len(p)]
  BY <1>3
<1> HIDE DEF rank
<1>6. QED
  BY <1>4, <1>5 DEF Ranked
-----------------------------------------------------------------------------
WalkStates(p) ==
    [cycle : BOOLEAN, calls : Seq(Steps(p)),
     visiting : SUBSET Steps(p), visited : SUBSET Steps(p)]

\* The calls in progress are a path along dependencies; a visited step waits
\* for visited ones only, and not for itself.
WalkGood(p, st) ==
    /\ Distinct(st.calls)
    /\ st.visiting = ToSet(st.calls)
    /\ st.visiting \cap st.visited = {}
    /\ \A v \in st.visited : ToSet(p[v].deps) \subseteq st.visited /\ v \notin Ancestors(p, v)
    /\ \A i, j \in DOMAIN st.calls : i < j => st.calls[j] \in Ancestors(p, st.calls[i])
    /\ st.cycle => HasCycle(p)

Halted(p, st) == st.cycle \/ (st.calls = <<>> /\ st.visited = Steps(p))

\* What a walk that has found nothing has done: a call, or a call and a return.
Walked(st) == 2 * Cardinality(st.visited) + Len(st.calls)

LEMMA CallGoes ==
  ASSUME NEW p, Listed(p), NEW st \in WalkStates(p), WalkGood(p, st), ~ st.cycle,
         NEW d \in Steps(p) \ st.visited,
         st.calls # <<>> => d \in ToSet(p[Last(st.calls)].deps)
  PROVE  /\ Call(st, d) \in WalkStates(p)
         /\ WalkGood(p, Call(st, d))
         /\ Call(st, d).cycle \/ Walked(Call(st, d)) = Walked(st) + 1
<1> DEFINE n == Len(st.calls)
           new == Call(st, d)
<1>1. /\ st = [cycle |-> st.cycle, calls |-> st.calls, visiting |-> st.visiting, visited |-> st.visited]
      /\ st.calls \in Seq(Steps(p)) /\ st.visiting \subseteq Steps(p) /\ st.visited \subseteq Steps(p)
      /\ st.cycle \in BOOLEAN
      /\ n \in Nat /\ DOMAIN st.calls = 1..n
  BY DEF WalkStates
<1>2. \A i \in 1..n : d \in Ancestors(p, st.calls[i])
  <2>1. ASSUME n > 0 PROVE Last(st.calls) = st.calls[n] /\ n \in 1..n /\ d \in Ancestors(p, st.calls[n])
    <3>1. Last(st.calls) = st.calls[n] /\ n \in 1..n /\ st.calls # <<>>
      BY <1>1, <2>1 DEF Last
    <3>2. QED
      BY <1>1, <3>1, DepsAreAncestors
  <2>2. ASSUME NEW i \in 1..n PROVE d \in Ancestors(p, st.calls[i])
    <3>1. d \in Ancestors(p, st.calls[n]) /\ n \in 1..n
      BY <2>1, <2>2
    <3>2. CASE i = n
      BY <3>1, <3>2
    <3>3. CASE i # n
      <4>1. i < n
        BY <1>1, <2>2, <3>3
      <4>2. st.calls[n] \in Ancestors(p, st.calls[i])
        BY <1>1, <3>1, <4>1 DEF WalkGood
      <4>3. QED
        BY <3>1, <4>2, AncestorsOf
    <3>4. QED
      BY <3>2, <3>3
  <2>3. QED
    BY <2>2
<1>3. CASE d \in st.visiting
  <2>1. new = [cycle |-> TRUE, calls |-> st.calls, visiting |-> st.visiting, visited |-> st.visited]
    BY <1>1, <1>3 DEF Call
  <2>2. PICK i \in 1..n : st.calls[i] = d
    BY <1>1, <1>3 DEF WalkGood, ToSet
  <2>3. HasCycle(p)
    BY <1>2, <2>2 DEF HasCycle
  <2> HIDE DEF new
  <2>4. QED
    BY <1>1, <2>1, <2>3 DEF WalkStates, WalkGood, new
<1>4. CASE d \notin st.visiting
  <2> DEFINE calls == Append(st.calls, d)
  <2>1. new = [cycle |-> st.cycle, calls |-> calls, visiting |-> st.visiting \cup {d}, visited |-> st.visited]
    BY <1>1, <1>4 DEF Call
  <2>2. /\ calls \in Seq(Steps(p)) /\ Len(calls) = n + 1 /\ DOMAIN calls = 1..n + 1
        /\ \A i \in 1..n : calls[i] = st.calls[i]
        /\ calls[n + 1] = d
    BY <1>1
  <2> HIDE DEF calls, new
  <2>3. \A i \in 1..n : calls[i] \in st.visiting
    BY <1>1, <2>2 DEF WalkGood, ToSet
  <2>4. Distinct(calls)
    <3> SUFFICES ASSUME NEW i \in 1..n + 1, NEW j \in 1..n + 1, calls[i] = calls[j] PROVE i = j
      BY <2>2 DEF Distinct
    <3>1. CASE i = n + 1 \/ j = n + 1
      BY <1>4, <2>2, <2>3, <3>1
    <3>2. CASE i # n + 1 /\ j # n + 1
      <4>1. i \in 1..n /\ j \in 1..n
        BY <1>1, <3>2
      <4>2. st.calls[i] = st.calls[j]
        BY <2>2, <4>1
      <4>3. QED
        BY <1>1, <4>1, <4>2 DEF WalkGood, Distinct
    <3>3. QED
      BY <3>1, <3>2
  <2>5. ToSet(calls) = st.visiting \cup {d}
    <3>1. ToSet(st.calls) = {st.calls[i] : i \in 1..n} /\ ToSet(st.calls) = st.visiting
      BY <1>1 DEF ToSet, WalkGood
    <3>2. ToSet(calls) = {calls[i] : i \in 1..n + 1}
      BY <2>2 DEF ToSet
    <3>3. \A i \in 1..n : i \in 1..n + 1
      BY <1>1
    <3>4. n + 1 \in 1..n + 1 /\ \A i \in 1..n + 1 : i \in 1..n \/ i = n + 1
      BY <1>1
    <3>5. QED
      BY <2>2, <3>1, <3>2, <3>3, <3>4
  <2>6. \A i, j \in 1..n + 1 : i < j => calls[j] \in Ancestors(p, calls[i])
    <3> SUFFICES ASSUME NEW i \in 1..n + 1, NEW j \in 1..n + 1, i < j
                 PROVE  calls[j] \in Ancestors(p, calls[i])
      OBVIOUS
    <3>1. i \in 1..n /\ (j \in 1..n \/ j = n + 1)
      BY <1>1
    <3>2. QED
      BY <1>1, <1>2, <2>2, <3>1 DEF WalkGood
  <2>7. new \in WalkStates(p)
    BY <1>1, <2>1, <2>2 DEF WalkStates
  <2>8. WalkGood(p, new)
    <3>1. (st.visiting \cup {d}) \cap st.visited = {}
      BY DEF WalkGood
    <3>2. QED
      BY <2>1, <2>2, <2>4, <2>5, <2>6, <3>1 DEF WalkGood
  <2>9. Walked(new) = Walked(st) + 1
    <3>1. Cardinality(st.visited) \in Nat
      BY <1>1, StepsFinite DEF Listed
    <3>2. new.visited = st.visited /\ Len(new.calls) = n + 1
      BY <2>1, <2>2
    <3>3. QED
      BY <1>1, <3>1, <3>2 DEF Walked
  <2>10. QED
    BY <2>7, <2>8, <2>9 DEF new
<1>5. QED
  BY <1>3, <1>4

LEMMA ReturnGoes ==
  ASSUME NEW p, Listed(p), NEW st \in WalkStates(p), WalkGood(p, st), ~ st.cycle,
         st.calls # <<>>, ToSet(p[Last(st.calls)].deps) \subseteq st.visited
  PROVE  /\ Return(st) \in WalkStates(p)
         /\ WalkGood(p, Return(st))
         /\ Walked(Return(st)) = Walked(st) + 1
<1> DEFINE n == Len(st.calls)
           new == Return(st)
           s == Last(st.calls)
           calls == Front(st.calls)
<1>1. /\ st = [cycle |-> st.cycle, calls |-> st.calls, visiting |-> st.visiting, visited |-> st.visited]
      /\ st.calls \in Seq(Steps(p)) /\ st.visiting \subseteq Steps(p) /\ st.visited \subseteq Steps(p)
      /\ st.cycle \in BOOLEAN
      /\ n \in Nat /\ n > 0 /\ DOMAIN st.calls = 1..n
  BY DEF WalkStates
<1>2. s = st.calls[n] /\ n \in 1..n /\ s \in Steps(p) /\ s \in st.visiting
  <2>1. s = st.calls[n] /\ n \in 1..n
    BY <1>1 DEF Last
  <2>2. s \in ToSet(st.calls)
    BY <1>1, <2>1 DEF ToSet
  <2>3. QED
    BY <1>1, <2>1, <2>2 DEF WalkGood
<1>3. /\ calls \in Seq(Steps(p)) /\ Len(calls) = n - 1 /\ DOMAIN calls = 1..n - 1
      /\ \A i \in 1..n - 1 : calls[i] = st.calls[i]
  <2>1. PICK a \in Int, b \in Int : a = 1 /\ b = n - 1
    BY <1>1
  <2>2. \A i \in a..b : st.calls[i] \in Steps(p)
    BY <1>1, <2>1
  <2>3. /\ SubSeq(st.calls, a, b) \in Seq(Steps(p))
        /\ Len(SubSeq(st.calls, a, b)) = IF a <= b THEN b - a + 1 ELSE 0
        /\ \A i \in 1..b - a + 1 : SubSeq(st.calls, a, b)[i] = st.calls[a + i - 1]
    BY <2>2, SubSeqProperties
  <2>4. calls = SubSeq(st.calls, a, b)
    BY <2>1 DEF Front
  <2> HIDE DEF calls
  <2>5. Len(calls) = n - 1 /\ b - a + 1 = n - 1
    <3>1. Len(calls) = IF a <= b THEN b - a + 1 ELSE 0
      BY <2>3, <2>4
    <3>2. n \in Nat /\ n > 0
      BY <1>1
    <3> HIDE DEF n
    <3>3. b - a + 1 = n - 1 /\ (a <= b <=> n # 1)
      BY <2>1, <3>2
    <3>4. QED
      BY <3>1, <3>2, <3>3
  <2>6. \A i \in 1..n - 1 : a + i - 1 = i
    BY <1>1, <2>1
  <2>7. DOMAIN calls = 1..n - 1
    BY <2>3, <2>4, <2>5
  <2>8. QED
    BY <2>3, <2>4, <2>5, <2>6, <2>7
<1>4. new = [cycle |-> st.cycle, calls |-> calls, visiting |-> st.visiting \ {s},
             visited |-> st.visited \cup {s}]
  <2>1. ASSUME NEW c, NEW v, NEW w
        PROVE  [st EXCEPT !.calls = c, !.visiting = v, !.visited = w] =
               [cycle |-> st.cycle, calls |-> c, visiting |-> v, visited |-> w]
    <3> DEFINE one == [st EXCEPT !.calls = c]
               two == [one EXCEPT !.visiting = v]
    <3>1. one = [cycle |-> st.cycle, calls |-> c, visiting |-> st.visiting, visited |-> st.visited]
      BY <1>1
    <3> HIDE DEF one
    <3>2. two = [cycle |-> st.cycle, calls |-> c, visiting |-> v, visited |-> st.visited]
      BY <3>1
    <3> HIDE DEF two
    <3>3. [two EXCEPT !.visited = w] = [cycle |-> st.cycle, calls |-> c, visiting |-> v, visited |-> w]
      BY <3>2
    <3>4. QED
      BY <3>3 DEF one, two
  <2>2. new = [st EXCEPT !.calls = calls, !.visiting = st.visiting \ {s},
                         !.visited = st.visited \cup {s}]
    BY <1>1 DEF Return
  <2> HIDE DEF new, calls, s
  <2>3. QED
    BY <2>1, <2>2
<1> HIDE DEF calls, new, s
<1>5. new \in WalkStates(p)
  BY <1>1, <1>2, <1>3, <1>4 DEF WalkStates
<1>6. \A i \in 1..n - 1 : i \in 1..n /\ i # n
  BY <1>1
<1>7. Distinct(calls)
  BY <1>1, <1>3, <1>6 DEF Distinct, WalkGood
<1>8. ToSet(calls) = st.visiting \ {s}
  <2>1. ToSet(st.calls) = {st.calls[i] : i \in 1..n} /\ ToSet(st.calls) = st.visiting
    BY <1>1 DEF ToSet, WalkGood
  <2>2. ToSet(calls) = {calls[i] : i \in 1..n - 1}
    BY <1>3 DEF ToSet
  <2>3. \A i \in 1..n : i # n => st.calls[i] # s /\ i \in 1..n - 1
    BY <1>1, <1>2 DEF WalkGood, Distinct
  <2>4. \A i \in 1..n - 1 : calls[i] \in st.visiting /\ calls[i] # s
    BY <1>3, <1>6, <2>1, <2>3
  <2>5. \A x \in st.visiting \ {s} : x \in ToSet(calls)
    <3>1. ASSUME NEW i \in 1..n, st.calls[i] # s PROVE st.calls[i] \in ToSet(calls)
      <4>1. i \in 1..n - 1
        BY <1>1, <1>2, <3>1 DEF s
      <4>2. QED
        BY <1>3, <2>2, <4>1
    <3>2. QED
      BY <2>1, <3>1
  <2>6. QED
    BY <2>2, <2>4, <2>5
<1>9. s \notin st.visited
  BY <1>2 DEF WalkGood
<1>10. \A v \in st.visited \cup {s} : ToSet(p[v].deps) \subseteq st.visited \cup {s}
  BY DEF WalkGood, s
<1>11. s \notin Ancestors(p, s)
  <2>1. \A v \in st.visited \cup {s} : ToSet(p[v].deps) \subseteq st.visited
    BY DEF WalkGood, s
  <2>2. Ancestors(p, s) \subseteq st.visited
    BY <1>1, <2>1, AncestorsIn
  <2>3. QED
    BY <1>9, <2>2
<1>12. WalkGood(p, new)
  <2>1. \A i, j \in 1..n - 1 : i < j => calls[j] \in Ancestors(p, calls[i])
    BY <1>1, <1>3, <1>6 DEF WalkGood
  <2>2. (st.visiting \ {s}) \cap (st.visited \cup {s}) = {}
    BY DEF WalkGood
  <2>3. \A v \in st.visited \cup {s} : v \notin Ancestors(p, v)
    BY <1>11 DEF WalkGood
  <2>4. QED
    BY <1>3, <1>4, <1>7, <1>8, <1>10, <2>1, <2>2, <2>3 DEF WalkGood
<1>13. Walked(new) = Walked(st) + 1
  <2>1. IsFiniteSet(st.visited) /\ Cardinality(st.visited) \in Nat
    BY <1>1, StepsFinite DEF Listed
  <2>2. Cardinality(st.visited \cup {s}) = Cardinality(st.visited) + 1
    BY <1>9, <2>1, FS_AddElement
  <2>3. new.visited = st.visited \cup {s} /\ Len(new.calls) = n - 1
    BY <1>3, <1>4
  <2>4. QED
    BY <1>1, <2>1, <2>2, <2>3 DEF Walked
<1>14. QED
  BY <1>5, <1>12, <1>13 DEF new

LEMMA WalkGoes ==
  ASSUME NEW p, Listed(p), NEW st \in WalkStates(p), WalkGood(p, st)
  PROVE  LET new == WalkStep(p, st)
         IN  /\ new \in WalkStates(p) /\ WalkGood(p, new)
             /\ Halted(p, st) => new = st
             /\ ~ Halted(p, st) => new.cycle \/ Walked(new) = Walked(st) + 1
<1> DEFINE loop == IF st.calls = <<>> THEN [s \in Steps(p) |-> s] ELSE p[Last(st.calls)].deps
           left == {i \in DOMAIN loop : loop[i] \notin st.visited}
           new == IF st.cycle \/ (st.calls = <<>> /\ left = {}) THEN st
                  ELSE IF left = {} THEN Return(st) ELSE Call(st, loop[Min(left)])
<1>1. WalkStep(p, st) = new
  BY DEF WalkStep
<1>2. /\ st.calls \in Seq(Steps(p)) /\ st.visited \subseteq Steps(p)
      /\ Len(p) \in Nat /\ Steps(p) = 1..Len(p)
  BY StepsFinite DEF WalkStates, Listed
<1>3. st.calls # <<>> =>
        /\ Last(st.calls) \in Steps(p)
        /\ loop = p[Last(st.calls)].deps
        /\ IsSeq(loop) /\ ToSet(loop) \subseteq Steps(p)
  <2>1. ASSUME st.calls # <<>> PROVE Last(st.calls) \in Steps(p)
    BY <1>2, <2>1 DEF Last
  <2>2. QED
    BY <2>1 DEF Listed
<1>4. \A i \in DOMAIN loop : i \in Nat /\ loop[i] \in Steps(p)
  <2>1. CASE st.calls = <<>>
    BY <1>2, <2>1
  <2>2. CASE st.calls # <<>>
    <3> HIDE DEF loop
    <3>1. DOMAIN loop = 1..Len(loop) /\ Len(loop) \in Nat
      BY <1>3, <2>2, SeqShape
    <3>2. QED
      BY <1>3, <2>2, <3>1 DEF ToSet
  <2>3. QED
    BY <2>1, <2>2
<1>5. st.calls = <<>> => (left = {} <=> st.visited = Steps(p))
  <2> SUFFICES ASSUME st.calls = <<>> PROVE left = {} <=> st.visited = Steps(p)
    OBVIOUS
  <2>1. left = {i \in Steps(p) : i \notin st.visited}
    OBVIOUS
  <2>2. QED
    BY <1>2, <2>1
<1>6. st.calls # <<>> /\ left = {} => ToSet(p[Last(st.calls)].deps) \subseteq st.visited
  BY <1>3 DEF ToSet
<1>7. left # {} => Min(left) \in left
  <2>1. left \subseteq Nat
    BY <1>4
  <2> HIDE DEF left
  <2>2. QED
    BY <2>1, Least DEF Min
<1>8. left # {} => /\ loop[Min(left)] \in Steps(p) \ st.visited
                   /\ st.calls # <<>> => loop[Min(left)] \in ToSet(p[Last(st.calls)].deps)
  <2> SUFFICES ASSUME left # {} PROVE
          /\ loop[Min(left)] \in Steps(p) \ st.visited
          /\ st.calls # <<>> => loop[Min(left)] \in ToSet(p[Last(st.calls)].deps)
    OBVIOUS
  <2>1. PICK i \in DOMAIN loop : i = Min(left) /\ loop[i] \notin st.visited
    BY <1>7
  <2> HIDE DEF left, loop
  <2>2. loop[i] \in ToSet(loop)
    BY DEF ToSet
  <2>3. QED
    BY <1>3, <1>4, <2>1, <2>2
<1>9. Halted(p, st) <=> st.cycle \/ (st.calls = <<>> /\ left = {})
  BY <1>5 DEF Halted
<1> HIDE DEF left, loop
<1>10. CASE Halted(p, st)
  BY <1>1, <1>9, <1>10
<1>11. CASE ~ Halted(p, st) /\ left = {}
  <2>1. new = Return(st) /\ ~ st.cycle /\ st.calls # <<>>
    BY <1>9, <1>11
  <2>2. QED
    BY <1>1, <1>6, <1>11, <2>1, ReturnGoes
<1>12. CASE ~ Halted(p, st) /\ left # {}
  <2>1. new = Call(st, loop[Min(left)]) /\ ~ st.cycle
    BY <1>9, <1>12
  <2> HIDE DEF new
  <2>2. PICK d \in Steps(p) \ st.visited :
          d = loop[Min(left)] /\ (st.calls # <<>> => d \in ToSet(p[Last(st.calls)].deps))
    BY <1>8, <1>12
  <2>3. /\ Call(st, d) \in WalkStates(p)
        /\ WalkGood(p, Call(st, d))
        /\ Call(st, d).cycle \/ Walked(Call(st, d)) = Walked(st) + 1
    BY <2>1, <2>2, CallGoes
  <2>4. QED
    BY <1>1, <1>12, <2>1, <2>2, <2>3
<1>13. QED
  BY <1>10, <1>11, <1>12

\* The elements of a sequence without repetitions are as many as its places.
LEMMA DistinctCount ==
  ASSUME NEW S, NEW q \in Seq(S), Distinct(q)
  PROVE  IsFiniteSet(ToSet(q)) /\ Cardinality(ToSet(q)) = Len(q)
<1>1. Len(q) \in Nat /\ DOMAIN q = 1..Len(q) /\ q \in [1..Len(q) -> S]
  OBVIOUS
<1>2. q \in Bijection(1..Len(q), ToSet(q))
  <2>1. q \in [1..Len(q) -> ToSet(q)]
    BY <1>1 DEF ToSet
  <2>2. \A t \in ToSet(q) : \E s \in 1..Len(q) : q[s] = t
    BY <1>1 DEF ToSet
  <2>3. \A a, b \in 1..Len(q) : q[a] = q[b] => a = b
    BY <1>1 DEF Distinct
  <2>4. QED
    BY <2>1, <2>2, <2>3 DEF Bijection, Injection, Surjection, IsInjective
<1>3. ExistsBijection(1..Len(q), ToSet(q))
  BY <1>2 DEF ExistsBijection
<1>4. IsFiniteSet(1..Len(q)) /\ Cardinality(1..Len(q)) = Len(q)
  <2>1. IsFiniteSet(1..Len(q)) /\ Cardinality(1..Len(q)) = IF 1 > Len(q) THEN 0 ELSE Len(q) - 1 + 1
    BY <1>1, FS_Interval
  <2>2. QED
    BY <1>1, <2>1
<1>5. QED
  BY <1>3, <1>4, FS_Bijection

\* The walk stops within 2 * Len(p) steps, and has found a cycle if there is
\* one.
LEMMA WalkFinds ==
  ASSUME NEW p, Listed(p)
  PROVE  DetectCycle(p) <=> HasCycle(p)
<1> DEFINE N == 2 * Len(p)
           T == {st \in WalkStates(p) : WalkGood(p, st)}
           g == [k \in 1..N |-> [st \in T |-> WalkStep(p, st)]]
           Rec(f) == f = [n \in 0..N |-> IF n = 0 THEN WalkStart ELSE WalkStep(p, f[n - 1])]
<1>1. N \in Nat /\ Len(p) \in Nat
  BY StepsFinite DEF Listed
<1> HIDE DEF N
<1>2. WalkStart \in T
  <2>1. <<>> \in Seq(Steps(p)) /\ DOMAIN <<>> = {}
    OBVIOUS
  <2>2. ToSet(<<>>) = {} /\ Distinct(<<>>)
    BY DEF ToSet, Distinct
  <2>3. WalkStart \in WalkStates(p)
    BY <2>1 DEF WalkStart, WalkStates
  <2>4. WalkGood(p, WalkStart)
    BY <2>1, <2>2 DEF WalkGood, WalkStart
  <2>5. QED
    BY <2>3, <2>4
<1>3. \A st \in T : WalkStep(p, st) \in T
  BY WalkGoes
<1>4. \E f : Rec(f)
  <2>1. g \in [1..N -> [T -> T]]
    <3>1. [st \in T |-> WalkStep(p, st)] \in [T -> T]
      BY <1>3
    <3>2. QED
      BY <3>1
  <2> HIDE DEF g, T
  <2>2. PICK f : IteratedIn(f, N, T, g, WalkStart)
    BY <1>1, <1>2, <2>1, IteratesIn
  <2>3. /\ f = [n \in 0..N |-> f[n]]
        /\ f[0] = WalkStart
        /\ \A k \in 1..N : f[k - 1] \in T /\ f[k] = g[k][f[k - 1]]
    BY <1>1, <2>2 DEF IteratedIn
  <2>4. \A k \in 0..N : f[k] = IF k = 0 THEN WalkStart ELSE WalkStep(p, f[k - 1])
    <3>1. ASSUME NEW k \in 0..N, k # 0 PROVE f[k] = WalkStep(p, f[k - 1])
      <4>1. k \in 1..N /\ k - 1 \in 0..N
        BY <1>1, <3>1
      <4>2. QED
        BY <2>3, <4>1 DEF g
    <3>2. QED
      BY <2>3, <3>1
  <2>5. Rec(f)
    BY <2>3, <2>4
  <2>6. QED
    BY <2>5
<1> DEFINE walk == CHOOSE f : Rec(f)
<1>5. Rec(walk)
  BY <1>4
<1>6. DetectCycle(p) = walk[N].cycle
  BY DEF DetectCycle, N
<1> HIDE DEF walk
<1>7. \A n \in 0..N : walk[n] = IF n = 0 THEN WalkStart ELSE WalkStep(p, walk[n - 1])
  BY <1>5
<1> DEFINE Fine(n) == /\ walk[n] \in WalkStates(p) /\ WalkGood(p, walk[n])
                      /\ Halted(p, walk[n]) \/ Walked(walk[n]) = n
           Q == {n \in 0..N : Fine(n)}
<1>8. 0 \in Q
  <2>1. walk[0] = WalkStart
    BY <1>1, <1>7
  <2>2. Walked(WalkStart) = 0
    BY FS_EmptySet DEF Walked, WalkStart
  <2>3. Fine(0)
    BY <1>2, <2>1, <2>2
  <2> HIDE DEF Fine
  <2>4. QED
    BY <1>1, <2>3
<1>9. ASSUME NEW n \in 1..N, n - 1 \in Q PROVE n \in Q
  <2>1. walk[n] = WalkStep(p, walk[n - 1]) /\ n \in 0..N
    BY <1>1, <1>7, <1>9
  <2> HIDE DEF Fine
  <2>2. Fine(n - 1)
    BY <1>9
  <2>3. walk[n - 1] \in WalkStates(p) /\ WalkGood(p, walk[n - 1])
    BY <2>2 DEF Fine
  <2>4. /\ walk[n] \in WalkStates(p) /\ WalkGood(p, walk[n])
        /\ Halted(p, walk[n - 1]) => walk[n] = walk[n - 1]
        /\ ~ Halted(p, walk[n - 1]) => walk[n].cycle \/ Walked(walk[n]) = Walked(walk[n - 1]) + 1
    BY <2>1, <2>3, WalkGoes
  <2>5. Halted(p, walk[n - 1]) \/ Walked(walk[n - 1]) = n - 1
    BY <2>2 DEF Fine
  <2>6. Halted(p, walk[n]) \/ Walked(walk[n]) = n
    BY <2>4, <2>5 DEF Halted
  <2>7. Fine(n)
    BY <2>4, <2>6 DEF Fine
  <2>8. QED
    BY <2>1, <2>7
<1> HIDE DEF Fine
<1>10. Fine(N)
  <2>1. 0..N \subseteq Q
    <3> HIDE DEF Q
    <3>1. QED
      BY <1>1, <1>8, <1>9, Counting
  <2>2. QED
    BY <1>1, <2>1
<1> DEFINE end == walk[N]
<1>11. /\ end \in WalkStates(p) /\ WalkGood(p, end)
       /\ Halted(p, end) \/ Walked(end) = N
  BY <1>10 DEF Fine
<1> HIDE DEF end
<1>12. end.cycle => HasCycle(p)
  BY <1>11 DEF WalkGood
<1>13. ASSUME ~ end.cycle PROVE end.visited = Steps(p)
  <2>1. CASE Halted(p, end)
    BY <1>13, <2>1 DEF Halted
  <2>2. CASE Walked(end) = N
    <3>1. /\ end.calls \in Seq(Steps(p)) /\ end.visited \in SUBSET Steps(p)
          /\ end.visiting \in SUBSET Steps(p)
      BY <1>11 DEF WalkStates
    <3>2. Cardinality(end.visiting) = Len(end.calls) /\ Len(end.calls) \in Nat
      BY <1>11, <3>1, DistinctCount DEF WalkGood
    <3>3. /\ IsFiniteSet(end.visited) /\ IsFiniteSet(end.visiting) /\ IsFiniteSet(Steps(p))
          /\ Cardinality(end.visited) \in 0..Len(p)
          /\ Cardinality(end.visited \cup end.visiting) \in 0..Len(p)
          /\ Cardinality(Steps(p)) = Len(p)
      <4>1. end.visited \cup end.visiting \in SUBSET Steps(p)
        BY <3>1
      <4>2. QED
        BY <3>1, <4>1, StepsFinite DEF Listed
    <3>4. Cardinality(end.visited \cup end.visiting) =
            Cardinality(end.visited) + Cardinality(end.visiting) - Cardinality(end.visited \cap end.visiting)
      BY <3>3, FS_Union
    <3>5. Cardinality(end.visited \cap end.visiting) = 0
      <4>1. end.visited \cap end.visiting = {}
        BY <1>11 DEF WalkGood
      <4>2. QED
        BY <4>1, FS_EmptySet
    <3>6. 2 * Cardinality(end.visited) + Len(end.calls) = 2 * Len(p)
      BY <2>2 DEF Walked, N
    <3>7. Cardinality(end.visited) = Len(p)
      BY <1>1, <3>2, <3>3, <3>4, <3>5, <3>6
    <3>8. QED
      BY <3>1, <3>3, <3>7, FS_Subset
  <2>3. QED
    BY <1>11, <2>1, <2>2
<1>14. ~ end.cycle => ~ HasCycle(p)
  BY <1>11, <1>13 DEF WalkGood, HasCycle
<1>15. end.cycle \in BOOLEAN
  BY <1>11 DEF WalkStates
<1>16. QED
  BY <1>6, <1>12, <1>14, <1>15 DEF end
-----------------------------------------------------------------------------
\* Steps in the order of the plan: each of them, once.
LEMMA InOrderShape ==
  ASSUME NEW p, IsSeq(p), NEW S \in SUBSET Steps(p)
  PROVE  LET q == InPlanOrder(S)
         IN  q \in Seq(Steps(p)) /\ Distinct(q) /\ ToSet(q) = S
<1> DEFINE n == Cardinality(S)
           below == [s \in S |-> Cardinality({t \in S : t < s})]
           q == [k \in 1..n |-> CHOOSE s \in S : below[s] = k - 1]
<1>1. IsFiniteSet(S) /\ n \in Nat /\ \A s \in S : s \in Nat
  BY StepsFinite
<1>2. q = InPlanOrder(S)
  <2> DEFINE one(k) == CHOOSE s \in S : below[s] = k - 1
             other(k) == CHOOSE s \in S : Cardinality({t \in S : t < s}) = k - 1
  <2>1. \A k \in 1..n : one(k) = other(k)
    OBVIOUS
  <2>2. q = [k \in 1..n |-> one(k)] /\ InPlanOrder(S) = [k \in 1..n |-> other(k)]
    BY DEF InPlanOrder
  <2> HIDE DEF one, other, q
  <2>3. QED
    BY <2>1, <2>2
<1>3. \A s \in S : below[s] \in Nat /\ below[s] < n
  <2>1. ASSUME NEW s \in S PROVE below[s] \in Nat /\ below[s] < n
    <3> DEFINE L == {t \in S : t < s}
    <3>1. L \in SUBSET S /\ s \notin L
      BY <1>1
    <3> HIDE DEF L
    <3>2. IsFiniteSet(L) /\ Cardinality(L) <= n /\ Cardinality(L) # n /\ Cardinality(L) \in Nat
      BY <1>1, <3>1, FS_Subset, FS_CardinalityType
    <3>3. below[s] = Cardinality(L)
      BY DEF L
    <3> HIDE DEF below, n
    <3>4. QED
      BY <1>1, <3>2, <3>3
  <2>2. QED
    BY <2>1
<1>4. ASSUME NEW s \in S, NEW t \in S, s < t PROVE below[s] < below[t]
  <2> DEFINE L == {u \in S : u < s}
             M == {u \in S : u < t}
  <2>1. L \in SUBSET M /\ s \in M /\ s \notin L
    BY <1>1, <1>4
  <2>2. IsFiniteSet(M) /\ below[s] = Cardinality(L) /\ below[t] = Cardinality(M)
    <3>1. M \in SUBSET S
      OBVIOUS
    <3>2. QED
      BY <1>1, <3>1, FS_Subset
  <2> HIDE DEF L, M
  <2>3. Cardinality(L) <= Cardinality(M) /\ Cardinality(L) # Cardinality(M)
    BY <2>1, <2>2, FS_Subset
  <2>4. below[s] \in Nat /\ below[t] \in Nat
    BY <1>3
  <2> HIDE DEF below
  <2>5. QED
    BY <2>2, <2>3, <2>4
<1> HIDE DEF below
<1>5. \A s, t \in S : below[s] = below[t] => s = t
  <2>1. ASSUME NEW s \in S, NEW t \in S, s # t PROVE below[s] # below[t]
    <3>1. s < t \/ t < s
      BY <1>1, <2>1
    <3>2. below[s] \in Int /\ below[t] \in Int
      BY <1>3
    <3>3. QED
      BY <1>4, <3>1, <3>2
  <2>2. QED
    BY <2>1
<1>6. \A k \in 0..n - 1 : \E s \in S : below[s] = k
  <2>1. below \in [S -> 0..n - 1]
    <3>1. \A s \in S : below[s] \in 0..n - 1
      BY <1>1, <1>3
    <3>2. below = [s \in S |-> below[s]]
      BY DEF below
    <3>3. QED
      BY <3>1, <3>2
  <2>2. below \in Injection(S, 0..n - 1)
    BY <1>5, <2>1 DEF Injection, IsInjective
  <2>3. IsFiniteSet(0..n - 1) /\ Cardinality(0..n - 1) = n
    <3>1. IsFiniteSet(0..n - 1) /\ Cardinality(0..n - 1) = IF 0 > n - 1 THEN 0 ELSE n - 1 - 0 + 1
      BY <1>1, FS_Interval
    <3>2. QED
      BY <1>1, <3>1
  <2>4. below \in Surjection(S, 0..n - 1)
    BY <1>1, <2>2, <2>3, FS_Injection
  <2>5. QED
    BY <2>4 DEF Surjection
<1>7. \A k \in 1..n : q[k] \in S /\ below[q[k]] = k - 1
  <2>1. ASSUME NEW k \in 1..n PROVE q[k] \in S /\ below[q[k]] = k - 1
    <3>1. \E s \in S : below[s] = k - 1
      BY <1>1, <1>6
    <3>2. QED
      BY <3>1
  <2>2. QED
    BY <2>1
<1>8. DOMAIN q = 1..n /\ q \in [1..n -> S]
  BY <1>7
<1> HIDE DEF q
<1>9. Distinct(q)
  BY <1>1, <1>7, <1>8 DEF Distinct
<1>10. ToSet(q) = S
  <2>1. ASSUME NEW s \in S PROVE s \in ToSet(q)
    <3>1. PICK b \in Nat : b = below[s] /\ b < n
      BY <1>3
    <3>2. b + 1 \in 1..n /\ b + 1 - 1 = b
      BY <1>1, <3>1
    <3>3. PICK k \in 1..n : k - 1 = b
      BY <3>2
    <3>4. q[k] \in S /\ below[q[k]] = below[s]
      BY <1>7, <3>1, <3>3
    <3>5. q[k] = s
      BY <1>5, <3>4
    <3>6. QED
      BY <1>8, <3>5 DEF ToSet
  <2>2. QED
    BY <1>8, <2>1 DEF ToSet
<1>11. q \in Seq(Steps(p))
  BY <1>1, <1>8
<1>12. QED
  BY <1>2, <1>9, <1>10, <1>11

\* One sequence after another.
LEMMA Concatenated ==
  ASSUME NEW S, NEW q \in Seq(S), NEW r \in Seq(S), Distinct(q), Distinct(r),
         ToSet(q) \cap ToSet(r) = {}
  PROVE  q \o r \in Seq(S) /\ Distinct(q \o r) /\ ToSet(q \o r) = ToSet(q) \cup ToSet(r)
<1> DEFINE m == Len(q)
           n == Len(r)
           c == q \o r
<1>1. m \in Nat /\ n \in Nat /\ DOMAIN q = 1..m /\ DOMAIN r = 1..n
  OBVIOUS
<1>2. /\ c \in Seq(S) /\ Len(c) = m + n
      /\ \A i \in 1..m + n : c[i] = IF i <= m THEN q[i] ELSE r[i - m]
  BY ConcatProperties
<1>3. DOMAIN c = 1..m + n
  BY <1>2
<1> HIDE DEF c, m, n
<1>4. \A i \in 1..m + n : \/ i \in 1..m /\ c[i] = q[i]
                          \/ i - m \in 1..n /\ i > m /\ c[i] = r[i - m]
  BY <1>1, <1>2
<1>5. /\ \A i \in 1..m : q[i] \in ToSet(q)
      /\ \A i \in 1..n : r[i] \in ToSet(r)
  BY <1>1 DEF ToSet
<1>6. Distinct(c)
  <2> SUFFICES ASSUME NEW i \in 1..m + n, NEW j \in 1..m + n, c[i] = c[j] PROVE i = j
    BY <1>3 DEF Distinct
  <2>1. CASE i \in 1..m /\ j \in 1..m
    BY <1>1, <1>4, <2>1 DEF Distinct
  <2>2. CASE i - m \in 1..n /\ j - m \in 1..n
    <3>1. i > m /\ j > m /\ c[i] = r[i - m] /\ c[j] = r[j - m]
      BY <1>1, <1>4, <2>2
    <3>2. i - m = j - m
      BY <1>1, <2>2, <3>1 DEF Distinct
    <3>3. QED
      BY <1>1, <3>2
  <2>3. QED
    BY <1>1, <1>4, <1>5, <2>1, <2>2
<1>7. ToSet(c) = ToSet(q) \cup ToSet(r)
  <2>1. ToSet(c) \subseteq ToSet(q) \cup ToSet(r)
    BY <1>3, <1>4, <1>5 DEF ToSet
  <2>2. ASSUME NEW i \in 1..m PROVE q[i] \in ToSet(c)
    <3>1. i \in 1..m + n /\ c[i] = q[i]
      BY <1>1, <1>2
    <3>2. QED
      BY <1>3, <3>1 DEF ToSet
  <2>3. ASSUME NEW i \in 1..n PROVE r[i] \in ToSet(c)
    <3>1. PICK j \in Int : j = i + m
      BY <1>1
    <3>2. j \in 1..m + n /\ ~ j <= m /\ j - m = i
      BY <1>1, <3>1
    <3>3. c[j] = r[i]
      BY <1>2, <3>2
    <3>4. QED
      BY <1>3, <3>2, <3>3 DEF ToSet
  <2>4. QED
    BY <1>1, <2>1, <2>2, <2>3 DEF ToSet
<1>8. QED
  BY <1>2, <1>6, <1>7 DEF c
-----------------------------------------------------------------------------
SortStates(p) ==
    [ordered : Seq(Steps(p)), queue : Seq(Steps(p)), indegree : [Steps(p) -> Nat]]

\* The places at which a step names one that is not ordered yet.
Open(p, ordered, c) == {i \in DOMAIN p[c].deps : p[c].deps[i] \notin ToSet(ordered)}

\* A step's count is that of its open places, and what counts nothing is in
\* the order or in the queue.
SortGood(p, st) ==
    /\ Distinct(st.ordered) /\ Distinct(st.queue)
    /\ ToSet(st.ordered) \cap ToSet(st.queue) = {}
    /\ \A c \in Steps(p) : st.indegree[c] = Cardinality(Open(p, st.ordered, c))
    /\ ToSet(st.ordered) \cup ToSet(st.queue) = {c \in Steps(p) : st.indegree[c] = 0}
    /\ \A j \in DOMAIN st.ordered : \A d \in ToSet(p[st.ordered[j]].deps) :
         \E i \in 1..j - 1 : st.ordered[i] = d

LEMMA DepsCount ==
  ASSUME NEW p, Listed(p), NEW c \in Steps(p)
  PROVE  /\ Len(p[c].deps) \in Nat /\ DOMAIN p[c].deps = 1..Len(p[c].deps)
         /\ IsFiniteSet(DOMAIN p[c].deps) /\ Cardinality(DOMAIN p[c].deps) = Len(p[c].deps)
         /\ \A S \in SUBSET DOMAIN p[c].deps : IsFiniteSet(S) /\ Cardinality(S) \in Nat
<1>1. Len(p[c].deps) \in Nat /\ DOMAIN p[c].deps = 1..Len(p[c].deps)
  BY SeqShape DEF Listed
<1>2. /\ IsFiniteSet(1..Len(p[c].deps))
      /\ Cardinality(1..Len(p[c].deps)) = IF 1 > Len(p[c].deps) THEN 0 ELSE Len(p[c].deps) - 1 + 1
  BY <1>1, FS_Interval
<1>3. IsFiniteSet(DOMAIN p[c].deps) /\ Cardinality(DOMAIN p[c].deps) = Len(p[c].deps)
  BY <1>1, <1>2
<1>4. QED
  BY <1>1, <1>3, FS_Subset, FS_CardinalityType

LEMMA SortBegins ==
  ASSUME NEW p, Listed(p)
  PROVE  SortStart(p) \in SortStates(p) /\ SortGood(p, SortStart(p))
<1> DEFINE roots == {s \in Steps(p) : Indegree(p, s) = 0}
           queue == InPlanOrder(roots)
           indegree == [s \in Steps(p) |-> Indegree(p, s)]
<1>1. SortStart(p) = [ordered |-> <<>>, queue |-> queue, indegree |-> indegree]
  BY DEF SortStart
<1>2. queue \in Seq(Steps(p)) /\ Distinct(queue) /\ ToSet(queue) = roots
  BY InOrderShape DEF Listed
<1>3. \A s \in Steps(p) : indegree[s] = Indegree(p, s) /\ indegree[s] \in Nat
  BY DepsCount DEF Indegree
<1> HIDE DEF queue
<1>4. ToSet(<<>>) = {} /\ Distinct(<<>>) /\ <<>> \in Seq(Steps(p)) /\ DOMAIN <<>> = {}
  <2>1. DOMAIN <<>> = {} /\ <<>> \in Seq(Steps(p))
    OBVIOUS
  <2>2. QED
    BY <2>1 DEF ToSet, Distinct
<1>5. \A c \in Steps(p) : indegree[c] = Cardinality(Open(p, <<>>, c))
  <2>1. ASSUME NEW c \in Steps(p) PROVE indegree[c] = Cardinality(Open(p, <<>>, c))
    <3>1. Open(p, <<>>, c) = DOMAIN p[c].deps
      BY <1>4 DEF Open
    <3>2. QED
      BY <1>3, <3>1, DepsCount DEF Indegree
  <2>2. QED
    BY <2>1
<1>6. roots = {c \in Steps(p) : indegree[c] = 0}
  BY <1>3
<1>7. indegree \in [Steps(p) -> Nat]
  BY <1>3
<1> HIDE DEF indegree, roots
<1>8. SortStart(p) \in SortStates(p)
  BY <1>1, <1>2, <1>4, <1>7 DEF SortStates
<1>9. SortGood(p, SortStart(p))
  <2>1. ToSet(<<>>) \cap ToSet(queue) = {}
    BY <1>4
  <2>2. ToSet(<<>>) \cup ToSet(queue) = {c \in Steps(p) : indegree[c] = 0}
    BY <1>2, <1>4, <1>6
  <2>3. QED
    BY <1>1, <1>2, <1>4, <1>5, <2>1, <2>2 DEF SortGood
<1>10. QED
  BY <1>8, <1>9

LEMMA SortGoes ==
  ASSUME NEW p, Listed(p), NEW st \in SortStates(p), SortGood(p, st), st.queue # <<>>
  PROVE  LET new == SortStep(p, st)
         IN  /\ new \in SortStates(p) /\ SortGood(p, new)
             /\ Len(new.ordered) = Len(st.ordered) + 1
<1> DEFINE s == Head(st.queue)
           left == [c \in Steps(p) |-> st.indegree[c] - Occurrences(s, p[c].deps)]
           freed == {c \in Steps(p) : st.indegree[c] > 0 /\ left[c] = 0}
           rest == Tail(st.queue)
           ordered == Append(st.ordered, s)
           queue == rest \o InPlanOrder(freed)
           n == Len(st.ordered)
<1>1. SortStep(p, st) = [ordered |-> ordered, queue |-> queue, indegree |-> left]
  BY DEF SortStep
<1>2. /\ st.ordered \in Seq(Steps(p)) /\ st.queue \in Seq(Steps(p))
      /\ st.indegree \in [Steps(p) -> Nat]
      /\ n \in Nat /\ DOMAIN st.ordered = 1..n
  BY DEF SortStates
<1>3. /\ s \in ToSet(st.queue) /\ s \in Steps(p)
      /\ rest \in Seq(Steps(p)) /\ Distinct(rest) /\ ToSet(rest) = ToSet(st.queue) \ {s}
  BY <1>2, TailShape DEF SortGood
<1>4. s \notin ToSet(st.ordered) /\ st.indegree[s] = 0
  BY <1>3 DEF SortGood
<1>5. ToSet(p[s].deps) \subseteq ToSet(st.ordered)
  <2>1. Cardinality(Open(p, st.ordered, s)) = 0
    BY <1>3, <1>4 DEF SortGood
  <2>2. Open(p, st.ordered, s) \in SUBSET DOMAIN p[s].deps
    BY DEF Open
  <2>3. Open(p, st.ordered, s) = {}
    BY <1>3, <2>1, <2>2, DepsCount, FS_EmptySet
  <2>4. QED
    BY <2>3 DEF Open, ToSet
<1>6. /\ ordered \in Seq(Steps(p)) /\ Len(ordered) = n + 1 /\ DOMAIN ordered = 1..n + 1
      /\ \A i \in 1..n : ordered[i] = st.ordered[i]
      /\ ordered[n + 1] = s
  BY <1>2, <1>3
<1> HIDE DEF s, rest, ordered, n
<1>7. \A i \in 1..n + 1 : i \in 1..n \/ i = n + 1
  BY <1>2
<1>8. n + 1 \in 1..n + 1 /\ \A i \in 1..n : i \in 1..n + 1
  BY <1>2
<1>9. ToSet(ordered) = ToSet(st.ordered) \cup {s}
  BY <1>2, <1>6, <1>7, <1>8 DEF ToSet
<1>10. Distinct(ordered)
  <2>1. \A i \in 1..n : st.ordered[i] # s
    BY <1>2, <1>4 DEF ToSet
  <2>2. QED
    BY <1>2, <1>6, <1>7, <2>1 DEF Distinct, SortGood
<1>11. ASSUME NEW c \in Steps(p)
       PROVE  /\ left[c] = Cardinality(Open(p, ordered, c)) /\ left[c] \in Nat
              /\ st.indegree[c] = 0 => left[c] = 0
  <2> DEFINE A == Open(p, st.ordered, c)
             B == Open(p, ordered, c)
             C == {i \in DOMAIN p[c].deps : p[c].deps[i] = s}
  <2>1. B = A \ C /\ A \cap C = C
    BY <1>4, <1>9 DEF Open
  <2>2. A \in SUBSET DOMAIN p[c].deps /\ B \in SUBSET A
    BY <2>1 DEF Open
  <2>3. left[c] = st.indegree[c] - Cardinality(C)
    BY DEF Occurrences
  <2>4. st.indegree[c] = Cardinality(A)
    BY DEF SortGood
  <2> HIDE DEF A, B, C, left
  <2>5. IsFiniteSet(A) /\ Cardinality(A) \in Nat /\ IsFiniteSet(B) /\ Cardinality(B) \in Nat
    BY <2>2, DepsCount
  <2>6. Cardinality(B) = Cardinality(A) - Cardinality(C)
    <3>1. Cardinality(A \ C) = Cardinality(A) - Cardinality(A \cap C)
      BY <2>5, FS_Difference
    <3>2. QED
      BY <2>1, <3>1
  <2>7. Cardinality(B) <= Cardinality(A)
    BY <2>2, <2>5, FS_Subset
  <2>8. left[c] = Cardinality(B)
    BY <2>3, <2>4, <2>6
  <2>9. QED
    BY <2>4, <2>5, <2>7, <2>8 DEF B
<1>12. left \in [Steps(p) -> Nat]
  BY <1>11
<1>13. freed \in SUBSET Steps(p)
  OBVIOUS
<1>14. \A c \in freed : st.indegree[c] > 0
  OBVIOUS
<1>15. {c \in Steps(p) : left[c] = 0} = {c \in Steps(p) : st.indegree[c] = 0} \cup freed
  <2>1. \A c \in Steps(p) : st.indegree[c] = 0 \/ st.indegree[c] > 0
    BY <1>2
  <2>2. QED
    BY <1>11, <2>1
<1> HIDE DEF left, freed
<1>16. /\ InPlanOrder(freed) \in Seq(Steps(p)) /\ Distinct(InPlanOrder(freed))
       /\ ToSet(InPlanOrder(freed)) = freed
  BY <1>13, InOrderShape DEF Listed
<1>17. \A c \in freed : c \notin ToSet(st.ordered) /\ c \notin ToSet(st.queue)
  <2>1. \A c \in ToSet(st.ordered) \cup ToSet(st.queue) : st.indegree[c] = 0
    BY DEF SortGood
  <2>2. \A c \in freed : st.indegree[c] # 0
    BY <1>2, <1>13, <1>14
  <2>3. QED
    BY <2>1, <2>2
<1>18. queue \in Seq(Steps(p)) /\ Distinct(queue) /\ ToSet(queue) = (ToSet(st.queue) \ {s}) \cup freed
  <2>1. ToSet(rest) \cap ToSet(InPlanOrder(freed)) = {}
    BY <1>3, <1>16, <1>17
  <2>2. QED
    BY <1>3, <1>16, <2>1, Concatenated
<1> HIDE DEF queue
<1>19. \A j \in 1..n + 1 : \A d \in ToSet(p[ordered[j]].deps) : \E i \in 1..j - 1 : ordered[i] = d
  <2>1. ASSUME NEW j \in 1..n, NEW d \in ToSet(p[ordered[j]].deps)
        PROVE  \E i \in 1..j - 1 : ordered[i] = d
    <3>1. d \in ToSet(p[st.ordered[j]].deps)
      BY <1>6, <2>1
    <3>2. PICK i \in 1..j - 1 : st.ordered[i] = d
      BY <1>2, <3>1 DEF SortGood
    <3>3. i \in 1..n
      BY <1>2
    <3>4. QED
      BY <1>6, <3>2, <3>3
  <2>2. ASSUME NEW d \in ToSet(p[ordered[n + 1]].deps)
        PROVE  \E i \in 1..(n + 1) - 1 : ordered[i] = d
    <3>1. d \in ToSet(st.ordered)
      BY <1>5, <1>6, <2>2
    <3>2. PICK i \in 1..n : st.ordered[i] = d
      BY <1>2, <3>1 DEF ToSet
    <3>3. i \in 1..(n + 1) - 1
      BY <1>2
    <3>4. QED
      BY <1>6, <3>2, <3>3
  <2>3. QED
    BY <1>7, <2>1, <2>2
<1> DEFINE new == [ordered |-> ordered, queue |-> queue, indegree |-> left]
<1>20. new \in SortStates(p)
  BY <1>6, <1>12, <1>18 DEF SortStates
<1>21. SortGood(p, new)
  <2>1. ToSet(ordered) \cap ToSet(queue) = {}
    BY <1>4, <1>9, <1>17, <1>18, <1>3 DEF SortGood
  <2>2. ToSet(ordered) \cup ToSet(queue) = {c \in Steps(p) : left[c] = 0}
    <3>1. ToSet(ordered) \cup ToSet(queue) = ToSet(st.ordered) \cup ToSet(st.queue) \cup freed
      BY <1>3, <1>9, <1>18
    <3>2. QED
      BY <1>15, <3>1 DEF SortGood
  <2>3. \A c \in Steps(p) : left[c] = Cardinality(Open(p, ordered, c))
    BY <1>11
  <2>4. new.ordered = ordered /\ new.queue = queue /\ new.indegree = left
    OBVIOUS
  <2> HIDE DEF new
  <2>5. \A j \in DOMAIN new.ordered : \A d \in ToSet(p[new.ordered[j]].deps) :
          \E i \in 1..j - 1 : new.ordered[i] = d
    BY <1>6, <1>19, <2>4
  <2>6. \A c \in Steps(p) : new.indegree[c] = Cardinality(Open(p, new.ordered, c))
    BY <2>3, <2>4
  <2>7. ToSet(new.ordered) \cup ToSet(new.queue) = {c \in Steps(p) : new.indegree[c] = 0}
    BY <2>2, <2>4
  <2>8. QED
    BY <1>10, <1>18, <2>1, <2>4, <2>5, <2>6, <2>7 DEF SortGood
<1>22. QED
  BY <1>1, <1>6, <1>20, <1>21 DEF n

\* The sort takes every step, each after those it depends on: while some are
\* left one of them waits for none of the others.
LEMMA SortOrders ==
  ASSUME NEW p, Listed(p), ~ HasCycle(p)
  PROVE  LET order == TopologicalSort(p)
         IN  /\ DOMAIN order = Steps(p)
             /\ ToSet(order) = Steps(p)
             /\ \A i, j \in DOMAIN order : order[i] \in ToSet(p[order[j]].deps) => i < j
<1> DEFINE N == Len(p)
           T == {st \in SortStates(p) : SortGood(p, st)}
           g == [k \in 1..N |-> [st \in T |-> SortStep(p, st)]]
           Rec(f) == f = [n \in 0..N |-> IF n = 0 THEN SortStart(p) ELSE SortStep(p, f[n - 1])]
<1>1. N \in Nat /\ Steps(p) = 1..N
  BY StepsFinite DEF Listed
<1>2. SortStart(p) \in T
  BY SortBegins
<1>3. \A st \in T : SortStep(p, st) \in T
  <2>1. ASSUME NEW st \in T PROVE SortStep(p, st) \in T
    <3>1. CASE st.queue = <<>>
      BY <2>1, <3>1 DEF SortStep
    <3>2. CASE st.queue # <<>>
      BY <2>1, <3>2, SortGoes
    <3>3. QED
      BY <3>1, <3>2
  <2>2. QED
    BY <2>1
<1> HIDE DEF N
<1>4. \E f : Rec(f)
  <2>1. g \in [1..N -> [T -> T]]
    <3>1. [st \in T |-> SortStep(p, st)] \in [T -> T]
      BY <1>3
    <3>2. QED
      BY <3>1
  <2> HIDE DEF g, T
  <2>2. PICK f : IteratedIn(f, N, T, g, SortStart(p))
    BY <1>1, <1>2, <2>1, IteratesIn
  <2>3. /\ f = [n \in 0..N |-> f[n]]
        /\ f[0] = SortStart(p)
        /\ \A k \in 1..N : f[k - 1] \in T /\ f[k] = g[k][f[k - 1]]
    BY <1>1, <2>2 DEF IteratedIn
  <2>4. \A k \in 0..N : f[k] = IF k = 0 THEN SortStart(p) ELSE SortStep(p, f[k - 1])
    <3>1. ASSUME NEW k \in 0..N, k # 0 PROVE f[k] = SortStep(p, f[k - 1])
      <4>1. k \in 1..N /\ k - 1 \in 0..N
        BY <1>1, <3>1
      <4>2. QED
        BY <2>3, <4>1 DEF g
    <3>2. QED
      BY <2>3, <3>1
  <2>5. Rec(f)
    BY <2>3, <2>4
  <2>6. QED
    BY <2>5
<1> DEFINE sort == CHOOSE f : Rec(f)
<1>5. Rec(sort)
  BY <1>4
<1>6. TopologicalSort(p) = sort[N].ordered
  BY DEF TopologicalSort, N
<1> HIDE DEF sort
<1>7. \A n \in 0..N : sort[n] = IF n = 0 THEN SortStart(p) ELSE SortStep(p, sort[n - 1])
  BY <1>5
<1> DEFINE Fine(n) == /\ sort[n] \in SortStates(p) /\ SortGood(p, sort[n])
                      /\ sort[n].queue = <<>> \/ Len(sort[n].ordered) = n
           Q == {n \in 0..N : Fine(n)}
<1>8. 0 \in Q
  <2>1. sort[0] = SortStart(p)
    BY <1>1, <1>7
  <2>2. Len(SortStart(p).ordered) = 0
    BY DEF SortStart
  <2>3. Fine(0)
    BY <2>1, <2>2, SortBegins
  <2> HIDE DEF Fine
  <2>4. QED
    BY <1>1, <2>3
<1>9. ASSUME NEW n \in 1..N, n - 1 \in Q PROVE n \in Q
  <2>1. sort[n] = SortStep(p, sort[n - 1]) /\ n \in 0..N
    BY <1>1, <1>7, <1>9
  <2> HIDE DEF Fine
  <2>2. Fine(n - 1)
    BY <1>9
  <2>3. sort[n - 1] \in SortStates(p) /\ SortGood(p, sort[n - 1])
        /\ (sort[n - 1].queue = <<>> \/ Len(sort[n - 1].ordered) = n - 1)
    BY <2>2 DEF Fine
  <2>4. CASE sort[n - 1].queue = <<>>
    <3>1. sort[n] = sort[n - 1]
      BY <2>1, <2>4 DEF SortStep
    <3>2. Fine(n)
      BY <2>3, <2>4, <3>1 DEF Fine
    <3>3. QED
      BY <2>1, <3>2
  <2>5. CASE sort[n - 1].queue # <<>>
    <3>1. /\ sort[n] \in SortStates(p) /\ SortGood(p, sort[n])
          /\ Len(sort[n].ordered) = Len(sort[n - 1].ordered) + 1
      BY <2>1, <2>3, <2>5, SortGoes
    <3>2. Len(sort[n].ordered) = n
      BY <2>3, <2>5, <3>1
    <3>3. Fine(n)
      BY <3>1, <3>2 DEF Fine
    <3>4. QED
      BY <2>1, <3>3
  <2>6. QED
    BY <2>4, <2>5
<1> HIDE DEF Fine
<1>10. Fine(N)
  <2>1. 0..N \subseteq Q
    <3> HIDE DEF Q
    <3>1. QED
      BY <1>1, <1>8, <1>9, Counting
  <2>2. QED
    BY <1>1, <2>1
<1> DEFINE end == sort[N]
           order == end.ordered
<1>11. /\ end \in SortStates(p) /\ SortGood(p, end)
       /\ end.queue = <<>> \/ Len(order) = N
  BY <1>10 DEF Fine
<1>12. order = TopologicalSort(p)
  BY <1>6
<1> HIDE DEF end
<1>13. order \in Seq(Steps(p)) /\ Distinct(order) /\ Len(order) \in Nat /\ DOMAIN order = 1..Len(order)
  BY <1>11 DEF SortStates, SortGood
<1>14. IsFiniteSet(ToSet(order)) /\ Cardinality(ToSet(order)) = Len(order) /\ ToSet(order) \subseteq Steps(p)
  <2>1. IsFiniteSet(ToSet(order)) /\ Cardinality(ToSet(order)) = Len(order)
    <3> HIDE DEF order
    <3>1. QED
      BY <1>13, DistinctCount
  <2>2. QED
    BY <1>13, <2>1 DEF ToSet
<1>15. IsFiniteSet(Steps(p)) /\ Cardinality(Steps(p)) = N
  BY StepsFinite DEF Listed, N
<1>16. ToSet(order) = Steps(p)
  <2>1. CASE Len(order) = N
    BY <1>14, <1>15, <2>1, FS_Subset
  <2>2. CASE end.queue = <<>>
    <3>1. ToSet(end.queue) = {}
      BY <2>2 DEF ToSet
    <3>2. ToSet(order) = {c \in Steps(p) : end.indegree[c] = 0}
      BY <1>11, <3>1 DEF SortGood
    <3>3. PICK rank \in [Steps(p) -> 0..Len(p)] : \A s \in Steps(p) : \A d \in ToSet(p[s].deps) :
              d \in Steps(p) /\ rank[d] < rank[s]
      BY AcyclicRanked DEF Ranked
    <3> DEFINE left == Steps(p) \ ToSet(order)
               ranks == {rank[s] : s \in left}
    <3>4. SUFFICES ASSUME left # {} PROVE FALSE
      BY <1>14
    <3>5. ranks \subseteq Nat /\ ranks # {}
      BY <3>4
    <3>6. PICK s \in left : \A t \in left : rank[s] <= rank[t]
      <4>1. PICK x \in ranks : \A y \in ranks : x <= y
        <5> HIDE DEF ranks
        <5>1. QED
          BY <3>5, Least
      <4>2. QED
        BY <4>1
    <3>7. Open(p, order, s) = {}
      <4>1. ASSUME NEW i \in DOMAIN p[s].deps PROVE p[s].deps[i] \in ToSet(order)
        <5>1. p[s].deps[i] \in ToSet(p[s].deps)
          BY DEF ToSet
        <5>2. PICK d \in Steps(p) : d = p[s].deps[i] /\ rank[d] < rank[s]
          BY <3>3, <5>1
        <5>3. rank[d] \in Int /\ rank[s] \in Int
          BY <5>2
        <5>4. d \notin left
          BY <3>6, <5>2, <5>3
        <5>5. QED
          BY <5>2, <5>4
      <4>2. QED
        BY <4>1 DEF Open
    <3>8. end.indegree[s] = 0
      BY <1>11, <3>7, FS_EmptySet DEF SortGood
    <3>9. QED
      BY <3>2, <3>8
  <2>3. QED
    BY <1>11, <2>1, <2>2
<1>17. DOMAIN order = Steps(p)
  BY <1>1, <1>13, <1>14, <1>15, <1>16
<1>18. ASSUME NEW i \in DOMAIN order, NEW j \in DOMAIN order, order[i] \in ToSet(p[order[j]].deps)
       PROVE  i < j
  <2>1. PICK k \in 1..j - 1 : order[k] = order[i]
    BY <1>11, <1>18 DEF SortGood
  <2>2. k \in DOMAIN order /\ i \in Nat /\ j \in Nat /\ k < j
    BY <1>13, <2>1
  <2>3. k = i
    BY <1>13, <2>1, <2>2 DEF Distinct
  <2>4. QED
    BY <2>2, <2>3
<1> HIDE DEF order
<1>19. QED
  BY <1>12, <1>16, <1>17, <1>18
-----------------------------------------------------------------------------
\* A plan that the guard accepts fits: in the order in which the chain of
\* inputs was validated every step comes after those it waits for, and what
\* it reads was produced before, with a type that stands for the input's.
LEMMA ValidFits ==
  ASSUME IsSeq(plan), ListsAreSeqs(plan), ValidPlan(plan)
  PROVE  PlanFits(plan)
<1> DEFINE order == TopologicalSort(plan)
           before(i) == {order[j] : j \in 1..i - 1}
<1>1. KnownDependencies(plan) /\ ~ DetectCycle(plan) /\ IoChainOk(plan)
  BY DEF ValidPlan
<1>2. Listed(plan)
  BY <1>1 DEF Listed, ListsAreSeqs, KnownDependencies
<1>3. /\ DOMAIN order = Steps(plan) /\ ToSet(order) = Steps(plan)
      /\ \A i, j \in DOMAIN order : order[i] \in ToSet(plan[order[j]].deps) => i < j
  BY <1>1, <1>2, WalkFinds, SortOrders
<1>4. \A i \in DOMAIN order : NodeOk(plan[order[i]], Produced(plan, before(i)))
  BY <1>1 DEF IoChainOk
<1> HIDE DEF order
<1>5. Steps(plan) = 1..Len(plan) /\ Len(plan) \in Nat
  BY SeqShape DEF Steps
<1> DEFINE rank == [s \in Steps(plan) |-> CHOOSE i \in DOMAIN order : order[i] = s]
<1>6. \A s \in Steps(plan) : rank[s] \in Steps(plan) /\ order[rank[s]] = s
  BY <1>3 DEF ToSet
<1> HIDE DEF rank
<1>7. \A s \in Steps(plan) : \A d \in ToSet(plan[s].deps) : d \in Steps(plan) /\ rank[d] < rank[s]
  BY <1>1, <1>3, <1>6 DEF KnownDependencies
<1>8. Ranked(plan)
  <2>1. rank \in [Steps(plan) -> 0..Len(plan)]
    <3>1. \A s \in Steps(plan) : rank[s] \in 0..Len(plan)
      BY <1>5, <1>6
    <3>2. QED
      BY <3>1 DEF rank
  <2>2. QED
    BY <1>7, <2>1 DEF Ranked
<1>9. ASSUME NEW s \in Steps(plan), NEW t \in Steps(plan), rank[s] < rank[t]
      PROVE  s \in before(rank[t])
  <2>1. rank[s] \in 1..rank[t] - 1 /\ order[rank[s]] = s
    BY <1>5, <1>6, <1>9
  <2>2. QED
    BY <2>1
<1>10. ASSUME NEW s \in Steps(plan), NEW t \in Steps(plan), rank[s] < rank[t]
       PROVE  Strip(plan[s].out) # Strip(plan[t].out)
  <2>1. NodeOk(plan[t], Produced(plan, before(rank[t])))
    BY <1>3, <1>4, <1>6
  <2>2. Strip(plan[t].out) \notin DOMAIN Produced(plan, before(rank[t]))
    BY <2>1 DEF NodeOk
  <2>3. s \in before(rank[t])
    BY <1>9, <1>10
  <2> HIDE DEF before
  <2>4. Strip(plan[s].out) \in DOMAIN Produced(plan, before(rank[t]))
    BY <2>3 DEF Produced
  <2>5. QED
    BY <2>2, <2>4
<1>11. ASSUME NEW s \in Steps(plan), NEW t \in Steps(plan), Strip(plan[s].out) = Strip(plan[t].out)
       PROVE  s = t
  <2>1. ~ (rank[s] < rank[t]) /\ ~ (rank[t] < rank[s])
    BY <1>10, <1>11
  <2>2. rank[s] = rank[t]
    BY <1>5, <1>6, <2>1
  <2>3. QED
    BY <1>6, <2>2
<1>12. ASSUME NEW s \in Steps(plan), NEW q \in Ancestors(plan, s)
       PROVE  q \in Steps(plan) /\ rank[q] < rank[s]
  <2> DEFINE C == {c \in Steps(plan) : rank[c] < rank[s]}
  <2>1. \A d \in C \cup {s} : ToSet(plan[d].deps) \subseteq C
    <3>1. ASSUME NEW d \in C \cup {s}, NEW e \in ToSet(plan[d].deps) PROVE e \in C
      <4>1. d \in Steps(plan) /\ (rank[d] < rank[s] \/ d = s)
        BY <3>1
      <4>2. e \in Steps(plan) /\ rank[e] < rank[d]
        BY <1>7, <4>1
      <4>3. rank[e] \in Int /\ rank[d] \in Int /\ rank[s] \in Int
        BY <1>5, <1>6, <4>1, <4>2
      <4>4. QED
        BY <4>1, <4>2, <4>3
    <3>2. QED
      BY <3>1
  <2>2. C \in SUBSET Steps(plan)
    OBVIOUS
  <2> HIDE DEF C
  <2>3. Ancestors(plan, s) \subseteq C
    BY <2>1, <2>2, AncestorsIn
  <2>4. QED
    BY <1>12, <2>3 DEF C
<1>13. ASSUME NEW s \in Steps(plan), NEW q \in Ancestors(plan, s),
              NEW key \in DOMAIN plan[s].inputs \cap DOMAIN InputTypes(plan[s].op),
              key # "upload_id", plan[s].inputs[key] = plan[q].out
       PROVE  Compatible(OutputType(plan[q].op), InputTypes(plan[s].op)[key])
  <2> DEFINE B == before(rank[s])
             made_ == Produced(plan, B)
             ref == Strip(plan[q].out)
  <2>1. q \in Steps(plan) /\ rank[q] < rank[s]
    BY <1>12
  <2>2. q \in B /\ B \subseteq Steps(plan)
    <3>1. q \in B
      BY <1>9, <2>1
    <3>2. \A j \in 1..rank[s] - 1 : j \in DOMAIN order
      BY <1>3, <1>5, <1>6
    <3>3. QED
      BY <1>3, <3>1, <3>2 DEF ToSet
  <2>3. NodeOk(plan[s], made_) /\ NodeOk(plan[q], Produced(plan, before(rank[q])))
    BY <1>3, <1>4, <1>6, <2>1
  <2> HIDE DEF B, before
  <2>4. ref # ""
    BY <2>3 DEF NodeOk
  <2>5. ref \in DOMAIN made_ /\ made_[ref] = OutputType(plan[q].op)
    <3>1. ref \in {Strip(plan[t].out) : t \in B}
      BY <2>2
    <3>2. (CHOOSE t \in B : Strip(plan[t].out) = ref) = q
      BY <1>11, <2>1, <2>2
    <3>3. QED
      BY <3>1, <3>2 DEF Produced
  <2>6. InputOk(plan[s], key, made_)
    BY <2>3 DEF NodeOk
  <2>7. Given(plan[s].inputs, key) = plan[q].out
    BY <1>13 DEF Given
  <2> HIDE DEF made_, ref
  <2>8. Compatible(made_[ref], InputTypes(plan[s].op)[key])
    BY <2>4, <2>5, <2>6, <2>7 DEF InputOk, ref
  <2>9. QED
    BY <2>5, <2>8
<1>14. QED
  BY <1>8, <1>11, <1>13 DEF PlanFits

LEMMA AcceptedKept == RunInv /\ AcceptedFit /\ [Next]_vars => AcceptedFit'
<1> SUFFICES ASSUME RunInv, AcceptedFit, [Next]_vars
             PROVE  AcceptedFit'
  OBVIOUS
<1>1. IsSeq(plan) /\ ListsAreSeqs(plan) /\ (source \in {"built", "injected"} => PlanFits(plan))
  BY DEF RunInv, PlanInv
<1>2. CASE UNCHANGED vars
  BY <1>2 DEF vars, AcceptedFit
<1>3. CASE Hand \/ Build
  BY <1>3 DEF Hand, Build, AcceptedFit
<1>4. CASE Approve
  <2>1. phase = "draft" /\ plan' = plan /\ (phase' # "refused" => ValidPlan(plan))
    BY <1>4 DEF Approve
  <2>2. QED
    BY <1>1, <2>1, ValidFits DEF AcceptedFit
<1>5. CASE TakeUnreviewed
  <2>1. phase = "draft" /\ plan' = plan /\ (phase' # "refused" => source = "built" \/ ValidPlan(plan))
    BY <1>5 DEF TakeUnreviewed
  <2>2. QED
    BY <1>1, <2>1, ValidFits DEF AcceptedFit
<1>6. CASE Start \/ Run
  <2>1. plan' = plan /\ phase \in {"ready", "running"}
    BY <1>6 DEF Start, Run, SkipNode, RunNode, FailNode, EndPass, Ready
  <2>2. QED
    BY <2>1 DEF AcceptedFit
<1>7. QED
  BY <1>2, <1>3, <1>4, <1>5, <1>6 DEF Next
-----------------------------------------------------------------------------
\* The preflight.  In a plan that was reviewed every upload names its file, and
\* no output is without a name.
Reviewed(p) ==
    /\ \A s \in Steps(p) : p[s].out # ""
    /\ \A s \in Steps(p) : p[s].op \in Uploads =>
         DOMAIN p[s].inputs \subseteq {"upload_id"} /\ Given(p[s].params, "source_path") # ""

\* The file that an upload resolves to.
UploadFile(node, refs) ==
    IF node.op = "input.upload_raster" THEN RasterSource(node, refs) ELSE VectorSource(node, refs)

\* What is registered, is so under the outputs of some steps.
OutputsOf(p, steps, refs) == \A i \in DOMAIN refs : \E q \in steps : refs[i][1] = p[q].out

\* An upload reads the file it names, unless it is a vector whose upload_id
\* names what is registered.
LEMMA UploadResolves ==
  ASSUME NEW p, Reviewed(p), NEW s \in Steps(p), p[s].op \in Uploads, NEW refs,
         OutputsOf(p, Steps(p), refs)
  PROVE  LET node == p[s]
             id == Given(node.inputs, "upload_id")
             named == node.op # "input.upload_raster" /\ Named(refs, id) # {}
             file == IF named THEN FileOf(refs, id) ELSE FileAt(node.params["source_path"])
         IN  /\ UploadFile(node, refs) \in {file, NoFile}
             /\ node.op # "input.upload_raster" => UploadFile(node, refs) = IF file.ok THEN file ELSE NoFile
             /\ node.op = "input.upload_raster" =>
                  UploadFile(node, refs) = IF Supported(file) THEN file ELSE NoFile
<1> DEFINE node == p[s]
           id == Given(node.inputs, "upload_id")
           path == node.params["source_path"]
<1>1. DOMAIN node.inputs \subseteq {"upload_id"} /\ Given(node.params, "source_path") # ""
  BY DEF Reviewed
<1>2. "source_path" \in DOMAIN node.params /\ Given(node.params, "source_path") = path
  BY <1>1 DEF Given
<1> HIDE DEF path
<1>3. CASE node.op = "input.upload_raster"
  <2>1. Given(node.inputs, "raster") = ""
    BY <1>1 DEF Given
  <2>2. Named(refs, "") = {}
    BY DEF Named, OutputsOf, Reviewed
  <2>3. RasterSource(node, refs) = IF Supported(FileAt(path)) THEN FileAt(path) ELSE NoFile
    BY <1>1, <1>2, <2>1, <2>2 DEF RasterSource, path
  <2>4. QED
    BY <1>3, <2>3 DEF UploadFile, path
<1>4. CASE node.op = "input.upload_vector"
  <2> DEFINE keys == <<"source_path", "clip_path", "aoi_path", "vector_path">>
             given == {i \in 1..4 : Given(node.params, keys[i]) # ""}
  <2>1. 1 \in given /\ keys[1] = "source_path"
    <3>1. keys[1] = "source_path"
      OBVIOUS
    <3> HIDE DEF keys
    <3>2. Given(node.params, keys[1]) # ""
      BY <1>1, <3>1
    <3>3. 1 \in 1..4
      OBVIOUS
    <3>4. QED
      BY <3>1, <3>2, <3>3, Zenon
  <2>2. Min(given) = 1
    <3>1. \A i \in given : i \in 1..4
      OBVIOUS
    <3> HIDE DEF given
    <3>2. QED
      BY <2>1, <3>1 DEF Min
  <2>3. FileAt(node.params[keys[Min(given)]]) = FileAt(path)
    BY <2>1, <2>2 DEF path
  <2> DEFINE file == IF Named(refs, id) # {} THEN FileOf(refs, id) ELSE FileAt(path)
  <2>4. VectorSource(node, refs) = IF file.ok THEN file ELSE NoFile
    BY <2>1, <2>3 DEF VectorSource
  <2>5. node.op # "input.upload_raster"
    BY <1>4
  <2>6. QED
    BY <2>4, <2>5 DEF UploadFile, path
<1>5. QED
  BY <1>3, <1>4 DEF Uploads

\* An upload fails for want of a source if it resolves to none, and registers
\* what it resolves to.
LEMMA UploadRuns ==
  ASSUME NEW node, NEW refs, NEW s, node.op \in Uploads
  PROVE  /\ SourceMissing(node, refs) <=> UploadFile(node, refs) = NoFile
         /\ NodeMakes(s, node, refs) = UploadFile(node, refs)
<1>1. DOMAIN InputTypes(node.op) = {"upload_id"}
  BY DEF InputTypes, Takers, Uploads, RasterUnary, VectorUnary, VectorOverlay
<1>2. NodeReads(node, refs) = [key \in {"upload_id"} |-> FilesRead(node, refs, key)]
  BY <1>1 DEF NodeReads
<1>3. FilesRead(node, refs, "upload_id") = {UploadFile(node, refs)}
  BY DEF FilesRead, UploadFile
<1>4. DOMAIN NodeReads(node, refs) = {"upload_id"}
      /\ NodeReads(node, refs)["upload_id"] = {UploadFile(node, refs)}
  BY <1>2, <1>3
<1>5. SourceMissing(node, refs) <=> UploadFile(node, refs) = NoFile
  BY <1>4 DEF SourceMissing
<1>6. NodeMakes(s, node, refs) = UploadFile(node, refs)
  BY <1>4 DEF NodeMakes
<1>7. QED
  BY <1>5, <1>6

PathFiles(p) == {FileAt(p[s].params["source_path"]) : s \in {t \in Steps(p) : p[t].op \in Uploads}}

PreflightStates(p) ==
    {st \in [completed : SUBSET Steps(p),
             refs : Seq({p[s].out : s \in Steps(p)} \X PathFiles(p)),
             raised : BOOLEAN] :
        OutputsOf(p, st.completed, st.refs)}

\* Registering keeps a list of what is registered.
RegisteredIn(new, refs, ref, O, F) ==
    /\ new \in Seq(O \X F)
    /\ \A i \in DOMAIN new : new[i][1] = ref \/ (i \in DOMAIN refs /\ new[i][1] = refs[i][1])

LEMMA Registers ==
  ASSUME NEW O, NEW F, NEW refs \in Seq(O \X F), NEW ref \in O, NEW file \in F
  PROVE  RegisteredIn(Register(refs, ref, file), refs, ref, O, F)
<1> DEFINE n == Len(refs)
           new == Register(refs, ref, file)
<1>1. n \in Nat /\ DOMAIN refs = 1..n /\ refs \in [1..n -> O \X F] /\ <<ref, file>> \in O \X F
  OBVIOUS
<1>2. CASE Named(refs, ref) = {}
  <2>1. new = Append(refs, <<ref, file>>)
    BY <1>2 DEF Register
  <2>2. /\ new \in Seq(O \X F) /\ DOMAIN new = 1..n + 1
        /\ \A i \in 1..n : new[i] = refs[i]
        /\ new[n + 1] = <<ref, file>>
    BY <1>1, <2>1
  <2> HIDE DEF new
  <2>3. \A i \in 1..n + 1 : i \in 1..n \/ i = n + 1
    BY <1>1
  <2>4. <<ref, file>>[1] = ref
    OBVIOUS
  <2>5. QED
    BY <1>1, <2>2, <2>3, <2>4 DEF new, RegisteredIn
<1>3. CASE Named(refs, ref) # {}
  <2>1. new = [i \in 1..n |-> IF refs[i][1] = ref THEN <<ref, file>> ELSE refs[i]]
    BY <1>1, <1>3 DEF Register
  <2>2. DOMAIN new = 1..n /\ \A i \in 1..n : new[i] = IF refs[i][1] = ref THEN <<ref, file>> ELSE refs[i]
    BY <2>1
  <2>3. \A i \in 1..n : new[i] \in O \X F /\ (new[i][1] = ref \/ new[i][1] = refs[i][1])
    BY <1>1, <2>2
  <2>4. new \in [1..n -> O \X F]
    BY <2>1, <2>3
  <2> HIDE DEF new
  <2>5. new \in Seq(O \X F)
    BY <1>1, <2>4
  <2>6. QED
    BY <1>1, <2>2, <2>3, <2>5 DEF new, RegisteredIn
<1>4. QED
  BY <1>2, <1>3

\* One node of the preflight.
LEMMA PreflightGoes ==
  ASSUME NEW p, Reviewed(p), NEW st \in PreflightStates(p), NEW s \in Steps(p)
  PROVE  LET new == PreflightNode(p, st, s)
         IN  /\ new \in PreflightStates(p)
             /\ st.raised => new.raised
             /\ s \in st.completed \/ ~ ToSet(p[s].deps) \subseteq st.completed => new = st
             /\ ~ new.raised /\ s \notin st.completed /\ ToSet(p[s].deps) \subseteq st.completed =>
                  /\ new.completed = st.completed \cup {s}
                  /\ p[s].op \in Uploads => UploadFile(p[s], st.refs) # NoFile
<1> DEFINE node == p[s]
           new == PreflightNode(p, st, s)
           file == UploadFile(node, st.refs)
           O == {p[t].out : t \in Steps(p)}
<1>1. /\ st = [completed |-> st.completed, refs |-> st.refs, raised |-> st.raised]
      /\ st.completed \subseteq Steps(p) /\ st.refs \in Seq(O \X PathFiles(p)) /\ st.raised \in BOOLEAN
      /\ OutputsOf(p, st.completed, st.refs)
  BY DEF PreflightStates
<1>2. OutputsOf(p, Steps(p), st.refs)
  BY <1>1 DEF OutputsOf
<1>3. CASE st.raised \/ s \in st.completed \/ ~ ToSet(node.deps) \subseteq st.completed
  <2>1. new = st
    BY <1>3 DEF PreflightNode
  <2>2. QED
    BY <1>3, <2>1
<1>4. CASE ~ st.raised /\ s \notin st.completed /\ ToSet(node.deps) \subseteq st.completed
           /\ node.op \notin Uploads
  <2>1. new = [completed |-> st.completed \cup {s}, refs |-> st.refs, raised |-> st.raised]
    BY <1>1, <1>4 DEF PreflightNode
  <2> HIDE DEF new
  <2>2. OutputsOf(p, st.completed \cup {s}, st.refs)
    BY <1>1 DEF OutputsOf
  <2>3. new \in PreflightStates(p)
    BY <1>1, <2>1, <2>2 DEF PreflightStates
  <2>4. QED
    BY <1>4, <2>1, <2>3 DEF new
<1>5. CASE ~ st.raised /\ s \notin st.completed /\ ToSet(node.deps) \subseteq st.completed
           /\ node.op \in Uploads /\ file = NoFile
  <2>1. new = [completed |-> st.completed, refs |-> st.refs, raised |-> TRUE]
    BY <1>1, <1>5 DEF PreflightNode, UploadFile
  <2> HIDE DEF new
  <2>2. new \in PreflightStates(p)
    BY <1>1, <2>1 DEF PreflightStates
  <2>3. QED
    BY <1>5, <2>1, <2>2 DEF new
<1>6. CASE ~ st.raised /\ s \notin st.completed /\ ToSet(node.deps) \subseteq st.completed
           /\ node.op \in Uploads /\ file # NoFile
  <2> DEFINE refs == Register(st.refs, node.out, file)
  <2>1. new = [completed |-> st.completed \cup {s}, refs |-> refs, raised |-> st.raised]
    BY <1>1, <1>6 DEF PreflightNode, UploadFile
  <2>2. file \in PathFiles(p)
    <3>1. FileAt(node.params["source_path"]) \in PathFiles(p)
      BY <1>6 DEF PathFiles
    <3> DEFINE id == Given(node.inputs, "upload_id")
    <3>2. ASSUME Named(st.refs, id) # {} PROVE FileOf(st.refs, id) \in PathFiles(p)
      <4>1. PICK i \in Named(st.refs, id) : FileOf(st.refs, id) = st.refs[i][2]
        BY <3>2 DEF FileOf
      <4>2. i \in DOMAIN st.refs
        BY DEF Named
      <4> DEFINE e == st.refs[i]
      <4>3. e \in O \X PathFiles(p)
        BY <1>1, <4>2
      <4>4. QED
        BY <4>1, <4>3
    <3>3. file \in {FileOf(st.refs, id), FileAt(node.params["source_path"]), NoFile}
          /\ (Named(st.refs, id) = {} => file \in {FileAt(node.params["source_path"]), NoFile})
      BY <1>2, <1>6, UploadResolves
    <3> HIDE DEF file, id
    <3>4. QED
      BY <1>6, <3>1, <3>2, <3>3
  <2>3. node.out \in O
    OBVIOUS
  <2> HIDE DEF file, O
  <2>4. RegisteredIn(refs, st.refs, node.out, O, PathFiles(p))
    BY <1>1, <2>2, <2>3, Registers
  <2> HIDE DEF refs, new
  <2>5. OutputsOf(p, st.completed \cup {s}, refs)
    BY <1>1, <2>4 DEF OutputsOf, RegisteredIn
  <2>6. new \in PreflightStates(p)
    BY <1>1, <2>1, <2>4, <2>5 DEF PreflightStates, O, RegisteredIn
  <2>7. QED
    BY <1>6, <2>1, <2>6 DEF new, file
<1>7. QED
  BY <1>1, <1>3, <1>4, <1>5, <1>6

\* The states of a pass,
LEMMA PassGoes ==
  ASSUME NEW p, IsSeq(p), Reviewed(p), NEW st \in PreflightStates(p)
  PROVE  LET f == PreflightPass(p, st)
         IN  /\ f \in [0..Len(p) -> PreflightStates(p)]
             /\ f[0] = st
             /\ \A s \in 1..Len(p) : f[s] = PreflightNode(p, f[s - 1], s)
<1> DEFINE N == Len(p)
           T == PreflightStates(p)
           g == [s \in 1..N |-> [x \in T |-> PreflightNode(p, x, s)]]
           Rec(f) == f = [s \in 0..N |-> IF s = 0 THEN st ELSE PreflightNode(p, f[s - 1], s)]
<1>1. N \in Nat /\ Steps(p) = 1..N
  BY StepsFinite
<1>2. \A s \in 1..N : \A x \in T : PreflightNode(p, x, s) \in T
  BY <1>1, PreflightGoes
<1> HIDE DEF N
<1>3. g \in [1..N -> [T -> T]]
  <2>1. \A s \in 1..N : [x \in T |-> PreflightNode(p, x, s)] \in [T -> T]
    BY <1>2
  <2>2. QED
    BY <2>1
<1> HIDE DEF T, g
<1>4. st \in T
  BY DEF T
<1>5. PICK f : IteratedIn(f, N, T, g, st)
  BY <1>1, <1>3, <1>4, IteratesIn
<1>6. /\ f = [s \in 0..N |-> f[s]] /\ f[0] = st
      /\ \A s \in 1..N : f[s - 1] \in T /\ f[s] = g[s][f[s - 1]]
  BY <1>1, <1>5 DEF IteratedIn
<1>7. \A s \in 0..N : f[s] = IF s = 0 THEN st ELSE PreflightNode(p, f[s - 1], s)
  <2>1. ASSUME NEW s \in 0..N, s # 0 PROVE f[s] = PreflightNode(p, f[s - 1], s)
    <3>1. s \in 1..N
      BY <1>1, <2>1
    <3>2. QED
      BY <1>6, <3>1 DEF g
  <2>2. QED
    BY <1>6, <2>1
<1>8. Rec(f)
  BY <1>6, <1>7
<1> DEFINE after == CHOOSE h : Rec(h)
<1>9. Rec(after)
  BY <1>8
<1>10. PreflightPass(p, st) = after
  BY DEF PreflightPass, N
<1> HIDE DEF after
<1>11. \A s \in 0..N : after[s] = IF s = 0 THEN st ELSE PreflightNode(p, after[s - 1], s)
  BY <1>9
<1>12. after[0] = st /\ \A s \in 1..N : after[s] = PreflightNode(p, after[s - 1], s)
  <2>1. 0 \in 0..N /\ \A s \in 1..N : s \in 0..N /\ s # 0
    BY <1>1
  <2>2. QED
    BY <1>11, <2>1
<1> DEFINE P == {s \in 0..N : after[s] \in T}
<1>13. 0..N \subseteq P
  <2>1. 0 \in P
    BY <1>1, <1>4, <1>12
  <2>2. \A s \in 1..N : s - 1 \in P => s \in P
    BY <1>1, <1>2, <1>12 DEF T
  <2> HIDE DEF P
  <2>3. QED
    BY <1>1, <2>1, <2>2, Counting
<1>14. after \in [0..N -> T]
  BY <1>9, <1>13
<1>15. QED
  BY <1>10, <1>12, <1>14 DEF N, T

\* what is raised stays so to the end of the pass,
LEMMA RaisedStays ==
  ASSUME NEW p, IsSeq(p), Reviewed(p), NEW st \in PreflightStates(p), NEW m \in 0..Len(p),
         PreflightPass(p, st)[m].raised
  PROVE  PreflightPass(p, st)[Len(p)].raised
<1> DEFINE f == PreflightPass(p, st)
           N == Len(p)
           P == {s \in 0..N : f[s].raised}
<1>1. N \in Nat /\ Steps(p) = 1..N
  BY StepsFinite
<1>2. f \in [0..N -> PreflightStates(p)] /\ \A s \in 1..N : f[s] = PreflightNode(p, f[s - 1], s)
  BY PassGoes
<1> HIDE DEF f
<1>3. \A s \in m + 1..N : s - 1 \in P => s \in P
  <2> SUFFICES ASSUME NEW s \in m + 1..N, s - 1 \in P PROVE f[s].raised
    BY <1>1
  <2>1. s \in 1..N /\ s - 1 \in 0..N /\ f[s - 1].raised
    BY <1>1
  <2>2. f[s - 1] \in PreflightStates(p) /\ s \in Steps(p) /\ f[s] = PreflightNode(p, f[s - 1], s)
    BY <1>1, <1>2, <2>1
  <2>3. QED
    BY <2>1, <2>2, PreflightGoes
<1>4. m \in P /\ m \in Nat /\ m <= N
  BY <1>1 DEF f
<1> HIDE DEF P
<1>5. m..N \subseteq P
  BY <1>1, <1>3, <1>4, CountingFrom
<1>6. N \in P
  BY <1>1, <1>4, <1>5
<1>7. QED
  BY <1>6 DEF P, f

\* and a state stays over the steps that are done.
LEMMA Unmoved ==
  ASSUME NEW p, IsSeq(p), Reviewed(p), NEW st \in PreflightStates(p),
         NEW m \in 0..Len(p), NEW h \in m..Len(p),
         \A s \in m + 1..h : s \in PreflightPass(p, st)[m].completed
  PROVE  PreflightPass(p, st)[h] = PreflightPass(p, st)[m]
<1> DEFINE f == PreflightPass(p, st)
           N == Len(p)
           P == {s \in 0..N : f[s] = f[m]}
<1>1. N \in Nat /\ Steps(p) = 1..N
  BY StepsFinite
<1>2. f \in [0..N -> PreflightStates(p)] /\ \A s \in 1..N : f[s] = PreflightNode(p, f[s - 1], s)
  BY PassGoes
<1>3. \A s \in m + 1..h : s \in f[m].completed
  OBVIOUS
<1> HIDE DEF f
<1>4. \A s \in m + 1..h : s - 1 \in P => s \in P
  <2> SUFFICES ASSUME NEW s \in m + 1..h, s - 1 \in P PROVE s \in 0..N /\ f[s] = f[m]
    OBVIOUS
  <2>1. s \in 1..N /\ s - 1 \in 0..N /\ f[s - 1] = f[m]
    BY <1>1
  <2>2. /\ f[s - 1] \in PreflightStates(p) /\ s \in Steps(p) /\ f[s] = PreflightNode(p, f[s - 1], s)
        /\ s \in f[s - 1].completed
    BY <1>1, <1>2, <1>3, <2>1
  <2>3. f[s] = f[s - 1]
    BY <2>2, PreflightGoes
  <2>4. QED
    BY <1>1, <2>1, <2>3
<1>5. m \in P /\ m \in Nat /\ h \in Nat /\ m <= h
  BY <1>1
<1> HIDE DEF P
<1>6. m..h \subseteq P
  BY <1>4, <1>5, CountingFrom
<1>7. h \in P
  BY <1>5, <1>6
<1>8. QED
  BY <1>7 DEF P, f

\* The passes follow one another.
LEMMA PassesGo ==
  ASSUME NEW p, IsSeq(p), Reviewed(p)
  PROVE  LET g == PreflightPasses(p)
         IN  /\ g \in [0..Len(p) -> PreflightStates(p)]
             /\ g[0] = [completed |-> {}, refs |-> <<>>, raised |-> FALSE]
             /\ \A n \in 1..Len(p) : g[n] = PreflightPass(p, g[n - 1])[Len(p)]
<1> DEFINE N == Len(p)
           T == PreflightStates(p)
           init == [completed |-> {}, refs |-> <<>>, raised |-> FALSE]
           step == [x \in T |-> PreflightPass(p, x)[N]]
           g == [n \in 1..N |-> step]
           Rec(f) == f = [n \in 0..N |-> IF n = 0 THEN init ELSE PreflightPass(p, f[n - 1])[N]]
<1>1. N \in Nat
  BY StepsFinite
<1>2. \A x \in T : PreflightPass(p, x)[N] \in T
  <2> SUFFICES ASSUME NEW x \in T PROVE PreflightPass(p, x)[N] \in T
    OBVIOUS
  <2>1. PreflightPass(p, x) \in [0..N -> T]
    BY PassGoes
  <2>2. QED
    BY <1>1, <2>1
<1> HIDE DEF N
<1>3. init \in T
  <2>1. init \in [completed : SUBSET Steps(p),
                  refs : Seq({p[s].out : s \in Steps(p)} \X PathFiles(p)), raised : BOOLEAN]
    OBVIOUS
  <2>2. OutputsOf(p, init.completed, init.refs)
    BY DEF OutputsOf
  <2>3. QED
    BY <2>1, <2>2 DEF PreflightStates
<1> HIDE DEF T, init
<1>4. step \in [T -> T]
  BY <1>2
<1> HIDE DEF step
<1>5. g \in [1..N -> [T -> T]]
  BY <1>4
<1> HIDE DEF g
<1>6. PICK f : IteratedIn(f, N, T, g, init)
  BY <1>1, <1>3, <1>5, IteratesIn
<1>7. /\ f = [n \in 0..N |-> f[n]] /\ f[0] = init
      /\ \A n \in 1..N : f[n - 1] \in T /\ f[n] = g[n][f[n - 1]]
  BY <1>1, <1>6 DEF IteratedIn
<1>8. \A n \in 0..N : f[n] = IF n = 0 THEN init ELSE PreflightPass(p, f[n - 1])[N]
  <2>1. ASSUME NEW n \in 0..N, n # 0 PROVE f[n] = PreflightPass(p, f[n - 1])[N]
    <3>1. n \in 1..N
      BY <1>1, <2>1
    <3>2. f[n - 1] \in T /\ f[n] = step[f[n - 1]]
      BY <1>7, <3>1 DEF g
    <3>3. QED
      BY <3>2 DEF step
  <2>2. QED
    BY <1>7, <2>1
<1>9. Rec(f)
  BY <1>7, <1>8
<1> DEFINE after == CHOOSE h : Rec(h)
<1>10. Rec(after)
  BY <1>9
<1>11. PreflightPasses(p) = after
  BY DEF PreflightPasses, N, init
<1> HIDE DEF after
<1>12. \A n \in 0..N : after[n] = IF n = 0 THEN init ELSE PreflightPass(p, after[n - 1])[N]
  BY <1>10
<1>13. after[0] = init /\ \A n \in 1..N : after[n] = PreflightPass(p, after[n - 1])[N]
  <2>1. 0 \in 0..N /\ \A n \in 1..N : n \in 0..N /\ n # 0
    BY <1>1
  <2>2. QED
    BY <1>12, <2>1
<1> DEFINE P == {n \in 0..N : after[n] \in T}
<1>14. 0..N \subseteq P
  <2>1. 0 \in P
    BY <1>1, <1>3, <1>13
  <2>2. \A n \in 1..N : n - 1 \in P => n \in P
    BY <1>1, <1>2, <1>13
  <2> HIDE DEF P
  <2>3. QED
    BY <1>1, <2>1, <2>2, Counting
<1>15. after \in [0..N -> T]
  BY <1>10, <1>14
<1>16. QED
  BY <1>11, <1>13, <1>15 DEF N, T, init

\* The state of the n-th pass behind step m.
PreflightAt(p, n, m) == PreflightPass(p, PreflightPasses(p)[n])[m]

\* A preflight that lets a plan through never raised, and ends with all steps.
LEMMA PreflightRan ==
  ASSUME NEW p, IsSeq(p), Reviewed(p), PreflightOk(p), NEW n \in 0..Len(p) - 1
  PROVE  /\ PreflightPasses(p)[n] \in PreflightStates(p)
         /\ \A m \in 0..Len(p) : PreflightAt(p, n, m) \in PreflightStates(p) /\ ~ PreflightAt(p, n, m).raised
         /\ \A m \in 1..Len(p) : PreflightAt(p, n, m) = PreflightNode(p, PreflightAt(p, n, m - 1), m)
         /\ PreflightAt(p, n, 0) = PreflightPasses(p)[n]
         /\ PreflightAt(p, n, Len(p)) = PreflightPasses(p)[n + 1]
         /\ n + 1 = Len(p) => PreflightAt(p, n, Len(p)).completed = Steps(p)
<1> DEFINE g == PreflightPasses(p)
           N == Len(p)
           f == PreflightPass(p, g[n])
<1>1. N \in Nat
  BY StepsFinite
<1>2. /\ g \in [0..N -> PreflightStates(p)]
      /\ \A k \in 1..N : g[k] = PreflightPass(p, g[k - 1])[N]
  BY PassesGo
<1>3. ~ g[N].raised /\ g[N].completed = Steps(p)
  BY DEF PreflightOk
<1> HIDE DEF g
<1>4. n \in 0..N /\ n + 1 \in 1..N /\ n + 1 - 1 = n
  BY <1>1
<1>5. g[n] \in PreflightStates(p) /\ g[n + 1] = f[N]
  <2>1. g[n] \in PreflightStates(p)
    BY <1>2, <1>4
  <2>2. g[n + 1] = PreflightPass(p, g[n + 1 - 1])[N]
    BY <1>2, <1>4
  <2>3. QED
    BY <1>4, <2>1, <2>2
<1>6. /\ f \in [0..N -> PreflightStates(p)] /\ f[0] = g[n]
      /\ \A s \in 1..N : f[s] = PreflightNode(p, f[s - 1], s)
  BY <1>5, PassGoes
<1>7. ASSUME NEW m \in 0..N, f[m].raised PROVE FALSE
  <2> DEFINE P == {k \in 0..N : g[k].raised}
  <2>1. n + 1 \in P
    BY <1>4, <1>5, <1>7, RaisedStays
  <2>2. ASSUME NEW k \in n + 2..N, k - 1 \in P PROVE k \in P
    <3>1. k \in 1..N /\ k - 1 \in 0..N /\ g[k - 1].raised /\ 0 \in 0..N
      BY <1>1, <2>2
    <3>2. g[k - 1] \in PreflightStates(p) /\ g[k] = PreflightPass(p, g[k - 1])[N]
      BY <1>2, <3>1
    <3>3. PreflightPass(p, g[k - 1])[0] = g[k - 1]
      BY <3>2, PassGoes
    <3>4. g[k].raised
      BY <3>1, <3>2, <3>3, RaisedStays
    <3>5. QED
      BY <3>1, <3>4
  <2> HIDE DEF P
  <2>3. n + 1 \in Nat /\ n + 1 <= N /\ n + 1 + 1 = n + 2
    BY <1>1
  <2>4. n + 1..N \subseteq P
    BY <1>1, <2>1, <2>2, <2>3, CountingFrom
  <2>5. N \in P
    BY <1>1, <2>3, <2>4
  <2>6. QED
    BY <1>3, <2>5 DEF P
<1> HIDE DEF f
<1>8. QED
  BY <1>3, <1>5, <1>6, <1>7 DEF PreflightAt, g, f
-----------------------------------------------------------------------------
\* The run and the preflight go through the plan side by side: when the run
\* stands behind step m of its pass n, the preflight had completed the same
\* steps there.
Aligned(n, m) ==
    /\ PreflightAt(plan, n, m).completed = completed
    /\ ToSet(visiting) = {s \in Steps(plan) \ completed : s > m}

MadeOk == \A s \in completed : made[s].ok

ReviewInv ==
    /\ phase \in {"planning", "draft", "refused"} => ~ preflighted
    /\ preflighted => Reviewed(plan) /\ PreflightOk(plan)
    /\ phase = "running" => Sorted(pending) /\ Sorted(visiting)
    /\ phase = "running" /\ preflighted =>
         \E n \in 0..Len(plan) - 1, m \in 0..Len(plan) : Aligned(n, m)
    /\ MadeOk
    /\ PreflightHolds

\* What the guard accepts is reviewed.
LEMMA ValidReviewed ==
  ASSUME IsSeq(plan), ListsAreSeqs(plan), ValidPlan(plan)
  PROVE  Reviewed(plan)
<1> DEFINE order == TopologicalSort(plan)
<1>1. KnownDependencies(plan) /\ ~ DetectCycle(plan) /\ IoChainOk(plan)
  BY DEF ValidPlan
<1>2. Listed(plan)
  BY <1>1 DEF Listed, ListsAreSeqs, KnownDependencies
<1>3. ToSet(order) = Steps(plan)
  BY <1>1, <1>2, WalkFinds, SortOrders
<1>4. \A i \in DOMAIN order : \E produced : NodeOk(plan[order[i]], produced)
  BY <1>1 DEF IoChainOk
<1> HIDE DEF order
<1>5. ASSUME NEW s \in Steps(plan) PROVE \E produced : NodeOk(plan[s], produced)
  BY <1>3, <1>4 DEF ToSet
<1>6. Strip("") = ""
  BY DEF Strip
<1>7. ASSUME NEW s \in Steps(plan) PROVE plan[s].out # ""
  BY <1>5, <1>6 DEF NodeOk
<1>8. ASSUME NEW s \in Steps(plan), plan[s].op \in Uploads
      PROVE  DOMAIN plan[s].inputs \subseteq {"upload_id"} /\ Given(plan[s].params, "source_path") # ""
  <2>1. DOMAIN InputTypes(plan[s].op) = {"upload_id"}
    BY <1>8 DEF InputTypes, Takers, Uploads, RasterUnary, VectorUnary, VectorOverlay
  <2>2. "source_path" \in RequiredParams(plan[s].op)
    BY <1>8 DEF RequiredParams
  <2>3. QED
    BY <1>5, <2>1, <2>2 DEF NodeOk
<1>9. QED
  BY <1>7, <1>8 DEF Reviewed

\* What is registered when a node runs, is so under the outputs of steps.
LEMMA RefsAreOutputs ==
  ASSUME RefsInv, completed \subseteq Steps(plan)
  PROVE  OutputsOf(plan, Steps(plan), references)
<1> SUFFICES ASSUME NEW i \in DOMAIN references PROVE \E q \in Steps(plan) : references[i][1] = plan[q].out
  BY DEF OutputsOf
<1>1. PICK q \in completed : references[i] = <<plan[q].out, made[q]>>
  BY DEF RefsInv
<1>2. QED
  BY <1>1

\* An upload that the preflight resolved resolves when the same steps have
\* completed: what it names may be another file by then, but one that is there.
LEMMA UploadFound ==
  ASSUME RefsInv, MadeOk, PlanFits(plan), Reviewed(plan), completed \subseteq Steps(plan),
         NEW s \in Steps(plan), plan[s].op \in Uploads,
         NEW refs, OutputsOf(plan, completed, refs), UploadFile(plan[s], refs) # NoFile
  PROVE  UploadFile(plan[s], references) # NoFile
<1> DEFINE node == plan[s]
           id == Given(node.inputs, "upload_id")
<1>1. OutputsOf(plan, Steps(plan), references) /\ OutputsOf(plan, Steps(plan), refs)
  BY RefsAreOutputs DEF OutputsOf
<1>2. CASE node.op = "input.upload_raster"
  BY <1>1, <1>2, UploadResolves
<1>3. CASE node.op # "input.upload_raster" /\ Named(references, id) # {}
  <2>1. PICK i \in DOMAIN references : references[i][1] = id
    BY <1>3 DEF Named
  <2>2. PICK q \in completed : references[i] = <<plan[q].out, made[q]>>
    BY DEF RefsInv
  <2>3. id = plan[q].out
    BY <2>1, <2>2
  <2>4. FileOf(references, id) = made[q] /\ made[q].ok
    BY <2>3, NamedIs DEF PlanFits, MadeOk
  <2>5. UploadFile(node, references) = made[q]
    BY <1>1, <1>3, <2>4, UploadResolves
  <2>6. QED
    BY <2>4, <2>5 DEF NoFile
<1>4. CASE node.op # "input.upload_raster" /\ Named(references, id) = {}
  <2>1. Named(refs, id) = {}
    <3> SUFFICES ASSUME NEW i \in Named(refs, id) PROVE FALSE
      OBVIOUS
    <3>1. PICK q \in completed : id = plan[q].out
      BY DEF Named, OutputsOf
    <3>2. Named(references, id) # {}
      BY <3>1, NamedIs DEF PlanFits
    <3>3. QED
      BY <1>4, <3>2
  <2>2. UploadFile(node, references) = UploadFile(node, refs)
    BY <1>1, <1>4, <2>1, UploadResolves
  <2>3. QED
    BY <2>2
<1>5. QED
  BY <1>2, <1>3, <1>4

\* The step at the head of a pass, in the preflight.
LEMMA HeadAligned ==
  ASSUME RunInv, phase = "running", visiting # <<>>, Sorted(visiting),
         Reviewed(plan), PreflightOk(plan),
         NEW n \in 0..Len(plan) - 1, NEW m \in 0..Len(plan), Aligned(n, m)
  PROVE  LET h == Head(visiting)
             st == PreflightAt(plan, n, h - 1)
             new == PreflightAt(plan, n, h)
         IN  /\ h \in 1..Len(plan) /\ h \in Steps(plan) \ completed
             /\ st \in PreflightStates(plan) /\ st.completed = completed
             /\ new = PreflightNode(plan, st, h) /\ ~ new.raised
             /\ ToSet(Tail(visiting)) = {s \in Steps(plan) \ completed : s > h}
<1> DEFINE h == Head(visiting)
           st == PreflightAt(plan, n, h - 1)
           new == PreflightAt(plan, n, h)
           g == PreflightPasses(plan)[n]
<1>1. IsSeq(plan) /\ Len(plan) \in Nat /\ Steps(plan) = 1..Len(plan)
  BY StepsFinite DEF RunInv, PlanInv
<1>2. visiting \in Seq(Steps(plan)) /\ Distinct(visiting)
  BY DEF RunInv, PassInv
<1>3. h \in Steps(plan) \ completed /\ ToSet(Tail(visiting)) = ToSet(visiting) \ {h}
  BY HeadOfPass
<1>4. h \in ToSet(visiting) /\ \A y \in ToSet(Tail(visiting)) : h < y
  BY <1>2, TailShape, TailSorted
<1>5. ToSet(visiting) = {s \in Steps(plan) \ completed : s > m}
  BY DEF Aligned
<1> HIDE DEF h
<1>6. h \in 1..Len(plan) /\ h > m /\ h - 1 \in m..Len(plan) /\ h - 1 \in 0..Len(plan)
  BY <1>1, <1>3, <1>4, <1>5
<1>7. ToSet(Tail(visiting)) = {s \in Steps(plan) \ completed : s > h}
  <2>1. ASSUME NEW s \in Steps(plan) \ completed PROVE s \in ToSet(Tail(visiting)) <=> s > h
    <3>1. s \in Int /\ h \in Int /\ m \in Int
      BY <1>1, <1>6
    <3>2. s \in ToSet(Tail(visiting)) => h < s
      BY <1>4
    <3>3. s > h => s > m /\ s # h
      BY <1>6, <3>1
    <3>4. s > h => s \in ToSet(Tail(visiting))
      BY <1>3, <1>5, <3>3
    <3>5. QED
      BY <3>1, <3>2, <3>4
  <2>2. ToSet(Tail(visiting)) \subseteq Steps(plan) \ completed
    BY <1>3, <1>5
  <2>3. QED
    BY <2>1, <2>2
<1>8. \A s \in m + 1..h - 1 : s \in completed
  <2> SUFFICES ASSUME NEW s \in m + 1..h - 1, s \notin completed PROVE FALSE
    OBVIOUS
  <2>1. s \in Steps(plan) /\ s > m /\ ~ (h < s) /\ s # h
    BY <1>1, <1>6
  <2>2. s \in ToSet(Tail(visiting))
    BY <1>3, <1>5, <2>1
  <2>3. QED
    BY <1>4, <2>1, <2>2
<1>9. g \in PreflightStates(plan) /\ \A s \in m + 1..h - 1 : s \in PreflightPass(plan, g)[m].completed
  BY <1>1, <1>8, PreflightRan DEF Aligned, PreflightAt
<1> HIDE DEF g
<1>10. PreflightPass(plan, g)[h - 1] = PreflightPass(plan, g)[m]
  BY <1>1, <1>6, <1>9, Unmoved
<1>11. st.completed = completed
  BY <1>10 DEF Aligned, PreflightAt, g
<1>12. st \in PreflightStates(plan) /\ new = PreflightNode(plan, st, h) /\ ~ new.raised
  <2>1. h \in 0..Len(plan)
    BY <1>6
  <2>2. QED
    BY <1>1, <1>6, <2>1, PreflightRan
<1>13. QED
  BY <1>3, <1>6, <1>7, <1>11, <1>12 DEF h

\* When a node waits or runs, both go on by that node,
LEMMA NodeAligns ==
  ASSUME RunInv, Sorted(visiting), Reviewed(plan), PreflightOk(plan), SkipNode \/ RunNode,
         NEW n \in 0..Len(plan) - 1, NEW m \in 0..Len(plan), Aligned(n, m)
  PROVE  \E k \in 0..Len(plan) : Aligned(n, k)'
<1>1. PICK h : h = Head(visiting)
  OBVIOUS
<1> DEFINE st == PreflightAt(plan, n, h - 1)
<1>2. phase = "running" /\ visiting # <<>> /\ plan' = plan /\ visiting' = Tail(visiting)
  BY DEF SkipNode, RunNode, Ready
<1>3. /\ h \in 1..Len(plan) /\ h \in Steps(plan) \ completed
      /\ st \in PreflightStates(plan) /\ st.completed = completed
      /\ PreflightAt(plan, n, h) = PreflightNode(plan, st, h)
      /\ ~ PreflightAt(plan, n, h).raised
      /\ ToSet(Tail(visiting)) = {s \in Steps(plan) \ completed : s > h}
  BY <1>1, <1>2, HeadAligned
<1>4. CASE SkipNode
  <2>1. completed' = completed /\ ~ ToSet(plan[h].deps) \subseteq completed
    BY <1>1, <1>4 DEF SkipNode
  <2> HIDE DEF st
  <2>2. PreflightAt(plan, n, h) = st
    BY <1>3, <2>1, PreflightGoes
  <2>3. Aligned(n, h)'
    BY <1>2, <1>3, <2>1, <2>2 DEF Aligned
  <2>4. h \in 0..Len(plan)
    BY <1>3
  <2>5. QED
    BY <2>3, <2>4
<1>5. CASE RunNode
  <2>1. completed' = completed \cup {h} /\ ToSet(plan[h].deps) \subseteq completed
    BY <1>1, <1>5 DEF RunNode, Ready
  <2> HIDE DEF st
  <2>2. PreflightAt(plan, n, h).completed = completed \cup {h}
    BY <1>3, <2>1, PreflightGoes
  <2>3. {s \in Steps(plan) \ completed : s > h} = {s \in Steps(plan) \ (completed \cup {h}) : s > h}
    BY <1>3
  <2>4. Aligned(n, h)'
    BY <1>2, <1>3, <2>1, <2>2, <2>3 DEF Aligned
  <2>5. h \in 0..Len(plan)
    BY <1>3
  <2>6. QED
    BY <2>4, <2>5
<1>6. QED
  BY <1>4, <1>5

\* and they end a pass together.
LEMMA PassAligns ==
  ASSUME RunInv, Reviewed(plan), PreflightOk(plan), EndPass, phase' = "running",
         NEW n \in 0..Len(plan) - 1, NEW m \in 0..Len(plan), Aligned(n, m)
  PROVE  n + 1 \in 0..Len(plan) - 1 /\ Aligned(n + 1, 0)'
<1> DEFINE N == Len(plan)
           g == PreflightPasses(plan)[n]
<1>1. IsSeq(plan) /\ N \in Nat /\ Steps(plan) = 1..N
  BY StepsFinite DEF RunInv, PlanInv
<1>2. /\ phase = "running" /\ visiting = <<>> /\ visiting' = pending /\ pending # <<>>
      /\ plan' = plan /\ completed' = completed
  BY DEF EndPass
<1>3. ToSet(pending) = Steps(plan) \ completed /\ pending \in Seq(Steps(plan))
  BY <1>2 DEF RunInv, PassInv
<1>4. \A s \in m + 1..N : s \in completed
  <2>1. ToSet(visiting) = {}
    BY <1>2 DEF ToSet
  <2>2. \A s \in m + 1..N : s \in Steps(plan) /\ s > m
    BY <1>1
  <2>3. QED
    BY <2>1, <2>2 DEF Aligned
<1>5. g \in PreflightStates(plan) /\ \A s \in m + 1..N : s \in PreflightPass(plan, g)[m].completed
  BY <1>1, <1>4, PreflightRan DEF Aligned, PreflightAt
<1>6. N \in m..N
  BY <1>1
<1> HIDE DEF g
<1>7. PreflightPass(plan, g)[N] = PreflightPass(plan, g)[m]
  BY <1>1, <1>5, <1>6, Unmoved
<1>8. PreflightAt(plan, n, N).completed = completed
  BY <1>7 DEF Aligned, PreflightAt, g
<1>9. n + 1 # N
  <2>1. ToSet(pending) # {}
    BY <1>2, <1>3 DEF ToSet
  <2>2. QED
    BY <1>1, <1>3, <1>8, <2>1, PreflightRan
<1>10. n + 1 \in 0..N - 1
  BY <1>1, <1>9
<1>11. PreflightAt(plan, n + 1, 0) = PreflightAt(plan, n, N)
  <2>1. PreflightAt(plan, n + 1, 0) = PreflightPasses(plan)[n + 1]
    BY <1>1, <1>10, PreflightRan
  <2>2. PreflightAt(plan, n, N) = PreflightPasses(plan)[n + 1]
    BY <1>1, PreflightRan
  <2>3. QED
    BY <2>1, <2>2
<1>12. ToSet(pending) = {s \in Steps(plan) \ completed : s > 0}
  BY <1>1, <1>3
<1>13. Aligned(n + 1, 0)'
  BY <1>2, <1>8, <1>11, <1>12 DEF Aligned
<1>14. QED
  BY <1>10, <1>13

\* So do they begin.
LEMMA StartAligns ==
  ASSUME IsSeq(plan), Start, phase' = "running", completed = {}, Reviewed(plan), PreflightOk(plan)
  PROVE  0 \in 0..Len(plan) - 1 /\ Aligned(0, 0)'
<1>1. Len(plan) \in Nat /\ Steps(plan) = 1..Len(plan)
  BY StepsFinite
<1>2. plan # <<>> /\ plan' = plan /\ completed' = {} /\ visiting' = [s \in Steps(plan) |-> s]
  BY DEF Start
<1>3. 0 \in 0..Len(plan) - 1
  BY <1>1, <1>2 DEF IsSeq
<1>4. PreflightAt(plan, 0, 0) = PreflightPasses(plan)[0]
  BY <1>3, PreflightRan
<1>5. PreflightPasses(plan)[0].completed = {}
  BY PassesGo
<1>6. ToSet(visiting') = {s \in Steps(plan) \ {} : s > 0}
  BY <1>1, <1>2 DEF ToSet
<1>7. Aligned(0, 0)'
  BY <1>2, <1>4, <1>5, <1>6 DEF Aligned
<1>8. QED
  BY <1>3, <1>7

\* Before a run starts,
LEMMA ReviewFresh ==
  ASSUME completed' = {}, phase' \notin {"running", "source missing"},
         phase' \in {"planning", "draft", "refused"} => ~ preflighted',
         preflighted' => Reviewed(plan') /\ PreflightOk(plan')
  PROVE  ReviewInv'
BY DEF ReviewInv, MadeOk, PreflightHolds

LEMMA ReviewPrepared ==
  ASSUME RunInv, ReviewInv, Next, phase \in Idle, phase' # "running"
  PROVE  ReviewInv'
<1>1. completed = {} /\ IsSeq(plan) /\ ListsAreSeqs(plan)
  BY DEF RunInv, PlanInv
<1>2. /\ phase \in {"planning", "draft", "refused"} => ~ preflighted
      /\ preflighted => Reviewed(plan) /\ PreflightOk(plan)
  BY DEF ReviewInv
<1>3. CASE Hand \/ Build
  <2>1. phase' = "draft" /\ ~ preflighted' /\ completed' = {}
    BY <1>1, <1>2, <1>3 DEF Hand, Build, runVars
  <2>2. QED
    BY <2>1, ReviewFresh
<1>4. CASE Approve
  <2>1. /\ phase' \in {"ready", "refused"} /\ preflighted' = (phase' = "ready")
        /\ phase' = "ready" => ValidPlan(plan) /\ PreflightOk(plan)
        /\ completed' = {} /\ plan' = plan
    BY <1>1, <1>4 DEF Approve, runVars
  <2>2. preflighted' => Reviewed(plan') /\ PreflightOk(plan')
    BY <1>1, <2>1, ValidReviewed
  <2>3. QED
    BY <2>1, <2>2, ReviewFresh
<1>5. CASE TakeUnreviewed
  <2>1. phase' \in {"ready", "refused"} /\ ~ preflighted' /\ completed' = {}
    BY <1>1, <1>2, <1>5 DEF TakeUnreviewed, runVars
  <2>2. QED
    BY <2>1, ReviewFresh
<1>6. CASE Start
  <2>1. phase' = "tool failed" /\ completed' = {} /\ UNCHANGED <<plan, preflighted>>
    BY <1>1, <1>6 DEF Start, runVars
  <2>2. QED
    BY <1>2, <2>1, ReviewFresh
<1>7. CASE Run
  BY <1>7 DEF Run, SkipNode, RunNode, FailNode, EndPass, Ready, Idle
<1>8. QED
  BY <1>3, <1>4, <1>5, <1>6, <1>7 DEF Next

\* when it starts,
LEMMA ReviewStart ==
  ASSUME RunInv, ReviewInv, Start, phase' = "running"
  PROVE  ReviewInv'
<1>1. completed = {} /\ IsSeq(plan)
  BY DEF RunInv, PlanInv, Start, Idle
<1>2. /\ UNCHANGED <<plan, preflighted>> /\ completed' = {}
      /\ pending' = [s \in Steps(plan) |-> s] /\ visiting' = pending'
  BY <1>1 DEF Start
<1>3. Sorted(pending') /\ Sorted(visiting')
  BY <1>2 DEF Sorted
<1>4. preflighted => Reviewed(plan) /\ PreflightOk(plan)
  BY DEF ReviewInv
<1>5. ASSUME preflighted PROVE \E n \in 0..Len(plan) - 1, m \in 0..Len(plan) : Aligned(n, m)'
  <2>1. 0 \in 0..Len(plan) - 1 /\ Aligned(0, 0)'
    BY <1>1, <1>4, <1>5, StartAligns
  <2>2. 0 \in 0..Len(plan)
    BY <1>1, StepsFinite
  <2>3. QED
    BY <2>1, <2>2
<1>6. MadeOk' /\ PreflightHolds'
  BY <1>2 DEF MadeOk, PreflightHolds, Start
<1>7. phase' = "running" /\ (preflighted' => Reviewed(plan') /\ PreflightOk(plan'))
  BY <1>2, <1>4
<1>8. QED
  BY <1>2, <1>3, <1>5, <1>6, <1>7 DEF ReviewInv

\* when a node waits or runs,
LEMMA PassesStaySorted ==
  ASSUME RunInv, SkipNode \/ RunNode, Sorted(pending), Sorted(visiting)
  PROVE  Sorted(pending') /\ Sorted(visiting')
<1>1. phase = "running" /\ visiting # <<>> /\ visiting' = Tail(visiting)
      /\ pending' \in {pending, RemoveFirst(pending, Head(visiting))}
  BY DEF SkipNode, RunNode, Ready
<1>2. visiting \in Seq(Steps(plan)) /\ pending \in Seq(Steps(plan)) /\ Distinct(pending)
  BY <1>1 DEF RunInv, PassInv
<1>3. Head(visiting) \in ToSet(pending)
  BY <1>1, HeadOfPass
<1>4. QED
  BY <1>1, <1>2, <1>3, TailSorted, RemoveOne

LEMMA ReviewSkip ==
  ASSUME RunInv, ReviewInv, SkipNode
  PROVE  ReviewInv'
<1>1. /\ phase = "running" /\ phase' = phase
      /\ UNCHANGED <<plan, preflighted, completed, made>>
  BY DEF SkipNode
<1>2. Sorted(pending') /\ Sorted(visiting')
  BY <1>1, PassesStaySorted DEF ReviewInv
<1>3. ASSUME preflighted PROVE \E n \in 0..Len(plan) - 1, m \in 0..Len(plan) : Aligned(n, m)'
  BY <1>1, <1>3, NodeAligns DEF ReviewInv
<1>4. MadeOk' /\ PreflightHolds'
  BY <1>1 DEF ReviewInv, MadeOk, PreflightHolds
<1>5. preflighted' => Reviewed(plan') /\ PreflightOk(plan')
  BY <1>1 DEF ReviewInv
<1>6. QED
  BY <1>1, <1>2, <1>3, <1>4, <1>5 DEF ReviewInv

LEMMA ReviewNode ==
  ASSUME RunInv, ReviewInv, RunNode, preflighted => PlanFits(plan) /\ RefsInv
  PROVE  ReviewInv'
<1>1. PICK h : h = Head(visiting)
  OBVIOUS
<1> DEFINE node == plan[h]
           file == NodeMakes(h, node, references)
           id == Given(node.inputs, "upload_id")
<1>2. /\ phase = "running" /\ phase' = phase /\ visiting # <<>> /\ ~ Raises(node, references)
      /\ UNCHANGED <<plan, preflighted>>
      /\ completed' = completed \cup {h} /\ made' = [made EXCEPT ![h] = file]
  BY <1>1 DEF RunNode, Ready
<1>3. h \in Steps(plan) \ completed /\ completed \subseteq Steps(plan) /\ DOMAIN made = Steps(plan)
  BY <1>1, <1>2, HeadOfPass DEF RunInv, StepsInv
<1>4. Sorted(pending') /\ Sorted(visiting')
  BY <1>2, PassesStaySorted DEF ReviewInv
<1>5. ASSUME preflighted PROVE \E n \in 0..Len(plan) - 1, m \in 0..Len(plan) : Aligned(n, m)'
  BY <1>2, <1>5, NodeAligns DEF ReviewInv
<1>6. file.ok
  <2>1. FormatsAreSeq(node)
    BY <1>3 DEF RunInv, PlanInv, ListsAreSeqs
  <2>2. QED
    BY <1>2, <2>1, FileMade, ExportMade
<1> HIDE DEF file
<1>7. made'[h] = file /\ \A s \in completed : made'[s] = made[s]
  BY <1>2, <1>3
<1>8. MadeOk'
  BY <1>2, <1>6, <1>7 DEF ReviewInv, MadeOk
<1>9. ASSUME preflighted, node.op \in Uploads, id \notin {plan[p].out : p \in Steps(plan)}
      PROVE  file = FileAt(node.params["source_path"])
  <2>1. Reviewed(plan) /\ OutputsOf(plan, Steps(plan), references)
    BY <1>3, <1>9, RefsAreOutputs DEF ReviewInv
  <2>2. Named(references, id) = {}
    BY <1>9, <2>1 DEF Named, OutputsOf
  <2>3. UploadFile(node, references) \in {FileAt(node.params["source_path"]), NoFile}
    BY <1>3, <1>9, <2>1, <2>2, UploadResolves
  <2>4. UploadFile(node, references) # NoFile /\ file = UploadFile(node, references)
    BY <1>2, <1>9, UploadRuns DEF Raises, file
  <2>5. QED
    BY <2>3, <2>4
<1>10. PreflightHolds'
  <2>1. phase' # "source missing"
    BY <1>2
  <2>2. ASSUME preflighted, NEW s \in completed', plan[s].op \in Uploads,
               Given(plan[s].inputs, "upload_id") \notin {plan[p].out : p \in Steps(plan)}
        PROVE  made'[s] = FileAt(plan[s].params["source_path"])
    <3>1. CASE s = h
      BY <1>7, <1>9, <2>2, <3>1
    <3>2. CASE s # h
      BY <1>2, <1>7, <2>2, <3>2 DEF ReviewInv, PreflightHolds
    <3>3. QED
      BY <3>1, <3>2
  <2>3. QED
    BY <1>2, <2>1, <2>2 DEF PreflightHolds
<1>11. preflighted' => Reviewed(plan') /\ PreflightOk(plan')
  BY <1>2 DEF ReviewInv
<1>12. QED
  BY <1>2, <1>4, <1>5, <1>8, <1>10, <1>11 DEF ReviewInv

\* when one fails, which for want of a source no upload does,
LEMMA ReviewFail ==
  ASSUME RunInv, ReviewInv, FailNode, preflighted => PlanFits(plan) /\ RefsInv
  PROVE  ReviewInv'
<1>1. PICK h : h = Head(visiting)
  OBVIOUS
<1>2. /\ phase = "running" /\ visiting # <<>> /\ ToSet(plan[h].deps) \subseteq completed
      /\ phase' \in {"source missing", "export refused", "tool failed"}
      /\ phase' = "source missing" => SourceMissing(plan[h], references)
      /\ UNCHANGED <<plan, preflighted, completed, made, visiting>>
  BY <1>1 DEF FailNode, Ready, runVars
<1>3. ASSUME preflighted, plan[h].op \in Uploads PROVE phase' # "source missing"
  <2>1. Reviewed(plan) /\ PreflightOk(plan) /\ MadeOk /\ Sorted(visiting)
    BY <1>2, <1>3 DEF ReviewInv
  <2>2. PICK n \in 0..Len(plan) - 1, m \in 0..Len(plan) : Aligned(n, m)
    BY <1>2, <1>3 DEF ReviewInv
  <2> DEFINE st == PreflightAt(plan, n, h - 1)
  <2>3. /\ h \in Steps(plan) \ completed
        /\ st \in PreflightStates(plan) /\ st.completed = completed
        /\ ~ PreflightNode(plan, st, h).raised
    BY <1>1, <1>2, <2>1, <2>2, HeadAligned
  <2> HIDE DEF st
  <2>4. UploadFile(plan[h], st.refs) # NoFile
    BY <1>2, <1>3, <2>1, <2>3, PreflightGoes
  <2>5. OutputsOf(plan, completed, st.refs)
    BY <2>3 DEF PreflightStates
  <2>6. completed \subseteq Steps(plan)
    BY DEF RunInv, StepsInv
  <2>7. UploadFile(plan[h], references) # NoFile
    BY <1>3, <2>1, <2>3, <2>4, <2>5, <2>6, UploadFound
  <2>8. QED
    BY <1>2, <1>3, <2>7, UploadRuns
<1>4. MadeOk'
  BY <1>2 DEF ReviewInv, MadeOk
<1>5. PreflightHolds'
  <2>1. \A s \in completed' : preflighted /\ plan[s].op \in Uploads
          /\ Given(plan[s].inputs, "upload_id") \notin {plan[p].out : p \in Steps(plan)}
            => made'[s] = FileAt(plan[s].params["source_path"])
    BY <1>2 DEF ReviewInv, PreflightHolds
  <2>2. QED
    BY <1>1, <1>2, <1>3, <2>1 DEF PreflightHolds
<1>6. preflighted' => Reviewed(plan') /\ PreflightOk(plan')
  BY <1>2 DEF ReviewInv
<1>7. QED
  BY <1>2, <1>4, <1>5, <1>6 DEF ReviewInv

\* and at the end of a pass.
LEMMA ReviewPass ==
  ASSUME RunInv, ReviewInv, EndPass
  PROVE  ReviewInv'
<1>1. /\ phase = "running" /\ phase' \in {"stuck", "done", "running"}
      /\ visiting' = pending /\ UNCHANGED <<plan, preflighted, completed, made, pending>>
  BY DEF EndPass
<1>2. Sorted(pending') /\ Sorted(visiting')
  BY <1>1 DEF ReviewInv
<1>3. ASSUME preflighted, phase' = "running"
      PROVE  \E n \in 0..Len(plan) - 1, m \in 0..Len(plan) : Aligned(n, m)'
  <2>1. PICK n \in 0..Len(plan) - 1, m \in 0..Len(plan) : Aligned(n, m)
    BY <1>1, <1>3 DEF ReviewInv
  <2>2. PICK k : k = n + 1
    OBVIOUS
  <2>3. k \in 0..Len(plan) - 1 /\ Aligned(k, 0)'
    BY <1>3, <2>1, <2>2, PassAligns DEF ReviewInv
  <2>4. Len(plan) \in Nat
    BY SeqShape DEF RunInv, PlanInv
  <2>5. 0 \in 0..Len(plan)
    BY <2>4
  <2>6. QED
    BY <2>3, <2>5
<1>4. MadeOk' /\ PreflightHolds'
  BY <1>1 DEF ReviewInv, MadeOk, PreflightHolds
<1>5. preflighted' => Reviewed(plan') /\ PreflightOk(plan')
  BY <1>1 DEF ReviewInv
<1>6. QED
  BY <1>1, <1>2, <1>3, <1>4, <1>5 DEF ReviewInv

LEMMA ReviewKept == RunInv /\ FitInv /\ AcceptedFit /\ ReviewInv /\ [Next]_vars => ReviewInv'
<1> SUFFICES ASSUME RunInv, FitInv, AcceptedFit, ReviewInv, [Next]_vars PROVE ReviewInv'
  OBVIOUS
<1>1. preflighted => PlanFits(plan) /\ RefsInv
  BY DEF ReviewInv, AcceptedFit, FitInv
<1>2. CASE UNCHANGED vars
  BY <1>2 DEF vars, runVars, ReviewInv, Aligned, MadeOk, PreflightHolds
<1>3. CASE Hand \/ Build \/ Approve \/ TakeUnreviewed
  BY <1>3, ReviewPrepared DEF Hand, Build, Approve, TakeUnreviewed, Idle, Next
<1>4. CASE Start
  <2>1. phase \in Idle
    BY <1>4 DEF Start, Idle
  <2>2. QED
    BY <1>4, <2>1, ReviewPrepared, ReviewStart DEF Next
<1>5. CASE Run
  BY <1>1, <1>5, ReviewSkip, ReviewNode, ReviewFail, ReviewPass DEF Run
<1>6. QED
  BY <1>2, <1>3, <1>4, <1>5 DEF Next
-----------------------------------------------------------------------------
LEMMA RunInvHolds == Spec => []RunInv
BY InitRun, RunInvKept, PTL DEF Spec

LEMMA FitInvHolds == Spec => [](RunInv /\ FitInv)
<1>1. Init => RunInv /\ FitInv
  BY InitRun, InitFit
<1>2. (RunInv /\ FitInv) /\ [Next]_vars => (RunInv /\ FitInv)'
  BY RunInvKept, FitInvKept
<1>3. QED
  BY <1>1, <1>2, PTL DEF Spec

\* No run reports success with a node left, and none runs a node before those
\* it depends on: whatever the plan, and in whatever order its nodes stand.
InOrder == \A s \in completed : ToSet(plan[s].deps) \subseteq completed

THEOREM RunsAreWhole == Spec => [](DoneIsWhole /\ InOrder)
<1>1. RunInv => DoneIsWhole /\ InOrder
  BY DEF RunInv, StepsInv, InOrder
<1>2. QED
  BY <1>1, RunInvHolds, PTL

\* The plans that the registry builds fit, with uploads put into them or not:
\* a queued task runs them without the guard.
BuiltFit == source \in {"built", "injected"} => PlanFits(plan)

THEOREM BuiltPlansFit == Spec => []BuiltFit
<1>1. RunInv => BuiltFit
  BY DEF RunInv, PlanInv, BuiltFit
<1>2. QED
  BY <1>1, RunInvHolds, PTL

\* A plan that fits is never stuck, its nodes read what they name and find the
\* sources they name, and its exports export what they name, but for the
\* uploads that the pipeline does not open (Unopened); so it is with every
\* plan the registry builds.
WiringHolds ==
    NeverStuck /\ DeclaredWiringIsRead /\ WiredNodesFindSources /\ ExportsWhatIsWired

FitRun == PlanFits(plan) => WiringHolds

THEOREM FittingPlansRun == Spec => []FitRun
<1>1. RunInv /\ FitInv => FitRun
  BY DEF FitInv, FitRun, WiringHolds, NeverStuck
<1>2. QED
  BY <1>1, FitInvHolds, PTL

BuiltRun == source \in {"built", "injected"} => WiringHolds

THEOREM BuiltPlansRun == Spec => []BuiltRun
<1>1. BuiltFit /\ FitRun => BuiltRun
  BY DEF BuiltFit, FitRun, BuiltRun
<1>2. QED
  BY <1>1, BuiltPlansFit, FittingPlansRun, PTL

-----------------------------------------------------------------------------
\* _detect_cycle refuses exactly the plans with a cycle, of any length and
\* whatever stands twice in the dependencies of a step.
THEOREM CyclesAreRefused == Spec => []CyclesAreFound
<1>1. RunInv => CyclesAreFound
  <2> SUFFICES ASSUME RunInv, KnownDependencies(plan) PROVE DetectCycle(plan) <=> HasCycle(plan)
    BY DEF CyclesAreFound
  <2>1. Listed(plan)
    BY DEF RunInv, PlanInv, Listed, ListsAreSeqs, KnownDependencies
  <2>2. QED
    BY <2>1, WalkFinds
<1>2. QED
  BY <1>1, RunInvHolds, PTL

\* The chain of inputs is validated in an order of all steps in which each
\* comes behind those it depends on.
THEOREM SortIsSound == Spec => []SortRespectsDependencies
<1>1. RunInv => SortRespectsDependencies
  <2>1. ASSUME RunInv, KnownDependencies(plan), ~ HasCycle(plan) PROVE Listed(plan)
    BY <2>1 DEF RunInv, PlanInv, Listed, ListsAreSeqs, KnownDependencies
  <2>2. QED
    BY <2>1, SortOrders DEF SortRespectsDependencies
<1>2. QED
  BY <1>1, RunInvHolds, PTL

LEMMA AcceptedHolds == Spec => [](FitRun /\ AcceptedFit)
<1>1. Init => AcceptedFit
  BY DEF Init, AcceptedFit
<1>2. RunInv /\ AcceptedFit /\ [Next]_vars => AcceptedFit'
  BY AcceptedKept
<1>3. Spec => Init /\ [][Next]_vars
  BY PTL DEF Spec
<1>4. QED
  BY <1>1, <1>2, <1>3, RunInvHolds, FittingPlansRun, PTL

LEMMA AcceptedRun ==
  FitRun /\ AcceptedFit /\ RunInv => WiringHolds
<1> SUFFICES ASSUME FitRun, AcceptedFit, RunInv PROVE WiringHolds
  OBVIOUS
<1>1. CASE phase \in {"planning", "draft", "refused"}
  <2>1. completed = {}
    BY <1>1 DEF RunInv, PlanInv, Idle
  <2>2. QED
    BY <1>1, <2>1 DEF WiringHolds, NeverStuck, DeclaredWiringIsRead, WiredNodesFindSources,
                      ExportsWhatIsWired
<1>2. CASE phase \notin {"planning", "draft", "refused"}
  BY <1>2 DEF FitRun, AcceptedFit
<1>3. QED
  BY <1>1, <1>2

\* No plan that gets as far as the pipeline has dependencies that its passes
\* cannot resolve.
THEOREM NoRunIsStuck == Spec => []NeverStuck
<1>1. WiringHolds => NeverStuck
  BY DEF WiringHolds
<1>2. QED
  BY <1>1, AcceptedHolds, AcceptedRun, RunInvHolds, PTL

\* A node that names the output of one it depends on reads that output, in
\* every accepted or built plan, unless it is an upload that the pipeline has
\* no reader for: that one it drops without a word.
THEOREM WiringIsRead == Spec => []DeclaredWiringIsRead
<1>1. WiringHolds => DeclaredWiringIsRead
  BY DEF WiringHolds
<1>2. QED
  BY <1>1, AcceptedHolds, AcceptedRun, RunInvHolds, PTL

\* No run ends for want of a source at a node whose inputs all name outputs of
\* nodes it depends on, but for mosaics and unopened uploads.
THEOREM WiredSourcesAreFound == Spec => []WiredNodesFindSources
<1>1. WiringHolds => WiredNodesFindSources
  BY DEF WiringHolds
<1>2. QED
  BY <1>1, AcceptedHolds, AcceptedRun, RunInvHolds, PTL

\* An export holds the file it is wired to, in the formats that can hold it;
\* an upload that the pipeline opens neither as raster nor as vector has none.
THEOREM ExportsFollowWiring == Spec => []ExportsWhatIsWired
<1>1. WiringHolds => ExportsWhatIsWired
  BY DEF WiringHolds
<1>2. QED
  BY <1>1, AcceptedHolds, AcceptedRun, RunInvHolds, PTL

\* A run whose uploads passed the preflight finds the source of every upload:
\* what was checked at the review still holds when the node runs, although
\* the preflight registers uploads only and the run what every node makes.
THEOREM PreflightIsKept == Spec => []PreflightHolds
<1>1. Init => ReviewInv
  BY DEF Init, ReviewInv, MadeOk, PreflightHolds
<1>2. RunInv /\ FitInv /\ AcceptedFit /\ ReviewInv /\ [Next]_vars => ReviewInv'
  BY ReviewKept
<1>3. ReviewInv => PreflightHolds
  BY DEF ReviewInv
<1>4. Spec => Init /\ [][Next]_vars
  BY PTL DEF Spec
<1>5. QED
  BY <1>1, <1>2, <1>3, <1>4, FitInvHolds, AcceptedHolds, PTL
=============================================================================
