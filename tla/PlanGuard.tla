------------------------------ MODULE PlanGuard ------------------------------
(***************************************************************************)
(* validate_operation_plan (services/plan_guard.py): what must hold of a   *)
(* plan before it may be approved.  Each check raises in the code; here it *)
(* is a predicate, and which of two failing checks is reported first is    *)
(* left out.                                                               *)
(***************************************************************************)
EXTENDS OperationPlans

KnownDependencies(plan) ==
    \A s \in Steps(plan) : ToSet(plan[s].deps) \subseteq Steps(plan)

(***************************************************************************)
(* _detect_cycle: a depth-first walk with the steps being visited and the  *)
(* steps done with, which stops at the first step met twice on a path.     *)
(* `calls` are the calls of _walk in progress.  Every loop, over the       *)
(* dependencies of the last of them or over the plan, goes on with the     *)
(* first step that is not visited: those before it are, since they were    *)
(* walked.                                                                 *)
(***************************************************************************)
WalkStart == [cycle |-> FALSE, calls |-> <<>>, visiting |-> {}, visited |-> {}]

\* Marks a step as visited before its dependencies are.
MutantCall(st, s) ==
    IF s \in st.visiting THEN [st EXCEPT !.cycle = TRUE]
    ELSE [st EXCEPT !.calls = Append(@, s), !.visiting = @ \cup {s}, !.visited = @ \cup {s}]

Call(st, s) ==
    IF s \in st.visiting THEN [st EXCEPT !.cycle = TRUE]
    ELSE [st EXCEPT !.calls = Append(@, s), !.visiting = @ \cup {s}]

Return(st) ==
    LET s == Last(st.calls)
    IN  [st EXCEPT !.calls = Front(@), !.visiting = @ \ {s}, !.visited = @ \cup {s}]

WalkStep(plan, st) ==
    LET loop == IF st.calls = <<>> THEN [s \in Steps(plan) |-> s]
                ELSE plan[Last(st.calls)].deps
        left == {i \in DOMAIN loop : loop[i] \notin st.visited}
    IN  IF st.cycle \/ (st.calls = <<>> /\ left = {}) THEN st
        ELSE IF left = {} THEN Return(st)
        ELSE Call(st, loop[Min(left)])

\* Each step is called, and returned from, once at most.
DetectCycle(plan) ==
    LET walk[n \in 0..2 * Len(plan)] ==
            IF n = 0 THEN WalkStart ELSE WalkStep(plan, walk[n - 1])
    IN  walk[2 * Len(plan)].cycle

(***************************************************************************)
(* _topological_sort: the queue of the steps whose dependencies are all    *)
(* ordered.  A step is counted, and listed as a child, once for each time  *)
(* it names the dependency.                                                *)
(***************************************************************************)
Occurrences(x, seq) == Cardinality({i \in DOMAIN seq : seq[i] = x})

MutantIndegree(plan, s) == Cardinality(ToSet(plan[s].deps))

Indegree(plan, s) == Len(plan[s].deps)

\* Some steps, in the order of the plan.
InPlanOrder(steps) ==
    [k \in 1..Cardinality(steps) |->
        CHOOSE s \in steps : Cardinality({t \in steps : t < s}) = k - 1]

SortStart(plan) ==
    [ordered  |-> <<>>,
     queue    |-> InPlanOrder({s \in Steps(plan) : Indegree(plan, s) = 0}),
     indegree |-> [s \in Steps(plan) |-> Indegree(plan, s)]]

\* Takes the first step of the queue, and appends the children it frees.
SortStep(plan, st) ==
    LET s == Head(st.queue)
        left == [c \in Steps(plan) |-> st.indegree[c] - Occurrences(s, plan[c].deps)]
        freed == {c \in Steps(plan) : st.indegree[c] > 0 /\ left[c] = 0}
    IN  IF st.queue = <<>> THEN st
        ELSE [ordered  |-> Append(st.ordered, s),
              queue    |-> Tail(st.queue) \o InPlanOrder(freed),
              indegree |-> left]

\* Each step is taken once at most.
TopologicalSort(plan) ==
    LET sort[n \in 0..Len(plan)] ==
            IF n = 0 THEN SortStart(plan) ELSE SortStep(plan, sort[n - 1])
    IN  sort[Len(plan)].ordered

(***************************************************************************)
(* _validate_io_chain.  A value stands for an input of type t when         *)
(* _value_matches_expected_input says so.                                  *)
(***************************************************************************)
BaseType(t) == IF t = "raster[]" THEN "raster" ELSE t

Compatible(actual, expected) == expected = "any" \/ actual = BaseType(expected)

Matches(v, t) ==
    CASE v = ""                                   -> FALSE
      [] BaseType(t) \in {"uploaded_file", "any"} -> TRUE
      [] v = "{geometry}"                         -> TRUE
      [] v = "[bbox]"                             -> FALSE
      [] v = "bbox()"                             -> t = "vector"
      [] v \in DOMAIN PathType                    -> PathType[v] \in {BaseType(t), "unknown"}
      [] OTHER                                    -> FALSE

\* _candidate_param_keys_for_input, without the plural keys and the names
\* made of the input's own that no plan uses.
CandidateKeys(key, t) ==
    UNION {
        IF key = "aoi"       THEN {"aoi_path"}   ELSE {},
        IF key = "zones"     THEN {"zones_path", "zones_geometry", "zones_bbox"} ELSE {},
        IF key = "overlay"   THEN {"overlay_path"} ELSE {},
        IF t \in {"raster", "raster[]"}
        THEN {"source_path", "raster_path", "template_raster_path"} ELSE {},
        IF t = "vector"
        THEN {"vector_path", "aoi_path", "clip_path", "clip_vector_path",
              "overlay_path", "mask_path", "zones_path", "zone_path",
              "right_path", "vector_b_path", "source_path", "geometry", "bbox",
              "clip_geometry", "clip_bbox", "overlay_geometry", "overlay_bbox"} ELSE {},
        IF t = "any" THEN {"primary_path", "source_path"} ELSE {},
        IF t = "uploaded_file" THEN {"source_path"} ELSE {}}

ExternalFallback(node, key, t) ==
    \E k \in CandidateKeys(key, t) \cap DOMAIN node.params : Matches(node.params[k], t)

\* _allows_implicit_demo_input.
DemoAllowed(node, key, t) ==
    /\ t # "uploaded_file"
    /\ ~ (node.op = "raster.clip" /\ key = "aoi")
    /\ node.deps = <<>>

\* `produced` maps the references of the nodes ordered before to their types.
InputOk(node, key, produced) ==
    LET t == InputTypes(node.op)[key]
        ref == Strip(Given(node.inputs, key))
    IN  IF ref = ""
        THEN ExternalFallback(node, key, t) \/ DemoAllowed(node, key, t)
        ELSE IF ref \in DOMAIN produced
        THEN Compatible(produced[ref], t)
        ELSE t = "uploaded_file" \/ (ref \in DOMAIN PathType /\ Matches(ref, t))

NodeOk(node, produced) ==
    /\ DOMAIN node.inputs \subseteq DOMAIN InputTypes(node.op)
    /\ \A p \in RequiredParams(node.op) : Given(node.params, p) # ""
    /\ \A key \in DOMAIN InputTypes(node.op) : InputOk(node, key, produced)
    /\ Strip(node.out) # ""
    /\ Strip(node.out) \notin DOMAIN produced

\* The references that these steps produce, with their types.
Produced(plan, steps) ==
    [ref \in {Strip(plan[s].out) : s \in steps} |->
        OutputType(plan[CHOOSE s \in steps : Strip(plan[s].out) = ref].op)]

IoChainOk(plan) ==
    LET order == TopologicalSort(plan)
    IN  \A i \in DOMAIN order :
            NodeOk(plan[order[i]], Produced(plan, {order[j] : j \in 1..(i - 1)}))

MutantValidPlan(plan) ==
    /\ plan # <<>>
    /\ KnownDependencies(plan)
    /\ IoChainOk(plan)

ValidPlan(plan) ==
    /\ plan # <<>>
    /\ KnownDependencies(plan)
    /\ ~ DetectCycle(plan)
    /\ IoChainOk(plan)
=============================================================================
