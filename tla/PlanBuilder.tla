----------------------------- MODULE PlanBuilder -----------------------------
(***************************************************************************)
(* The plan the registry builds from the operations of a request when the  *)
(* planner gives none (services/operation_plan_builder.py), and the paths  *)
(* of the session's uploads put into it (services/upload_handler.py).      *)
(***************************************************************************)
EXTENDS OperationPlans

CONSTANT
    RefOf \* the reference that step s of a built plan gives its output

ASSUME RefsAssumption == \A s, t \in DOMAIN RefOf : RefOf[s] = RefOf[t] => s = t

\* refs_by_type[t]: the steps whose output is of type t.
StepsOfType(nodes, t) == {s \in DOMAIN nodes : OutputType(nodes[s].op) = t}

Latest(steps) == {s \in steps : \A q \in steps : q <= s}

\* The latest step of the first of these types that has one.
PrimarySteps(nodes) ==
    LET of == [i \in 1..4 |-> StepsOfType(nodes, <<"raster", "vector", "table", "artifact">>[i])]
    IN  UNION {Latest(of[i]) : i \in {i \in 1..4 : \A j \in 1..(i - 1) : of[j] = {}}}

\* _pick_refs_for_input_type: the steps whose references are picked.
PickSteps(nodes, t) ==
    IF t = "any" THEN PrimarySteps(nodes)
    ELSE IF t = "raster[]" THEN StepsOfType(nodes, "raster")
    ELSE Latest(StepsOfType(nodes, t))

\* matched_refs[-1].
LatestRef(nodes, steps) == nodes[CHOOSE s \in Latest(steps) : TRUE].out

\* The default params of the operations that a plan here has, and the paths
\* the request gives (_extract_op_override_params).
RequestParams(op, paths) ==
    LET keys == CASE op = "raster.clip"     -> {"source_path", "clip_path"}
                  [] op = "raster.band_math" -> {"source_path", "expression"}
                  [] op \in {"raster.reproject", "raster.resample",
                             "vector.buffer", "artifact.export"} -> {"source_path"}
                  [] OTHER                  -> DOMAIN paths
    IN  Restrict(paths, keys \cap DOMAIN paths)

NodeParams(op, paths) ==
    IF op = "artifact.export"
    THEN With(RequestParams(op, paths), "formats", DefaultFormats)
    ELSE RequestParams(op, paths)

BuiltNode(nodes, op, paths) ==
    LET types == InputTypes(op)
        wired == {key \in DOMAIN types : PickSteps(nodes, types[key]) # {}}
        producers == UNION {PickSteps(nodes, types[key]) : key \in wired}
        deps == IF producers = {} /\ nodes # <<>> THEN {Len(nodes)} ELSE producers
    IN  [op     |-> op,
         deps   |-> SetToSeq(deps),
         inputs |-> [key \in wired |-> LatestRef(nodes, PickSteps(nodes, types[key]))],
         params |-> NodeParams(op, paths),
         out    |-> RefOf[Len(nodes) + 1]]

\* _normalize_export_formats, for a request that prefers no output.
ExportFormats(t) ==
    IF t = "vector" THEN <<"geojson">>
    ELSE IF t = "table" THEN <<"csv">> ELSE <<"geotiff", "png_map">>

\* The export that ends a plan whose operations do not end in one: the code
\* wires it as any other, and gives it the formats of what it exports.
ClosingExport(nodes, paths) ==
    LET primary == CHOOSE s \in PrimarySteps(nodes) : TRUE
    IN  [BuiltNode(nodes, "artifact.export", paths) EXCEPT
            !.params = With(@, "formats", ExportFormats(OutputType(nodes[primary].op)))]

\* _build_operation_nodes, for operations without duplicates: the nodes after
\* the first n operations, and the plan they end up in.
BuiltNodes(ops, paths) ==
    LET nodes[n \in 0..Len(ops)] ==
            IF n = 0 THEN <<>>
            ELSE Append(nodes[n - 1], BuiltNode(nodes[n - 1], ops[n], paths))
    IN  nodes

BuildPlan(ops, paths) ==
    LET nodes == BuiltNodes(ops, paths)[Len(ops)]
    IN  IF nodes = <<>> \/ Last(nodes).op = "artifact.export" THEN nodes
        ELSE Append(nodes, ClosingExport(nodes, paths))

\* _inject_upload_context_into_operation_plan for one node: `uploads` gives
\* the storage paths of the uploaded raster and vector, where there are any.
InjectNode(node, paths, uploads) ==
    LET file == IF node.op = "input.upload_raster" THEN "raster" ELSE "vector"
        asked == IF node.op = "input.upload_raster" THEN "source_path" ELSE "clip_path"
        source == IF Given(paths, asked) # "" THEN paths[asked] ELSE Given(uploads, file)
        key == IF node.op = "raster.clip" THEN "aoi_path" ELSE "source_path"
        missing == IF node.op = "raster.clip"
                   THEN \A k \in {"aoi_path", "clip_path", "vector_path"} :
                            Given(node.params, k) = ""
                   ELSE Given(node.params, "source_path") = ""
        inputs == IF node.op \in Uploads /\ Given(node.inputs, "upload_id") = ""
                     /\ file \in DOMAIN uploads
                  THEN With(node.inputs, "upload_id", "file") ELSE node.inputs
    IN  IF node.op \in Uploads \cup {"raster.clip"} /\ missing /\ source # ""
        THEN [node EXCEPT !.inputs = inputs, !.params = With(@, key, source)]
        ELSE [node EXCEPT !.inputs = inputs]

Inject(plan, paths, uploads) ==
    [s \in Steps(plan) |-> InjectNode(plan[s], paths, uploads)]
=============================================================================
