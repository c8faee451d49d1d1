-------------------------- MODULE ProcessingPipeline --------------------------
(***************************************************************************)
(* From a plan to its results: the review that validates a plan and its    *)
(* uploads (approve_task_plan), the built plan that a queued task without  *)
(* one runs unreviewed (plan_task_node), and the pipeline that runs the    *)
(* nodes (services/processing_pipeline.py): passes over the nodes that are *)
(* left, in the order of the plan, each pass over the list as it was when  *)
(* the pass began.                                                         *)
(*                                                                         *)
(* What a node computes is left out.  What it reads is not: `reads` keeps, *)
(* for each node and input, the files its data came from, where "default"  *)
(* is the demonstration raster or geometry.                                *)
(***************************************************************************)
EXTENDS PlanGuard, PlanBuilder

CONSTANTS
    EditedPlans, \* sets of plans that a planner or a user hands in
    Requests     \* [ops, paths, uploads]: what plans are built from

ASSUME PlansAssumption ==
    \A plans \in EditedPlans : \A p \in plans :
        /\ p \in Seq(ToSet(p))
        /\ \A s \in DOMAIN p :
              /\ p[s].deps \in Seq(ToSet(p[s].deps))
              /\ "formats" \in DOMAIN p[s].params =>
                    p[s].params["formats"] \in Seq(ToSet(p[s].params["formats"]))
ASSUME RequestsAssumption ==
    \A r \in Requests : r.ops \in Seq(ToSet(r.ops)) /\ 1..Len(r.ops) + 1 \subseteq DOMAIN RefOf

VARIABLES
    plan,
    source,     \* "none", "given", "built" or "injected" (built, with uploads)
    phase,
    preflighted, \* history: the plan passed the preflight
    pending,    \* pending_nodes: the steps left, in the plan's order
    visiting,   \* what is left of the pass over list(pending_nodes)
    progressed,
    completed,  \* completed_steps
    references, \* a dict in the order of its insertions: <<reference, file>>
    made,       \* the file each node that completed registered
    reads,      \* the files each node read, by input
    artifacts   \* the files each export added, one for each of its formats

runVars == <<pending, visiting, progressed, completed, references, made, reads, artifacts>>
vars == <<plan, source, phase, preflighted, runVars>>

Phases ==
    {"planning", "draft", "refused", "ready", "running", "done",
     "stuck", "source missing", "tool failed", "export refused"}

Default(type) == [type |-> type, ok |-> TRUE, from |-> "default"]
StepFile == <<"file 1", "file 2", "file 3", "file 4">>
NoFile == [type |-> "none", ok |-> FALSE, from |-> "nothing"]

(***************************************************************************)
(* The sources of a node.  _is_supported_raster: a raster that is there.   *)
(***************************************************************************)
Supported(file) == file.ok /\ file.type = "raster"

Named(refs, ref) == {i \in DOMAIN refs : refs[i][1] = ref}
FileOf(refs, ref) == refs[CHOOSE i \in Named(refs, ref) : TRUE][2]

\* references[ref] = file: a key that is there keeps its place.
Register(refs, ref, file) ==
    IF Named(refs, ref) = {} THEN Append(refs, <<ref, file>>)
    ELSE [i \in DOMAIN refs |-> IF refs[i][1] = ref THEN <<ref, file>> ELSE refs[i]]

\* _pick_primary_raster_reference and _pick_primary_vector_reference.
FirstOfType(refs, type) ==
    LET found == {i \in DOMAIN refs : refs[i][2].type = type}
    IN  IF found = {} THEN NoFile ELSE refs[Min(found)][2]

\* _resolve_raster_source; NoFile where it raises.
RasterSource(node, refs) ==
    LET ref == Given(node.inputs, "raster")
        strict == node.op = "input.upload_raster" \/ Given(node.inputs, "upload_id") # ""
        explicit == IF Named(refs, ref) # {} THEN FileOf(refs, ref)
                    ELSE IF Given(node.params, "source_path") # ""
                    THEN FileAt(node.params["source_path"]) ELSE NoFile
        named == Named(refs, ref) # {} \/ Given(node.params, "source_path") # ""
        first == FirstOfType(refs, "raster")
    IN  IF named THEN IF Supported(explicit) THEN explicit ELSE NoFile
        ELSE IF Supported(first) THEN first
        ELSE IF strict THEN NoFile ELSE Default("raster")

\* _resolve_vector_source, which only uploads use.
VectorSource(node, refs) ==
    LET id == Given(node.inputs, "upload_id")
        keys == <<"source_path", "clip_path", "aoi_path", "vector_path">>
        given == {i \in 1..4 : Given(node.params, keys[i]) # ""}
        file == IF Named(refs, id) # {} THEN FileOf(refs, id)
                ELSE IF given # {} THEN FileAt(node.params[keys[Min(given)]])
                ELSE FirstOfType(refs, "vector")
    IN  IF file.ok THEN file ELSE NoFile

\* _resolve_raster_sources.  `rasters` is a string in the schema, and the
\* function takes lists only; a source_paths list stands for its one path.
MosaicSource(node, refs) ==
    LET file == IF Given(node.params, "source_paths") # ""
                THEN FileAt(node.params["source_paths"]) ELSE RasterSource(node, refs)
    IN  IF Supported(file) THEN file ELSE NoFile

\* The geometries a value gives under a key: a path or a dict, in a geometry
\* key a dict only, in a bbox key four numbers only.  A dict names nothing.
Geometries(refs, key, v) ==
    LET file == IF Named(refs, v) # {} THEN FileOf(refs, v) ELSE FileAt(v)
        here == [type |-> "vector", ok |-> TRUE, from |-> v]
    IN  IF key \in {"bbox", "clip_bbox", "overlay_bbox", "zones_bbox"}
        THEN IF v = "[bbox]" THEN {here} ELSE {}
        ELSE IF v = "{geometry}" /\ Named(refs, v) = {} THEN {here}
        ELSE IF key \in {"geometry", "clip_geometry", "overlay_geometry", "zones_geometry"}
        THEN {}
        ELSE IF file.ok /\ file.type = "vector" THEN {file} ELSE {}

AllGeometries(node, refs, inputKeys, paramKeys) ==
    UNION ({Geometries(refs, k, node.inputs[k]) : k \in inputKeys \cap DOMAIN node.inputs}
           \cup {Geometries(refs, k, node.params[k]) : k \in paramKeys \cap DOMAIN node.params})

OrDefault(files) == IF files = {} THEN {Default("vector")} ELSE files

\* _resolve_vector_geometries and _resolve_overlay_geometries.
MainGeometries(node, refs) ==
    OrDefault(AllGeometries(node, refs, {"vector"}, {"source_path", "geometry", "bbox"}))

OverlayGeometries(node, refs) ==
    OrDefault(AllGeometries(node, refs, {"overlay", "clip_vector"},
        {"overlay_path", "overlay_geometry", "clip_geometry", "overlay_bbox", "clip_bbox"}))

\* _resolve_explicit_geometries for a clip and for zonal statistics: with
\* nothing given the raster is used whole, and what is given must resolve.
ExplicitKeys(op) ==
    IF op = "raster.clip"
    THEN [inputs |-> {"aoi"},
          params |-> {"aoi_path", "clip_path", "vector_path", "geometry",
                      "clip_geometry", "bbox", "clip_bbox"}]
    ELSE [inputs |-> {"zones"},
          params |-> {"zones_path", "zone_path", "zones_geometry", "geometry",
                      "zones_bbox"}]

HasExplicit(node) ==
    \/ ExplicitKeys(node.op).inputs \cap DOMAIN node.inputs # {}
    \/ ExplicitKeys(node.op).params \cap DOMAIN node.params # {}

ExplicitGeometries(node, refs) ==
    LET keys == ExplicitKeys(node.op)
        found == AllGeometries(node, refs, keys.inputs, keys.params)
    IN  IF HasExplicit(node) /\ found = {} THEN {NoFile} ELSE found

\* The template of a rasterize: an unusable one is not an error.
Template(node, refs) ==
    LET ref == Given(node.inputs, "raster")
        file == IF Named(refs, ref) # {} THEN FileOf(refs, ref)
                ELSE FileAt(Given(node.params, "template_raster_path"))
    IN  IF Supported(file) THEN {file} ELSE {Default("raster")}

(***************************************************************************)
(* The export of one node.  A geotiff changes source_path for the formats  *)
(* after it.                                                               *)
(***************************************************************************)
ExportSource(node, refs) ==
    LET ref == Given(node.inputs, "primary")
        path == Given(node.params, "source_path")
        raster == FirstOfType(refs, "raster")
    IN  IF Named(refs, ref) # {} THEN FileOf(refs, ref)
        ELSE IF path # "" THEN FileAt(path)
        ELSE IF raster # NoFile THEN raster ELSE FirstOfType(refs, "vector")

MutantRasterToExport(refs, file) ==
    IF Supported(FirstOfType(refs, "raster")) THEN FirstOfType(refs, "raster") ELSE file

\* The raster a geotiff or a preview is taken from.
RasterToExport(refs, file) ==
    IF Supported(file) THEN file ELSE FirstOfType(refs, "raster")

\* The geometries of a GeoJSON: another vector of the plan, or the default.
VectorToExport(refs, file) ==
    LET picked == IF file.type = "vector" THEN file ELSE FirstOfType(refs, "vector")
    IN  IF picked.ok THEN picked ELSE Default("vector")

Formats(node) ==
    IF "formats" \in DOMAIN node.params /\ node.params["formats"] # <<>>
    THEN node.params["formats"] ELSE <<"geotiff">>

Rasters == {"geotiff", "png_map"}
Vectors == {"geojson", "gpkg", "shapefile"}

\* The file an export in one format holds the data of; NoFile where it raises.
ExportedFile(refs, file, format) ==
    LET raster == RasterToExport(refs, file)
    IN  IF format \in Rasters THEN IF Supported(raster) THEN raster ELSE NoFile
        ELSE IF format = "csv" THEN [type |-> "table", ok |-> TRUE, from |-> file.from]
        ELSE IF format = "geojson" THEN VectorToExport(refs, file)
        ELSE IF format \notin Vectors THEN NoFile
        ELSE IF file.ok /\ file.type = "vector" THEN file ELSE Default("vector")

Exported(node, refs) ==
    LET given == ExportSource(node, refs)
        formats == Formats(node)
        file(i) == IF \E j \in DOMAIN formats : j < i /\ formats[j] = "geotiff"
                   THEN RasterToExport(refs, given) ELSE given
    IN  [i \in DOMAIN formats |-> ExportedFile(refs, file(i), formats[i])]

(***************************************************************************)
(* What a node reads, by input; NoFile stands for a source it must have    *)
(* and does not find.                                                      *)
(***************************************************************************)
FilesRead(node, refs, key) ==
    IF key = "upload_id" THEN IF node.op = "input.upload_raster"
                              THEN {RasterSource(node, refs)} ELSE {VectorSource(node, refs)}
    ELSE IF key = "raster" THEN IF node.op = "raster.rasterize"
                                THEN Template(node, refs) ELSE {RasterSource(node, refs)}
    ELSE IF key = "rasters" THEN {MosaicSource(node, refs)}
    ELSE IF key \in {"aoi", "zones"} THEN ExplicitGeometries(node, refs)
    ELSE IF key = "vector" THEN MainGeometries(node, refs)
    ELSE IF key = "primary" THEN {ExportSource(node, refs)}
    ELSE OverlayGeometries(node, refs)

NodeReads(node, refs) ==
    [key \in DOMAIN InputTypes(node.op) |-> FilesRead(node, refs, key)]

\* The node raises over a source, or over a format.
SourceMissing(node, refs) ==
    \E key \in DOMAIN NodeReads(node, refs) : NoFile \in NodeReads(node, refs)[key]

ExportRefused(node, refs) ==
    node.op = "artifact.export" /\ NoFile \in ToSet(Exported(node, refs))

Raises(node, refs) == SourceMissing(node, refs) \/ ExportRefused(node, refs)

\* The file that a node of step s registers for its output: an export's last.
NodeMakes(s, node, refs) ==
    IF node.op \in Uploads THEN CHOOSE f \in NodeReads(node, refs)["upload_id"] : TRUE
    ELSE IF node.op = "artifact.export" THEN Last(Exported(node, refs))
    ELSE [type |-> OutputType(node.op), ok |-> TRUE, from |-> StepFile[s]]

(***************************************************************************)
(* preflight_processing_pipeline_inputs: the same passes, in which only    *)
(* uploads are resolved.  One pass for each node is enough: a pass without *)
(* progress raises.                                                        *)
(***************************************************************************)
MutantPreflightNode(p, st, s) ==
    IF st.raised \/ ~ ToSet(p[s].deps) \subseteq st.completed THEN st
    ELSE [st EXCEPT !.completed = @ \cup {s}]

PreflightNode(p, st, s) ==
    LET node == p[s]
        file == IF node.op = "input.upload_raster" THEN RasterSource(node, st.refs)
                ELSE VectorSource(node, st.refs)
    IN  IF st.raised \/ s \in st.completed \/ ~ ToSet(node.deps) \subseteq st.completed THEN st
        ELSE IF node.op \notin Uploads THEN [st EXCEPT !.completed = @ \cup {s}]
        ELSE IF file = NoFile THEN [st EXCEPT !.raised = TRUE]
        ELSE [st EXCEPT !.completed = @ \cup {s},
                        !.refs = Register(@, node.out, file)]

\* The states of a pass from `st` on, after each of its nodes.
PreflightPass(p, st) ==
    LET after[s \in 0..Len(p)] ==
            IF s = 0 THEN st ELSE PreflightNode(p, after[s - 1], s)
    IN  after

\* The states after each pass.
PreflightPasses(p) ==
    LET after[n \in 0..Len(p)] ==
            IF n = 0 THEN [completed |-> {}, refs |-> <<>>, raised |-> FALSE]
            ELSE PreflightPass(p, after[n - 1])[Len(p)]
    IN  after

PreflightOk(p) ==
    LET end == PreflightPasses(p)[Len(p)]
    IN  ~ end.raised /\ end.completed = Steps(p)

(***************************************************************************)
(* The steps.                                                              *)
(***************************************************************************)
Init ==
    /\ plan = <<>>
    /\ source = "none"
    /\ phase = "planning"
    /\ preflighted = FALSE
    /\ pending = <<>>
    /\ visiting = <<>>
    /\ progressed = FALSE
    /\ completed = {}
    /\ references = <<>>
    /\ made = <<>>
    /\ reads = <<>>
    /\ artifacts = <<>>

\* A planner or a user hands a plan in.
Hand ==
    /\ phase = "planning"
    /\ \E plans \in EditedPlans : plan' \in plans
    /\ source' = "given"
    /\ phase' = "draft"
    /\ UNCHANGED <<preflighted, runVars>>

\* The registry builds one, for a task that waits for a review (with the
\* uploads' paths put into it) or in the queue.
Build ==
    /\ phase = "planning"
    /\ \E r \in Requests :
           LET built == BuildPlan(r.ops, r.paths)
           IN  \/ source' = "built" /\ plan' = built
               \/ source' = "injected" /\ plan' = Inject(built, r.paths, r.uploads)
    /\ phase' = "draft"
    /\ UNCHANGED <<preflighted, runVars>>

\* approve_task_plan, for the plans that were put before the user.
Approve ==
    /\ phase = "draft"
    /\ source # "built"
    /\ phase' = IF ValidPlan(plan) /\ PreflightOk(plan) THEN "ready" ELSE "refused"
    /\ preflighted' = (phase' = "ready")
    /\ UNCHANGED <<plan, source, runVars>>

\* plan_task_node, for a queued task that has no plan: the planner's, if it
\* is valid, or the built one as it is.
TakeUnreviewed ==
    /\ phase = "draft"
    /\ source # "injected"
    /\ phase' = IF source = "built" \/ ValidPlan(plan) THEN "ready" ELSE "refused"
    /\ UNCHANGED <<plan, source, preflighted, runVars>>

Start ==
    /\ phase = "ready"
    /\ IF plan = <<>>
       THEN phase' = "tool failed" /\ UNCHANGED runVars
       ELSE /\ phase' = "running"
            /\ pending' = [s \in Steps(plan) |-> s]
            /\ visiting' = pending'
            /\ made' = [s \in Steps(plan) |-> NoFile]
            /\ reads' = [s \in Steps(plan) |-> <<>>]
            /\ artifacts' = reads'
            /\ UNCHANGED <<progressed, completed, references>>
    /\ UNCHANGED <<plan, source, preflighted>>

\* The next node of the pass waits for a dependency.
SkipNode ==
    /\ phase = "running"
    /\ visiting # <<>>
    /\ ~ ToSet(plan[Head(visiting)].deps) \subseteq completed
    /\ visiting' = Tail(visiting)
    /\ UNCHANGED <<plan, source, phase, preflighted, pending, progressed,
                   completed, references, made, reads, artifacts>>

MutantReady ==
    /\ phase = "running"
    /\ visiting # <<>>

Ready ==
    /\ phase = "running"
    /\ visiting # <<>>
    /\ ToSet(plan[Head(visiting)].deps) \subseteq completed

\* The node stays in the list.
MutantRunNode ==
    LET s == Head(visiting)
        node == plan[s]
    IN  /\ Ready
        /\ ~ Raises(node, references)
        /\ made' = [made EXCEPT ![s] = NodeMakes(s, node, references)]
        /\ reads' = [reads EXCEPT ![s] = NodeReads(node, references)]
        /\ completed' = completed \cup {s}
        /\ visiting' = Tail(visiting)
        /\ progressed' = TRUE
        /\ UNCHANGED <<plan, source, phase, preflighted, pending, references, artifacts>>

RunNode ==
    LET s == Head(visiting)
        node == plan[s]
        file == NodeMakes(s, node, references)
    IN  /\ Ready
        /\ ~ Raises(node, references)
        /\ references' = Register(references, node.out, file)
        /\ made' = [made EXCEPT ![s] = file]
        /\ reads' = [reads EXCEPT ![s] = NodeReads(node, references)]
        /\ artifacts' = IF node.op = "artifact.export"
                        THEN [artifacts EXCEPT ![s] = Exported(node, references)]
                        ELSE artifacts
        /\ completed' = completed \cup {s}
        /\ pending' = RemoveFirst(pending, s)
        /\ visiting' = Tail(visiting)
        /\ progressed' = TRUE
        /\ UNCHANGED <<plan, source, phase, preflighted>>

\* An exception of a node ends the run: for want of a source, over a format,
\* or over its data.
FailNode ==
    LET node == plan[Head(visiting)]
    IN  /\ Ready
        /\ \/ SourceMissing(node, references) /\ phase' = "source missing"
           \/ ~ SourceMissing(node, references) /\ ExportRefused(node, references)
              /\ phase' = "export refused"
           \/ ~ Raises(node, references) /\ phase' = "tool failed"
        /\ UNCHANGED <<plan, source, preflighted, runVars>>

EndPass ==
    /\ phase = "running"
    /\ visiting = <<>>
    /\ phase' = IF ~ progressed THEN "stuck"
                ELSE IF pending = <<>> THEN "done" ELSE "running"
    /\ visiting' = pending
    /\ progressed' = FALSE
    /\ UNCHANGED <<plan, source, preflighted, pending, completed, references, made, reads, artifacts>>

\* One step of the thread that runs the pipeline.
Run == SkipNode \/ RunNode \/ FailNode \/ EndPass

Next == Hand \/ Build \/ Approve \/ TakeUnreviewed \/ Start \/ Run

\* Nothing makes that thread wait.
Spec == Init /\ [][Next]_vars /\ WF_vars(Run)

(***************************************************************************)
(* What holds of the plans that are accepted, and what each run reads.     *)
(***************************************************************************)

\* _detect_cycle refuses exactly the dependencies that have a cycle: a
\* diamond is none, a step that names itself is one.
CyclesAreFound ==
    phase = "draft" /\ KnownDependencies(plan)
        => (DetectCycle(plan) <=> HasCycle(plan))

\* The order in which the chain of inputs is validated has every node of the
\* plan, once, after its dependencies: none escapes validation, whether or
\* not a dependency is named twice.
SortRespectsDependencies ==
    phase = "draft" /\ KnownDependencies(plan) /\ ~ HasCycle(plan)
        => LET order == TopologicalSort(plan)
           IN  /\ DOMAIN order = Steps(plan)
               /\ ToSet(order) = Steps(plan)
               /\ \A i, j \in DOMAIN order :
                      order[i] \in ToSet(plan[order[j]].deps) => i < j

\* No plan that gets as far as the pipeline has dependencies its passes
\* cannot resolve.
NeverStuck == phase # "stuck"

(***************************************************************************)
(* The step whose output an input of node s names, if it is one that s has *)
(* among its dependencies or theirs.                                       *)
(***************************************************************************)
WiredTo(s, key) ==
    {p \in Ancestors(plan, s) :
        key \in DOMAIN plan[s].inputs /\ plan[s].inputs[key] = plan[p].out}

\* The vector upload of a file that is there and that the pipeline does not
\* open as one: a .zip, .shp or .gpkg that the session took, or a raster.
Unopened(p) == plan[p].op = "input.upload_vector" /\ made[p].type # "vector"

\* A node that names the output of a node it depends on reads that output,
\* and for one source only that, whatever else was registered before.  Two
\* kinds of names are dropped without a word, in a plan that passed guard and
\* preflight: those of the sources of a mosaic, since `rasters` is never looked
\* up, and those of an unopened upload, for which a vector operation computes
\* with its other geometries or, having none, with the demonstration one.
DeclaredWiringIsRead ==
    \A s \in completed :
        \A key \in DOMAIN reads[s] \ {"rasters", "upload_id"} :
            \A p \in WiredTo(s, key) :
                /\ made[p] \in reads[s][key] \/ Unopened(p)
                /\ key \in {"raster", "primary"} => reads[s][key] = {made[p]}

\* What DeclaredWiringIsRead promises is found at all: a run that ends for
\* want of a source ends at an upload, at a mosaic, or at a node with an input
\* that names no output of a node it depends on, or an unopened upload.
WiredNodesFindSources ==
    phase = "source missing" =>
        LET s == Head(visiting)
        IN  \/ plan[s].op \in Uploads \cup {"raster.mosaic"}
            \/ \E key \in DOMAIN InputTypes(plan[s].op) :
                   \A p \in WiredTo(s, key) : Unopened(p)

\* An export of a node it depends on exports that node's file in every format
\* that can hold it, and not the raster that was registered first.  A file
\* that the pipeline opens neither as a raster nor as a vector has no such
\* format: in a vector format the export of a .zip, .shp or .gpkg upload holds
\* another vector of the plan, or the demonstration geometry.
ExportsWhatIsWired ==
    \A s \in completed :
        \A p \in WiredTo(s, "primary") :
            \A i \in DOMAIN artifacts[s] :
                LET format == Formats(plan[s])[i]
                IN  \/ made[p].type = "raster" /\ format \in Rasters
                    \/ made[p].type = "vector" /\ ToSet(Formats(plan[s])) \subseteq Vectors
                    => artifacts[s][i].from = made[p].from

\* A run whose uploads passed the preflight finds the source of every upload,
\* and it is the file the node names.
PreflightHolds ==
    preflighted =>
        /\ phase = "source missing" => plan[Head(visiting)].op \notin Uploads
        /\ \A s \in completed :
              plan[s].op \in Uploads /\ Given(plan[s].inputs, "upload_id") \notin {plan[p].out : p \in Steps(plan)}
                  => made[s] = FileAt(plan[s].params["source_path"])

\* A run ends: the passes neither starve a node nor repeat for ever.
RunEnds == phase = "running" ~> phase # "running"
=============================================================================
