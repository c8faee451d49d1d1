--------------------------- MODULE OperationPlans ---------------------------
(***************************************************************************)
(* An operation plan and the registry of operations (schemas/              *)
(* operation_plan.py, services/operation_registry.py).                     *)
(*                                                                         *)
(* A plan is a sequence of nodes; the step_id of a node is its position,   *)
(* which is what the schema's uniqueness check gives.  depends_on is a     *)
(* sequence, in which a step may stand twice.  Every operation has one     *)
(* output, so `out` is the reference the node's outputs map gives it.      *)
(* Inputs and params are functions on the keys that are present.           *)
(***************************************************************************)
EXTENDS Integers, Sequences, FiniteSets, SequencesExt, TLC

RasterUnary ==
    {"raster.reproject", "raster.resample", "raster.band_math",
     "raster.terrain_slope", "raster.terrain_aspect", "raster.hillshade",
     "raster.reclassify"}
VectorUnary ==
    {"vector.buffer", "vector.dissolve", "vector.reproject",
     "vector.simplify", "vector.repair"}
VectorOverlay ==
    {"vector.intersection", "vector.union", "vector.erase",
     "vector.spatial_join"}
Uploads == {"input.upload_raster", "input.upload_vector"}

\* input_types of OPERATION_SPECS: which operations take an input, and its type.
Takers ==
    [upload_id   |-> Uploads,
     raster      |-> RasterUnary \cup {"raster.clip", "raster.zonal_stats",
                                       "raster.mask", "raster.rasterize"},
     aoi         |-> {"raster.clip"},
     zones       |-> {"raster.zonal_stats"},
     rasters     |-> {"raster.mosaic"},
     vector      |-> VectorUnary \cup VectorOverlay
                     \cup {"vector.clip", "raster.mask", "raster.rasterize"},
     clip_vector |-> {"vector.clip"},
     overlay     |-> VectorOverlay,
     primary     |-> {"artifact.export"}]

TypeTaken ==
    [upload_id |-> "uploaded_file", raster |-> "raster", rasters |-> "raster[]",
     aoi |-> "vector", zones |-> "vector", vector |-> "vector",
     clip_vector |-> "vector", overlay |-> "vector", primary |-> "any"]

InputTypes(op) ==
    [key \in {k \in DOMAIN Takers : op \in Takers[k]} |-> TypeTaken[key]]

\* The type of output_types' single entry.
OutputType(op) ==
    IF op = "artifact.export" THEN "artifact"
    ELSE IF op = "raster.zonal_stats" THEN "table"
    ELSE IF op \in VectorUnary \cup VectorOverlay \cup {"vector.clip", "input.upload_vector"}
    THEN "vector" ELSE "raster"

\* required_params; required_param_any is empty throughout the registry.
RequiredParams(op) ==
    {p \in {"source_path", "expression"} :
        op \in IF p = "source_path" THEN Uploads ELSE {"raster.band_math"}}

\* The default "formats" of artifact.export.
DefaultFormats == <<"geotiff", "png_map", "summary_md">>

(***************************************************************************)
(* Files.  Two readers look at the suffix of a path, and they differ.  The *)
(* other values of an input or a param are a GeoJSON dict, a list of four  *)
(* numbers, the text "bbox(...)", and plain text.                          *)
(***************************************************************************)

\* The guard's (_infer_ref_base_type): .img stands for the rasters, .zip for
\* the vectors (.shp, .gpkg, .kml, .wkt), that only the guard takes for one.
PathType ==
    [p \in {"/in.tif", "/other.tif", "/lost.tif", "/in.img",
            "/in.geojson", "/lost.geojson", "/in.zip", "/dir/in"} |->
        IF p \in {"/in.tif", "/other.tif", "/lost.tif", "/in.img"} THEN "raster"
        ELSE IF p = "/dir/in" THEN "unknown" ELSE "vector"]

\* The pipeline opens .tif, .tiff, .geojson and .json; any other path is no
\* raster and no vector to it.
Opened == {"/in.tif", "/other.tif", "/lost.tif", "/in.geojson", "/lost.geojson"}

\* The paths that name a file that is not there.
Lost == {"/lost.tif", "/lost.geojson", "/dir/in"}

\* The file at a path, as the pipeline sees it.
FileAt(v) ==
    [type |-> IF v \in Opened THEN PathType[v] ELSE "unknown",
     ok   |-> v \in DOMAIN PathType \ Lost,
     from |-> v]

\* What str.strip() makes of a reference.
Strip(v) == IF v = " r1" THEN "r1" ELSE v

Given(fn, key) == IF key \in DOMAIN fn THEN fn[key] ELSE ""

\* fn[key] = v, in a dict.
With(fn, key, v) == [k \in DOMAIN fn \cup {key} |-> IF k = key THEN v ELSE fn[k]]

Steps(plan) == DOMAIN plan

\* The sets of steps that hold all that step s, or one of theirs, waits for.
ClosedFrom(plan, s) ==
    {c \in SUBSET Steps(plan) :
        \A d \in c \cup {s} : ToSet(plan[d].deps) \cap Steps(plan) \subseteq c}

\* The steps that step s waits for, those they wait for, and so on.
Ancestors(plan, s) == {p \in Steps(plan) : \A c \in ClosedFrom(plan, s) : p \in c}

HasCycle(plan) == \E s \in Steps(plan) : s \in Ancestors(plan, s)
=============================================================================
