------------------------ MODULE ProcessingPipelineMC ------------------------
(***************************************************************************)
(* Families of small plans for TLC.                                        *)
(***************************************************************************)
EXTENDS ProcessingPipeline

None == <<>>

Refs == <<"r1", "r2", "r3", "r4">>

Upload(file, out) ==
    [op |-> "input.upload_raster", deps |-> None, inputs |-> "upload_id" :> "file",
     params |-> "source_path" :> file, out |-> out]
UploadVector(file, out) == [Upload(file, out) EXCEPT !.op = "input.upload_vector"]

Unary(inputs, out) ==
    [op |-> "raster.reproject", deps |-> None, inputs |-> inputs, params |-> None, out |-> out]
Of(ref) == "raster" :> ref

(***************************************************************************)
(* Three nodes with every way to depend on each other, themselves, or a    *)
(* step that is not there, once or twice.                                  *)
(***************************************************************************)
Dependencies ==
    {<<>>, <<1>>, <<2>>, <<3>>, <<4>>, <<1, 2>>, <<1, 1>>, <<2, 3>>}

Wired(refs, out) ==
    {Upload("/in.tif", out)} \cup {Unary(i, out) : i \in {None} \cup {Of(ref) : ref \in refs}}

OrderedPlans ==
    {<<[n1 EXCEPT !.deps = d1], [n2 EXCEPT !.deps = d2], [n3 EXCEPT !.deps = d3]>> :
        n1 \in Wired({"r2"}, "r1"), n2 \in Wired({"r1"}, "r2"),
        n3 \in {Unary(Of("r1"), "r3"), Unary(Of("r2"), "r3"), Unary(Of("r1"), "r2")},
        d1 \in Dependencies, d2 \in Dependencies, d3 \in Dependencies}

(***************************************************************************)
(* Chains of an upload, an operation and an export, with the values that   *)
(* the guard and the pipeline may read differently.                        *)
(***************************************************************************)
Sources == {Upload(f, "r1") : f \in {"/in.tif", "/lost.tif", "/in.geojson"}}
           \cup {UploadVector(f, "r1") : f \in {"/in.geojson", "/in.zip", "/in.tif"}}
           \cup {[Upload("/in.tif", "r1") EXCEPT !.params = None]}

Node(op, inputs, params) ==
    [op |-> op, deps |-> <<1>>, inputs |-> inputs, params |-> params, out |-> "r2"]

Values ==
    {"r1", " r1", "/other.tif", "/in.img", "/in.geojson", "/lost.geojson", "/in.zip",
     "/dir/in", "{geometry}", "[bbox]", "bbox()"}

Given1(keys) == {k :> v : k \in keys, v \in Values \ {"r1", " r1"}} \cup {None}
Input(key) == {key :> v : v \in Values} \cup {None}

Middles ==
    {Node("raster.clip", i @@ a, p) : i \in {None, Of("r1"), Of(" r1")},
        a \in Input("aoi"), p \in Given1({"aoi_path", "overlay_path", "bbox"})}
    \cup {Node("raster.zonal_stats", Of("r1") @@ z, p) :
        z \in Input("zones"), p \in Given1({"zones_path", "zones_bbox", "aoi_path"})}
    \cup {Node("raster.mosaic", i, p) :
        i \in {None, "rasters" :> "r1", "rasters" :> "/other.tif"},
        p \in {None, "source_path" :> "/other.tif", "source_paths" :> "/other.tif"}}
    \cup {Node(op, i @@ v, p) : op \in {"raster.mask", "raster.rasterize"},
        i \in {None, Of("r1")}, v \in Input("vector"), p \in Given1({"source_path"})}
    \cup {Node("vector.buffer", v, p) : v \in Input("vector"), p \in Given1({"source_path"})}
    \cup {Node("vector.clip", "vector" :> "r1" @@ c, p) :
        c \in Input("clip_vector"), p \in Given1({"clip_geometry", "clip_path"})}
    \cup {Node("raster.reproject", i, p) : i \in Input("raster"), p \in Given1({"source_path"})}

ExportNode(ref, formats, params) ==
    [op |-> "artifact.export", deps |-> <<2>>, inputs |-> "primary" :> ref,
     params |-> "formats" :> formats @@ params, out |-> "r3"]

Exports ==
    {ExportNode(ref, <<"geotiff", "png_map">>, None) : ref \in {"r1", "r2"}}
    \cup {ExportNode("r2", f, None) :
            f \in {<<"geojson">>, <<"csv">>, <<"gpkg", "shapefile">>, <<"summary_md">>}}
    \cup {[ExportNode("r2", <<>>, "source_path" :> "/other.tif") EXCEPT !.inputs = None]}

RasterExport == ExportNode("r2", <<"geotiff", "png_map">>, None)

PlanFamilies ==
    {{<<>>}, OrderedPlans, {<<s, m, RasterExport>> : s \in Sources, m \in Middles},
     {<<Upload("/in.tif", "r1"), m, e>> : m \in Middles, e \in Exports},
     {<<UploadVector(f, "r1"), m, e>> :
         f \in {"/in.geojson", "/in.zip"}, m \in Middles,
         e \in {ExportNode(ref, f2, None) : ref \in {"r1", "r2"},
                                          f2 \in {<<"geojson">>, <<"gpkg", "shapefile">>}}}}

(***************************************************************************)
(* Requests: one to three operations, and what the user's message and the  *)
(* session's uploads give.                                                 *)
(***************************************************************************)
RequestOps ==
    {"input.upload_raster", "input.upload_vector", "raster.clip", "raster.band_math",
     "raster.zonal_stats", "raster.mosaic", "vector.buffer", "vector.clip", "artifact.export"}

OpSequences ==
    {ops \in UNION {[1..n -> RequestOps] : n \in 1..3} :
        Cardinality(ToSet(ops)) = Len(ops)} \cup {<<>>}

AllRequests ==
    {[ops |-> ops, paths |-> p, uploads |-> u] : ops \in OpSequences,
        p \in {None, "source_path" :> "/in.tif",
               "clip_path" :> "/in.geojson",
               "source_path" :> "/lost.tif" @@ "expression" :> "r1"},
        u \in {None, "raster" :> "/in.tif",
               "raster" :> "/in.tif" @@ "vector" :> "/in.geojson",
               "raster" :> "/in.tif" @@ "vector" :> "/in.zip"}}
=============================================================================
