----------------------------- MODULE TaskParser -----------------------------
(***************************************************************************)
(* parser.py: how the words of a message become a task specification, with *)
(* the language model, without it, and when it gives nothing usable.       *)
(*                                                                         *)
(* A text is what the parser's patterns find in it, a specification the    *)
(* fields that later code decides on.  "NDVI" stands for both analyses     *)
(* that need a time range, "BUFFER" for the geoprocessing ones that do     *)
(* not.                                                                    *)
(***************************************************************************)
EXTENDS FiniteSets

CONSTANTS
    LocalFilesOnly,  \* settings.local_files_only_mode
    LegacyFallback   \* settings.llm_parser_legacy_fallback

ASSUME ParserSettings == LocalFilesOnly \in BOOLEAN /\ LegacyFallback \in BOOLEAN

AnalysisTypes == {"CLIP", "NDVI", "BUFFER", "WORKFLOW"}
Areas == {"none", "bbox", "admin", "place", "uploaded"}
Sources == {"none", "bbox", "admin_name", "place_alias", "file_upload"}
Operations == {"raster.clip", "raster.band_math", "vector.buffer", "raster.resample"}
Gaps == {"operations", "source_path", "clip_path", "expression", "aoi",
         "aoi_input", "time_range", "aoi_boundary", "planning_context"}

\* The paths, operations and band expression of operation_params.
Params == [ops : SUBSET Operations, raster : BOOLEAN, vector : BOOLEAN, expr : BOOLEAN]

Texts == [area : Areas \ {"uploaded"}, file : BOOLEAN, time : BOOLEAN,
          hint : {"none", "ndvi", "buffer"}, clip : BOOLEAN, other : BOOLEAN,
          raster : BOOLEAN, vector : BOOLEAN, verb : BOOLEAN,
          change : BOOLEAN, confirm : BOOLEAN]

Specs == [area : Areas, source : Sources, time : BOOLEAN, type : AnalysisTypes,
          params : Params, missing : SUBSET Gaps, ask : BOOLEAN, failed : BOOLEAN]

\* What the model answers when its JSON passes the schema.
Payloads == [area : Areas \ {"uploaded"}, source : Sources, time : BOOLEAN,
             type : AnalysisTypes, params : Params, missing : SUBSET Gaps]
-----------------------------------------------------------------------------
IsTimed(type) == type = "NDVI"

IsClipRequest(text) == text.clip \/ (text.raster /\ text.vector)

DetectedType(text) ==
    CASE IsClipRequest(text) -> "CLIP"
      [] ~IsClipRequest(text) /\ text.hint = "ndvi" -> "NDVI"
      [] ~IsClipRequest(text) /\ text.hint = "buffer" -> "BUFFER"
      [] OTHER -> "WORKFLOW"

RequestedOperations(text) ==
    {op \in Operations :
        \/ op = "raster.band_math" /\ text.hint = "ndvi"
        \/ op = "vector.buffer" /\ text.hint = "buffer"
        \/ op = "raster.resample" /\ text.other
        \/ op = "raster.clip" /\ IsClipRequest(text)}

\* _enrich_operation_params_from_message: operations the text names are used
\* when none are given, and an index stands for its band expression.
Enrich(params, text, indexed) ==
    LET ops == IF params.ops # {} THEN params.ops ELSE RequestedOperations(text)
    IN  [params EXCEPT
           !.ops = ops,
           !.expr = @ \/ ("raster.band_math" \in ops /\ (indexed \/ text.hint = "ndvi"))]

SourceOf(area) ==
    CASE area = "bbox" -> "bbox"
      [] area = "admin" -> "admin_name"
      [] area = "place" -> "place_alias"
      [] area = "uploaded" -> "file_upload"
      [] OTHER -> "none"

MissingWhen(gap, absent) == IF absent THEN {gap} ELSE {}

\* _collect_missing_fields.
CollectMissing(type, area, time, params, upload) ==
    LET operations == MissingWhen("operations", params.ops = {})
        source     == MissingWhen("source_path", ~upload /\ ~params.raster)
        clip       == MissingWhen("clip_path",
                                  "raster.clip" \in params.ops /\ ~params.vector)
        expression == MissingWhen("expression",
                                  "raster.band_math" \in params.ops /\ ~params.expr)
    IN  CASE LocalFilesOnly -> operations \cup source \cup clip \cup expression
          [] ~LocalFilesOnly /\ type = "WORKFLOW" -> operations \cup expression
          [] ~LocalFilesOnly /\ type = "CLIP" ->
               MissingWhen("source_path", ~params.raster)
                 \cup MissingWhen("clip_path", ~params.vector)
          [] OTHER ->
               MissingWhen("aoi", area = "none")
                 \cup MissingWhen("time_range", IsTimed(type) /\ ~time)

\* _extract_aoi: local mode reads no place names.
ExtractArea(text, upload) ==
    IF text.area = "bbox" /\ (LocalFilesOnly \/ upload) THEN "bbox"
    ELSE IF upload /\ (text.file \/ (~LocalFilesOnly /\ text.area = "none"))
    THEN "uploaded"
    ELSE IF LocalFilesOnly THEN "none" ELSE text.area
-----------------------------------------------------------------------------
NoParams == [ops |-> {}, raster |-> FALSE, vector |-> FALSE, expr |-> FALSE]

ClipParams(text) ==
    [ops |-> {"raster.clip"}, raster |-> text.raster, vector |-> text.vector,
     expr |-> FALSE]

WrittenParams(text) == Enrich([NoParams EXCEPT !.raster = text.raster], text, FALSE)

\* _build_parse_state: what the patterns alone find.
ReadText(text, upload) ==
    IF IsClipRequest(text)
    THEN [area |-> IF upload /\ text.file THEN "uploaded" ELSE "none",
          time |-> FALSE, type |-> "CLIP", params |-> ClipParams(text)]
    ELSE LET params == WrittenParams(text) IN
         [area |-> ExtractArea(text, upload), time |-> text.time,
          type |-> DetectedType(text), params |-> params]

\* _parse_task_message_legacy.
LegacySpec(text, upload) ==
    LET read == ReadText(text, upload)
        gaps == CollectMissing(read.type, read.area, read.time, read.params, upload)
    IN  [area |-> read.area, source |-> SourceOf(read.area), time |-> read.time,
         type |-> read.type, params |-> read.params, missing |-> gaps,
         ask |-> gaps # {}, failed |-> FALSE]

\* _build_parser_failure_spec: the model gave no usable JSON.
FailureSpec(text, upload) ==
    LET clip   == IsClipRequest(text)
        params == Enrich([NoParams EXCEPT !.raster = text.raster,
                                          !.vector = clip /\ text.vector],
                         text, FALSE)
        area   == IF upload /\ ~clip THEN "uploaded" ELSE "none"
        type   == DetectedType(text)
        gaps   == CollectMissing(type, area, FALSE, params, upload)
        shown  == IF ~clip /\ gaps = {} THEN {"operations"} ELSE gaps
    IN  [area |-> area, source |-> SourceOf(area), time |-> FALSE, type |-> type,
         params |-> params, missing |-> shown, ask |-> shown # {},
         failed |-> TRUE]

\* _normalize_llm_parsed_spec: the model's answer, completed from the text.
ModelSpec(payload, text, upload) ==
    LET clip == payload.type = "CLIP"
        given == [payload.params EXCEPT
                    !.raster = @ \/ text.raster,
                    !.vector = @ \/ (clip /\ text.vector)]
        params == Enrich(given, text, IsTimed(payload.type))
        useFile ==
            /\ upload
            /\ payload.area = "none"
            /\ ~LocalFilesOnly \/ text.file \/ "raster.clip" \in params.ops
        area == IF useFile THEN "uploaded" ELSE payload.area
        source == CASE useFile -> "file_upload"
                    [] ~useFile /\ area # "none" /\ payload.source = "none" ->
                         IF upload THEN "file_upload" ELSE SourceOf(area)
                    [] OTHER -> payload.source
        gaps == {gap \in payload.missing
                          \cup CollectMissing(payload.type, area, payload.time,
                                              params, upload) :
                   gap # "time_range" \/ IsTimed(payload.type)}
    IN  [area |-> area, source |-> source, time |-> payload.time,
         type |-> payload.type, params |-> params, missing |-> gaps,
         ask |-> gaps # {}, failed |-> FALSE]

\* What parse_task_message returns when the model fails for good.
FallbackSpec(text, upload) ==
    IF LegacyFallback THEN LegacySpec(text, upload) ELSE FailureSpec(text, upload)

\* parse_followup_override_message: the fields a text changes.
Overrides(text) ==
    LET read == ReadText(text, FALSE) IN
    {field \in {"area", "time"} :
        \/ field = "area" /\ read.area # "none"
        \/ field = "time" /\ read.time}

\* _merge_task_spec: everything else, the open questions too, is the parent's.
MergeSpec(base, text) ==
    LET read == ReadText(text, FALSE)
        over == Overrides(text)
    IN  [base EXCEPT
           !.area = IF "area" \in over THEN read.area ELSE @,
           !.source = IF "area" \in over THEN SourceOf(read.area) ELSE @,
           !.time = @ \/ "time" \in over]
=============================================================================
