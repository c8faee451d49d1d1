--------------------------- MODULE ResponsePolicy ---------------------------
(***************************************************************************)
(* How sure the program is of each field of a request, and what it answers *)
(* on that: the scores of understanding.py, the share of the session's     *)
(* history in them (session_memory_confidence.py) and the decision of      *)
(* response_policy.py.                                                     *)
(*                                                                         *)
(* Scores are in hundredths where the code writes a literal, confidences   *)
(* in ten-thousandths.  No confidence falls on a threshold by rounding:    *)
(* below the high threshold the code's products are never a multiple of a  *)
(* hundred.                                                                *)
(***************************************************************************)
EXTENDS Integers, TaskParser

KeyFields == {"aoi_input", "aoi_source_type", "time_range", "analysis_type"}
Intents == {"task_correction", "task_confirmation", "task_followup", "new_task",
            "chat", "ambiguous"}
TaskLikeIntents == Intents \ {"chat", "ambiguous"}
BaseIntents == {"task", "chat", "ambiguous"}
Modes == {"ask_missing_fields", "chat_reply", "show_revision",
          "confirm_understanding", "execute_now"}

MediumThreshold == 6000
HighThreshold == 8000

\* What the session remembers of a field.
Histories == [accepted : Nat, corrected : Nat, contradicted : Nat, ignored : Nat,
              confirmed : BOOLEAN]

Best(scores) == CHOOSE best \in scores : \A score \in scores : score <= best
AtMost(number, limit) == IF number < limit THEN number ELSE limit
-----------------------------------------------------------------------------
\* _build_revision_field_overlap: `rev` is the session's active revision,
\* whose stored specification has every key, also the ones without a value.
Overlap(text, rev) ==
    LET named ==
            \/ text.file
            \/ text.area = "bbox" /\ "bbox" \in {rev.spec.source, rev.spec.area}
            \/ /\ text.area = "admin"
               /\ \/ rev.spec.source \in {"admin_name", "place_alias"}
                  \/ rev.spec.area = "admin"
        repeated == text.area # "none" /\ text.area = rev.spec.area
    IN  {field \in KeyFields :
           /\ rev.known
           /\ \/ named /\ field \in {"aoi_input", "aoi_source_type"}
              \/ text.change /\ field # "analysis_type"
              \/ ~named /\ ~text.change /\ repeated /\ field = "aoi_input"}

\* _expand_intent.
ExpandIntent(base, text, rev) ==
    IF text.change /\ rev.known THEN "task_correction"
    ELSE IF text.confirm /\ rev.known THEN "task_confirmation"
    ELSE IF base = "task"
    THEN IF rev.known /\ Overlap(text, rev) # {} THEN "task_followup" ELSE "new_task"
    ELSE base

\* _looks_like_analysis_message.
NamesAnalysis(text, type) ==
    \/ type = "NDVI" /\ text.hint = "ndvi"
    \/ type = "CLIP" /\ text.clip
    \/ type \notin {"NDVI", "CLIP"} /\ text.verb

\* The score of what the parser extracted for a field; 0 for nothing.
ParserScore(field, spec) ==
    CASE field = "aoi_input" /\ spec.area # "none" -> 78
      [] field = "aoi_source_type" /\ spec.source # "none" -> 76
      [] field = "time_range" /\ spec.time -> 80
      [] field = "analysis_type" -> IF spec.type = "WORKFLOW" THEN 72 ELSE 80
      [] OTHER -> 0

\* The scores of the hints in the message and its context, field by field.
AreaSignals(text, rev) ==
    {score \in {86, 88, 90, 92} :
        \/ score = 86 /\ "aoi_input" \in Overlap(text, rev)
        \/ score = 90 /\ text.file
        \/ score = 92 /\ text.area = "bbox"
        \/ score = 88 /\ text.area = "admin"}

SourceSignals(spec, text) ==
    {score \in {88, 92} :
        \/ score = 92 /\ text.file /\ spec.source = "file_upload"
        \/ score = 92 /\ text.area = "bbox" /\ spec.source = "bbox"
        \/ /\ score = 88
           /\ text.area = "admin"
           /\ spec.source \in {"admin_name", "place_alias"}}

TimeSignals(spec, text, rev) ==
    {score \in {86, 90} :
        \/ score = 90 /\ spec.time /\ text.time
        \/ score = 86 /\ "time_range" \in Overlap(text, rev)}

TypeSignals(spec, text, intent) ==
    {score \in {82, 90} :
        \/ score = 90 /\ NamesAnalysis(text, spec.type)
        \/ score = 82 /\ intent \in {"task_correction", "task_followup"}}

SignalScores(field, spec, text, rev, intent) ==
    CASE field = "aoi_input" -> AreaSignals(text, rev)
      [] field = "aoi_source_type" -> SourceSignals(spec, text)
      [] field = "time_range" -> TimeSignals(spec, text, rev)
      [] OTHER -> TypeSignals(spec, text, intent)

BaseScore(field, spec, text, rev, intent) ==
    Best({0, ParserScore(field, spec)} \cup SignalScores(field, spec, text, rev, intent))

ParserWeight(field) == IF field \in {"aoi_input", "time_range"} THEN 55 ELSE 50

MutantHistoryShare(h) ==
    800 * AtMost(h.accepted, 6) + 400 * AtMost(h.corrected, 4)
      - 700 * AtMost(h.contradicted, 4) - 400 * AtMost(h.ignored, 4)
      + (IF h.confirmed THEN 200 ELSE 0)

\* The part of compute_field_confidence that comes from the history.
HistoryShare(h) ==
    800 * AtMost(h.accepted, 4) + 400 * AtMost(h.corrected, 4)
      - 700 * AtMost(h.contradicted, 4) - 400 * AtMost(h.ignored, 4)
      + (IF h.confirmed THEN 200 ELSE 0)

\* _apply_history_confidence.  The weight of a hint never exceeds its score,
\* so the score itself is the current signal; without a parser item half the
\* score takes the parser's place.
Confidence(field, spec, text, rev, intent, h) ==
    LET score == BaseScore(field, spec, text, rev, intent)
        parser == IF ParserScore(field, spec) # 0
                  THEN 45 * ParserWeight(field)
                  ELSE (45 * score) \div 2
        blended == parser + 35 * score + HistoryShare(h)
    IN  Best({100 * score, AtMost(blended, 10000)})
-----------------------------------------------------------------------------
\* _required_fields; without a parsed specification the revision's type.
RequiredFields(parsed, spec, rev) ==
    LET type == IF parsed THEN spec.type
                ELSE IF rev.known THEN rev.spec.type ELSE "WORKFLOW"
    IN  IF IsTimed(type) THEN KeyFields ELSE KeyFields \ {"time_range"}

\* _key_field_levels: without a parsed specification nothing is known.
Below(threshold, field, parsed, spec, text, rev, intent, h) ==
    ~parsed \/ Confidence(field, spec, text, rev, intent, h) < threshold

LowFields(parsed, spec, text, rev, intent, h) ==
    {field \in RequiredFields(parsed, spec, rev) :
        \/ Below(MediumThreshold, field, parsed, spec, text, rev, intent, h)
        \/ parsed /\ field \in spec.missing}

UnsureFields(parsed, spec, text, rev, intent, h) ==
    {field \in RequiredFields(parsed, spec, rev) :
        Below(HighThreshold, field, parsed, spec, text, rev, intent, h)}

\* decide_response.  `cautious` is _should_force_confirmation.
DecideResponse(intent, parsed, spec, text, rev, h, cautious) ==
    IF rev.known /\ rev.blocked THEN "ask_missing_fields"
    ELSE IF intent = "chat" THEN "chat_reply"
    ELSE IF LowFields(parsed, spec, text, rev, intent, h) # {}
    THEN "ask_missing_fields"
    ELSE IF intent = "task_correction" /\ rev.known THEN "show_revision"
    ELSE IF cautious \/ UnsureFields(parsed, spec, text, rev, intent, h) # {}
    THEN "confirm_understanding"
    ELSE "execute_now"
=============================================================================
