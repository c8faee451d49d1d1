------------------------ MODULE MessageIntakeProofs ------------------------
(***************************************************************************)
(* Proofs about the policy and the intake of a message, for every history, *)
(* every text and every answer of the parser's model.                      *)
(***************************************************************************)
EXTENDS MessageIntake, TLAPS

ParserScores == {0, 72, 76, 78, 80}
SignalValues == {82, 86, 88, 90, 92}
ActingModes == {"execute_now", "confirm_understanding", "show_revision"}

HasEvidence(s, text, rev, i) ==
    \A field \in RequiredFields(TRUE, s, rev) : BaseScore(field, s, text, rev, i) > 0
-----------------------------------------------------------------------------
(* The score of a field.                                                   *)

\* Of a set of scores with 0 in it, Best is the greatest.
LEMMA BestIsGreatest ==
    ASSUME NEW S \in SUBSET (ParserScores \cup SignalValues), 0 \in S
    PROVE  /\ Best(S) \in S
           /\ \A score \in S : score <= Best(S)
<1>1. \E best \in S : \A score \in S : score <= best
  <2>1. ASSUME NEW best \in ParserScores \cup SignalValues, best \in S,
               \A score \in S : score <= best
        PROVE  \E b \in S : \A score \in S : score <= b
    BY <2>1
  <2>2. CASE 92 \in S
    BY <2>2 DEF ParserScores, SignalValues
  <2>3. CASE 92 \notin S /\ 90 \in S
    BY <2>3 DEF ParserScores, SignalValues
  <2>4. CASE S \cap {90, 92} = {} /\ 88 \in S
    BY <2>4 DEF ParserScores, SignalValues
  <2>5. CASE S \cap {88, 90, 92} = {} /\ 86 \in S
    BY <2>5 DEF ParserScores, SignalValues
  <2>6. CASE S \cap {86, 88, 90, 92} = {} /\ 82 \in S
    BY <2>6 DEF ParserScores, SignalValues
  <2>7. CASE S \cap SignalValues = {} /\ 80 \in S
    BY <2>7 DEF ParserScores, SignalValues
  <2>8. CASE S \cap SignalValues = {} /\ 80 \notin S /\ 78 \in S
    BY <2>8 DEF ParserScores, SignalValues
  <2>9. CASE S \subseteq {0, 72, 76} /\ 76 \in S
    BY <2>9
  <2>10. CASE S \subseteq {0, 72}
    BY <2>10
  <2> QED
    BY <2>2, <2>3, <2>4, <2>5, <2>6, <2>7, <2>8, <2>9, <2>10
       DEF ParserScores, SignalValues
<1> QED
  BY <1>1 DEF Best

\* A field for which the parser and the hints give nothing has score 0.
LEMMA NoEvidence ==
    ASSUME NEW field, NEW s, NEW text, NEW rev, NEW i,
           ~(BaseScore(field, s, text, rev, i) > 0)
    PROVE  BaseScore(field, s, text, rev, i) = 0 /\ ParserScore(field, s) = 0
<1> DEFINE S == {0, ParserScore(field, s)} \cup SignalScores(field, s, text, rev, i)
<1>1. ParserScore(field, s) \in ParserScores
  BY DEF ParserScore, ParserScores
<1>2. SignalScores(field, s, text, rev, i) \subseteq SignalValues
  BY DEF SignalScores, AreaSignals, SourceSignals, TimeSignals, TypeSignals,
         SignalValues
<1>3. S \in SUBSET (ParserScores \cup SignalValues) /\ 0 \in S
  BY <1>1, <1>2 DEF ParserScores
<1>4. Best(S) \in S /\ \A score \in S : score <= Best(S)
  BY <1>3, BestIsGreatest
<1>5. BaseScore(field, s, text, rev, i) = Best(S)
  BY DEF BaseScore
<1>6. \A score \in S : score \in Int /\ score >= 0
  BY <1>3 DEF ParserScores, SignalValues
<1>7. ParserScore(field, s) \in S
  OBVIOUS
<1> HIDE DEF S
<1>8. Best(S) = 0
  BY <1>4, <1>5, <1>6
<1> QED
  BY <1>1, <1>4, <1>5, <1>7, <1>8 DEF ParserScores

\* However favourable a history is, its share stays below the medium
\* threshold.
LEMMA HistoryIsBounded ==
    ASSUME NEW h \in Histories
    PROVE  HistoryShare(h) \in Int /\ HistoryShare(h) <= 5000
<1>1. /\ h.accepted \in Nat /\ h.corrected \in Nat
      /\ h.contradicted \in Nat /\ h.ignored \in Nat
  BY DEF Histories
<1>2. \A n \in Nat : AtMost(n, 4) \in 0..4
  BY DEF AtMost
<1>3. /\ AtMost(h.accepted, 4) \in 0..4 /\ AtMost(h.corrected, 4) \in 0..4
      /\ AtMost(h.contradicted, 4) \in 0..4 /\ AtMost(h.ignored, 4) \in 0..4
  BY <1>1, <1>2
<1> QED
  BY <1>3 DEF HistoryShare

\* Without evidence the confidence is what the history gives.
LEMMA NoEvidenceIsLow ==
    ASSUME NEW field, NEW s, NEW text, NEW rev, NEW i, NEW h \in Histories,
           ~(BaseScore(field, s, text, rev, i) > 0)
    PROVE  Confidence(field, s, text, rev, i, h) < MediumThreshold
<1> DEFINE share == AtMost(HistoryShare(h), 10000)
<1>1. BaseScore(field, s, text, rev, i) = 0 /\ ParserScore(field, s) = 0
  BY NoEvidence
<1>2. HistoryShare(h) \in Int /\ HistoryShare(h) <= 5000
  BY HistoryIsBounded
<1>3. (45 * 0) \div 2 + 35 * 0 + HistoryShare(h) = HistoryShare(h) /\ 100 * 0 = 0
  BY <1>2
<1>4. Confidence(field, s, text, rev, i, h) = Best({0, share})
  BY <1>1, <1>3 DEF Confidence
<1>5. share \in Int /\ share <= 5000
  BY <1>2 DEF AtMost
<1>6. \E best \in {0, share} : \A score \in {0, share} : score <= best
  BY <1>5
<1>7. Best({0, share}) \in {0, share}
  BY <1>6 DEF Best
<1> QED
  BY <1>4, <1>5, <1>7 DEF MediumThreshold

\* decide_response acts on a request only if something speaks for every field
\* the request needs.
LEMMA DecidesOnEvidence ==
    ASSUME NEW i, NEW s, NEW text, NEW rev, NEW h \in Histories, NEW cautious,
           DecideResponse(i, i \in TaskLikeIntents, s, text, rev, h, cautious)
             \in ActingModes
    PROVE  HasEvidence(s, text, rev, i)
<1> DEFINE parsed == i \in TaskLikeIntents
<1>1. LowFields(parsed, s, text, rev, i, h) = {}
  BY DEF DecideResponse, ActingModes
<1>2. "aoi_input" \in RequiredFields(parsed, s, rev)
  BY DEF RequiredFields, KeyFields
<1>3. i \in TaskLikeIntents
  BY <1>1, <1>2 DEF LowFields, Below
<1>4. ASSUME NEW field \in RequiredFields(TRUE, s, rev)
      PROVE  ~(Confidence(field, s, text, rev, i, h) < MediumThreshold)
  BY <1>1, <1>3 DEF LowFields, Below
<1> QED
  BY <1>4, NoEvidenceIsLow DEF HasEvidence

\* No history makes the program act on a field nothing speaks for: the
\* property ActsOnEvidence of the runs, for every history, text and answer.
THEOREM EvidenceIsNeeded == Spec => ActsOnEvidence
<1> DEFINE Evidence == HasEvidence(spec, msg.text, latest, intent)
<1>1. ASSUME Next, stage = "decide", mode' \in ActingModes
      PROVE  Evidence
  <2>1. PICK h \in Remembered, cautious \in BOOLEAN : Decide(h, cautious)
    BY <1>1 DEF Next, Confirm, Receive, ParserAnswers, ParserFails, Parsed, Revise,
                Build, Activate, Resolve, Rerun, BuildFails, PlanFails, Plan, Commit
  <2>2. h \in Histories
    BY <2>1, IntakeInputs
  <2>3. mode' = DecideResponse(intent, intent \in TaskLikeIntents, spec, msg.text,
                               latest, h, cautious)
    BY <2>1 DEF Decide
  <2>4. DecideResponse(intent, intent \in TaskLikeIntents, spec, msg.text, latest, h,
                       cautious) \in ActingModes
    BY <1>1, <2>3
  <2> QED
    BY <2>2, <2>4, DecidesOnEvidence, Zenon
<1>2. ASSUME [Next]_vars, stage = "decide" /\ mode' \in ActingModes, ~UNCHANGED vars
      PROVE  Evidence
  BY <1>1, <1>2
<1>3. [Next]_vars => [stage = "decide" /\ mode' \in ActingModes => Evidence]_vars
  BY <1>2
<1> QED
  BY <1>3, PTL DEF Spec, ActsOnEvidence, ActingModes, HasEvidence
-----------------------------------------------------------------------------
(* The parser's specifications.                                            *)

LEMMA ParamsTyped ==
    ASSUME NEW params \in Params, NEW text \in Texts, NEW indexed \in BOOLEAN
    PROVE  Enrich(params, text, indexed) \in Params
<1>1. RequestedOperations(text) \in SUBSET Operations
  BY DEF RequestedOperations
<1> QED
  BY <1>1 DEF Enrich, Params

LEMMA SourceTyped == \A area \in Areas : SourceOf(area) \in Sources
  BY DEF SourceOf, Areas, Sources

LEMMA TypeDetected == \A text : DetectedType(text) \in AnalysisTypes
  BY DEF DetectedType, AnalysisTypes

LEMMA GapsTyped ==
    ASSUME NEW type, NEW area, NEW time, NEW params, NEW upload
    PROVE  CollectMissing(type, area, time, params, upload) \in SUBSET Gaps
<1>1. \A gap \in Gaps : \A absent : MissingWhen(gap, absent) \in SUBSET Gaps
  BY DEF MissingWhen
<1> QED
  BY <1>1 DEF CollectMissing, Gaps

LEMMA NoParamsTyped == NoParams \in Params
  BY DEF NoParams, Params

LEMMA SpecTyped ==
    ASSUME NEW area \in Areas, NEW source \in Sources, NEW time \in BOOLEAN,
           NEW type \in AnalysisTypes, NEW params \in Params,
           NEW missing \in SUBSET Gaps, NEW ask \in BOOLEAN, NEW failed \in BOOLEAN
    PROVE  [area |-> area, source |-> source, time |-> time, type |-> type,
            params |-> params, missing |-> missing, ask |-> ask,
            failed |-> failed] \in Specs
  BY DEF Specs

\* What the patterns find has the types of a specification's fields.
LEMMA ReadTyped ==
    ASSUME NEW text \in Texts, NEW upload \in BOOLEAN
    PROVE  /\ ReadText(text, upload).area \in Areas
           /\ ReadText(text, upload).time \in BOOLEAN
           /\ ReadText(text, upload).type \in AnalysisTypes
           /\ ReadText(text, upload).params \in Params
<1>1. ClipParams(text) \in Params
  BY DEF ClipParams, Params, Operations, Texts
<1>2. WrittenParams(text) \in Params
  <2>1. [NoParams EXCEPT !.raster = text.raster] \in Params
    BY DEF NoParams, Params, Texts
  <2> QED
    BY <2>1, ParamsTyped DEF WrittenParams
<1>3. ExtractArea(text, upload) \in Areas
  BY DEF ExtractArea, Texts, Areas
<1>4. DetectedType(text) \in AnalysisTypes
  BY TypeDetected
<1>5. text.time \in BOOLEAN
  BY DEF Texts
<1> QED
  BY <1>1, <1>2, <1>3, <1>4, <1>5 DEF ReadText, Areas, AnalysisTypes

\* Whether the model answers or not, the parser returns a specification.
LEMMA FallbackTyped ==
    ASSUME NEW text \in Texts, NEW upload \in BOOLEAN
    PROVE  FallbackSpec(text, upload) \in Specs
<1>1. LegacySpec(text, upload) \in Specs
  <2> DEFINE read == ReadText(text, upload)
  <2> DEFINE gaps == CollectMissing(read.type, read.area, read.time, read.params, upload)
  <2>1. /\ read.area \in Areas /\ read.time \in BOOLEAN
        /\ read.type \in AnalysisTypes /\ read.params \in Params
    BY ReadTyped
  <2>2. SourceOf(read.area) \in Sources
    BY <2>1, SourceTyped
  <2>3. gaps \in SUBSET Gaps
    BY GapsTyped
  <2>4. LegacySpec(text, upload) =
          [area |-> read.area, source |-> SourceOf(read.area), time |-> read.time,
           type |-> read.type, params |-> read.params, missing |-> gaps,
           ask |-> gaps # {}, failed |-> FALSE]
    BY DEF LegacySpec
  <2> HIDE DEF read, gaps
  <2> QED
    BY <2>1, <2>2, <2>3, <2>4 DEF Specs
<1>2. FailureSpec(text, upload) \in Specs
  <2> DEFINE clip == IsClipRequest(text)
  <2> DEFINE given == [NoParams EXCEPT !.raster = text.raster,
                                       !.vector = clip /\ text.vector]
  <2> DEFINE params == Enrich(given, text, FALSE)
  <2> DEFINE area == IF upload /\ ~clip THEN "uploaded" ELSE "none"
  <2> DEFINE gaps == CollectMissing(DetectedType(text), area, FALSE, params, upload)
  <2> DEFINE shown == IF ~clip /\ gaps = {} THEN {"operations"} ELSE gaps
  <2>1. given \in Params
    BY DEF NoParams, Params, Texts
  <2>2. params \in Params
    BY <2>1, ParamsTyped
  <2>3. area \in Areas /\ SourceOf(area) \in Sources
    BY SourceTyped DEF Areas
  <2>4. gaps \in SUBSET Gaps
    BY GapsTyped
  <2>5. shown \in SUBSET Gaps
    BY <2>4 DEF Gaps
  <2>6. DetectedType(text) \in AnalysisTypes
    BY TypeDetected
  <2>7. FailureSpec(text, upload) =
          [area |-> area, source |-> SourceOf(area), time |-> FALSE,
           type |-> DetectedType(text), params |-> params, missing |-> shown,
           ask |-> shown # {}, failed |-> TRUE]
    BY DEF FailureSpec
  <2> HIDE DEF params, area, shown
  <2> QED
    BY <2>2, <2>3, <2>5, <2>6, <2>7 DEF Specs
<1> QED
  BY <1>1, <1>2 DEF FallbackSpec

LEMMA ModelTyped ==
    ASSUME NEW payload \in Payloads, NEW text \in Texts, NEW upload \in BOOLEAN
    PROVE  ModelSpec(payload, text, upload) \in Specs
<1> DEFINE clip == payload.type = "CLIP"
<1> DEFINE given == [payload.params EXCEPT
                       !.raster = @ \/ text.raster,
                       !.vector = @ \/ (clip /\ text.vector)]
<1> DEFINE params == Enrich(given, text, IsTimed(payload.type))
<1> DEFINE useFile == /\ upload
                      /\ payload.area = "none"
                      /\ ~LocalFilesOnly \/ text.file \/ "raster.clip" \in params.ops
<1> DEFINE area == IF useFile THEN "uploaded" ELSE payload.area
<1> DEFINE source == CASE useFile -> "file_upload"
                       [] ~useFile /\ area # "none" /\ payload.source = "none" ->
                            IF upload THEN "file_upload" ELSE SourceOf(area)
                       [] OTHER -> payload.source
<1> DEFINE gaps == {gap \in payload.missing
                             \cup CollectMissing(payload.type, area, payload.time,
                                                 params, upload) :
                      gap # "time_range" \/ IsTimed(payload.type)}
<1>1. /\ payload.area \in Areas /\ payload.source \in Sources
      /\ payload.time \in BOOLEAN /\ payload.type \in AnalysisTypes
      /\ payload.params \in Params /\ payload.missing \in SUBSET Gaps
  BY DEF Payloads
<1>2. text.raster \in BOOLEAN /\ text.vector \in BOOLEAN
  BY DEF Texts
<1>3. given \in Params
  BY <1>1, <1>2 DEF Params
<1>4. IsTimed(payload.type) \in BOOLEAN
  BY DEF IsTimed
<1>5. params \in Params
  BY <1>3, <1>4, ParamsTyped
<1>6. area \in Areas
  BY <1>1 DEF Areas
<1>7. SourceOf(area) \in Sources
  BY <1>6, SourceTyped
<1>8. source \in Sources
  <2> HIDE DEF useFile, area
  <2> QED
    BY <1>1, <1>7 DEF Sources
<1>9. CollectMissing(payload.type, area, payload.time, params, upload) \in SUBSET Gaps
  BY GapsTyped
<1>10. gaps \in SUBSET Gaps
  <2> HIDE DEF area, params
  <2> QED
    BY <1>1, <1>9
<1>11. ModelSpec(payload, text, upload) =
         [area |-> area, source |-> source, time |-> payload.time,
          type |-> payload.type, params |-> params, missing |-> gaps,
          ask |-> gaps # {}, failed |-> FALSE]
  BY DEF ModelSpec
<1> HIDE DEF area, source, params, gaps
<1> QED
  BY <1>1, <1>5, <1>6, <1>8, <1>10, <1>11 DEF Specs

LEMMA MergeTyped ==
    ASSUME NEW base \in Specs, NEW text \in Texts
    PROVE  MergeSpec(base, text) \in Specs
<1>1. ReadText(text, FALSE).area \in Areas
  BY ReadTyped
<1>2. SourceOf(ReadText(text, FALSE).area) \in Sources
  BY <1>1, SourceTyped
<1>3. base.time \in BOOLEAN /\ base.area \in Areas /\ base.source \in Sources
  BY DEF Specs
<1>4. ("time" \in Overrides(text)) \in BOOLEAN
  OBVIOUS
<1> QED
  BY <1>1, <1>2, <1>3, <1>4 DEF MergeSpec, Specs
-----------------------------------------------------------------------------
(* The types of the variables.                                             *)

LEMMA IdleTyped ==
    /\ NoText \in Texts /\ NoMessage \in [text : Texts, route : BaseIntents, base : BaseIntents]
    /\ NoSpec \in Specs /\ NoPlan \in Plans /\ NoTask \in Rows
<1>1. NoText \in Texts
  BY DEF NoText, Texts, Areas
<1>2. NoSpec \in Specs
  BY NoParamsTyped DEF NoSpec, Specs, Areas, Sources, AnalysisTypes
<1>3. NoPlan \in Plans
  BY DEF NoPlan, Plans
<1> QED
  BY <1>1, <1>2, <1>3 DEF NoMessage, NoTask, Rows, BaseIntents, Shapes, Statuses

LEMMA AnswerTyped ==
    ASSUME Answer
    PROVE  /\ stage' \in Stages /\ intent' \in Intents /\ files' \in SUBSET FileKinds
           /\ msg' \in [text : Texts, route : BaseIntents, base : BaseIntents]
           /\ spec' \in Specs /\ row' \in Rows
  BY IdleTyped DEF Answer, Stages, Intents

\* A refreshed, asking or drafted task is still a task.
LEMMA TaskUpdatesTyped ==
    ASSUME NEW task \in Rows
    PROVE  /\ AskForBoundary(task) \in Rows
           /\ Draft(task) \in Rows
           /\ \A found \in Shapes \cup {"error"} : Refresh(task, found) \in Rows
<1> DEFINE asks == [task.spec EXCEPT !.ask = TRUE, !.missing = @ \cup {"aoi_boundary"}]
           drafted == [task.plan EXCEPT !.op = "draft", !.ver = 1]
<1>1. asks \in Specs
  BY DEF Rows, Specs, Gaps
<1>2. drafted \in Plans
  <2>1. task.plan \in Plans
    BY DEF Rows
  <2>2. [task.plan EXCEPT !.op = "draft"] \in Plans
    BY <2>1 DEF Plans
  <2>3. ASSUME NEW p \in Plans PROVE [p EXCEPT !.ver = 1] \in Plans
    <3>1. 1 \in 0..1
      OBVIOUS
    <3>2. [p EXCEPT !.ver = 1] \in [st : {"ready", "needs_clarification"},
                                     op : {"none", "draft"}, ver : 0..1]
      BY <3>1, Zenon DEF Plans
    <3> QED
      BY <3>2 DEF Plans
  <2>4. drafted = [[task.plan EXCEPT !.op = "draft"] EXCEPT !.ver = 1]
    OBVIOUS
  <2> QED
    BY <2>2, <2>3, <2>4
<1>3. AskForBoundary(task) \in Rows
  <2>1. AskForBoundary(task) =
          [task EXCEPT !.status = "waiting_clarification", !.spec = asks]
    BY DEF AskForBoundary, Rows, Specs
  <2> HIDE DEF asks
  <2> QED
    BY <1>1, <2>1 DEF Rows, Statuses
<1>4. Draft(task) \in Rows
  <2>1. Draft(task) = IF task.approve /\ ~task.spec.ask
          THEN [task EXCEPT !.plan = drafted, !.status = "awaiting_approval",
                            !.cur = "awaiting_approval"]
          ELSE task
    BY DEF Draft, Rows, Plans
  <2> HIDE DEF drafted
  <2> QED
    BY <1>2, <2>1 DEF Rows, Statuses
<1>5. ASSUME NEW found \in Shapes \cup {"error"}
      PROVE  Refresh(task, found) \in Rows
  <2>1. Refresh(task, found) =
          IF found = "error" \/ (found = "none" /\ (task.spec.source = "file_upload"
                                                      \/ task.spec.area # "none"))
          THEN [task EXCEPT !.blocked = TRUE, !.status = "waiting_clarification",
                            !.cur = "normalize_aoi", !.spec = asks]
          ELSE [task EXCEPT !.blocked = FALSE,
                            !.shape = IF found = "none" THEN @ ELSE found]
    BY DEF Refresh, Rows, Specs
  <2>2. [task EXCEPT !.blocked = TRUE, !.status = "waiting_clarification",
                     !.cur = "normalize_aoi", !.spec = asks] \in Rows
    <3> HIDE DEF asks
    <3> QED
      BY <1>1 DEF Rows, Statuses
  <2>3. found # "error" =>
          [task EXCEPT !.blocked = FALSE,
                       !.shape = IF found = "none" THEN @ ELSE found] \in Rows
    BY DEF Rows, Shapes
  <2> HIDE DEF asks
  <2> QED
    BY <2>1, <2>2, <2>3
<1> QED
  BY <1>3, <1>4, <1>5

LEMMA InitTyped == Init => TypeOK
  BY IdleTyped, IntakeInputs DEF Init, TypeOK, Stages, Intents, Modes

LEMMA ReceiveTyped ==
    ASSUME TypeOK, NEW text \in Words, NEW route \in BaseIntents, NEW base \in BaseIntents,
           Receive(text, route, base)
    PROVE  TypeOK'
<1>1. text \in Texts
  BY IntakeInputs
<1>2. ExpandIntent(base, text, latest) \in Intents
  BY DEF ExpandIntent, BaseIntents, Intents
<1>3. turns' \in 0..MaxTurns
  BY IntakeInputs DEF TypeOK, Receive
<1> QED
  BY <1>1, <1>2, <1>3 DEF TypeOK, Receive, rowVars, Stages

LEMMA ConfirmTyped ==
    ASSUME TypeOK, NEW text \in Words, Confirm(text)
    PROVE  TypeOK'
<1>1. turns' \in 0..MaxTurns
  BY IntakeInputs DEF TypeOK, Confirm
<1> QED
  BY <1>1 DEF TypeOK, Confirm, rowVars, Stages, BaseIntents

LEMMA ParserTyped ==
    ASSUME TypeOK, NEW payload \in Payloads, ParserAnswers(payload) \/ ParserFails
    PROVE  TypeOK'
<1>1. HasUpload \in BOOLEAN
  BY DEF HasUpload, TypeOK, Texts
<1>2. msg.text \in Texts
  BY DEF TypeOK
<1>3. spec' \in Specs
  BY <1>1, <1>2, ModelTyped, FallbackTyped DEF ParserAnswers, ParserFails, Parsed
<1> QED
  BY <1>3 DEF TypeOK, ParserAnswers, ParserFails, Parsed, rowVars, Stages

LEMMA DecideTyped ==
    ASSUME TypeOK, NEW h, NEW cautious, Decide(h, cautious)
    PROVE  TypeOK'
<1>1. mode' \in Modes
  BY DEF Decide, DecideResponse, Modes
<1>2. asked' \in Texts
  BY IdleTyped DEF Decide, TypeOK
<1>3. CASE Answer
  BY <1>1, <1>2, <1>3, AnswerTyped DEF TypeOK, Decide
<1>4. CASE stage' \in {"revise", "reparse"} /\ UNCHANGED <<msg, intent, files, spec, row>>
  BY <1>1, <1>2, <1>4 DEF TypeOK, Decide, Stages
<1> QED
  BY <1>3, <1>4 DEF Decide

LEMMA ReviseTyped ==
    ASSUME TypeOK, NEW found \in Shapes \cup {"error"}, Revise(found)
    PROVE  TypeOK'
<1> DEFINE old == latest.spec.params
<1> DEFINE ops == IF spec.params.ops = {} THEN old.ops ELSE spec.params.ops
<1> DEFINE params == [ops |-> ops,
                      raster |-> spec.params.raster \/ old.raster,
                      vector |-> spec.params.vector \/ old.vector,
                      expr |-> spec.params.expr \/ old.expr]
<1> DEFINE merged == [spec EXCEPT
                        !.area = IF @ = "none" THEN latest.spec.area ELSE @,
                        !.source = IF @ = "none" THEN latest.spec.source ELSE @,
                        !.time = @ \/ latest.spec.time,
                        !.params = params]
<1> DEFINE refreshed == Refresh([latest EXCEPT !.spec = merged, !.heir = FALSE], found)
<1>1. /\ spec \in Specs /\ latest \in Rows /\ latest.spec \in Specs
      /\ spec.params \in Params /\ old \in Params
  BY DEF TypeOK, Rows, Specs
<1>2. params \in Params
  BY <1>1 DEF Params
<1>3. merged \in Specs
  <2> HIDE DEF params
  <2> QED
    BY <1>1, <1>2 DEF Specs
<1>4. [latest EXCEPT !.spec = merged, !.heir = FALSE] \in Rows
  <2> HIDE DEF merged
  <2> QED
    BY <1>1, <1>3 DEF Rows
<1>5. refreshed \in Rows
  <2> HIDE DEF merged
  <2> QED
    BY <1>4, TaskUpdatesTyped
<1>6. latest' = IF refreshed.blocked THEN refreshed
                ELSE [refreshed EXCEPT !.spec.ask = FALSE,
                                       !.spec.missing = {},
                                       !.status = "awaiting_approval",
                                       !.cur = "awaiting_approval"]
  BY DEF Revise
<1>7. latest' \in Rows
  <2> HIDE DEF refreshed
  <2> QED
    BY <1>5, <1>6 DEF Rows, Specs, Statuses
<1>8. Answer /\ asked' = NoText /\ UNCHANGED <<uploads, mode, turns>>
  BY DEF Revise
<1> QED
  BY <1>7, <1>8, AnswerTyped, IdleTyped DEF TypeOK

LEMMA ResolveTyped ==
    ASSUME TypeOK, Resolve
    PROVE  TypeOK'
<1> DEFINE merged == IF FollowsUp THEN MergeSpec(latest.spec, msg.text) ELSE spec
<1>1. merged \in Specs
  BY MergeTyped DEF TypeOK, Rows
<1>2. row' = [NoTask EXCEPT
                !.known = TRUE,
                !.spec = merged,
                !.status = IF merged.ask THEN "waiting_clarification" ELSE "queued",
                !.heir = FollowsUp /\ Inherits(latest, merged, Overrides(msg.text))]
  BY DEF Resolve
<1>3. row' \in Rows
  <2> HIDE DEF merged
  <2> QED
    BY <1>1, <1>2, IdleTyped DEF Rows, Statuses
<1> QED
  BY <1>3 DEF TypeOK, Resolve, Stages

LEMMA RerunTyped ==
    ASSUME TypeOK, NEW retimed \in BOOLEAN, Rerun(retimed)
    PROVE  TypeOK'
<1> DEFINE again == [latest.spec EXCEPT !.time = @ \/ retimed]
<1>1. again \in Specs
  BY DEF TypeOK, Rows, Specs
<1>2. row' = [NoTask EXCEPT
                !.known = TRUE,
                !.spec = again,
                !.status = IF again.ask THEN "waiting_clarification" ELSE "queued",
                !.heir = Inherits(latest, again, {}),
                !.approve = FALSE]
  BY DEF Rerun
<1>3. Inherits(latest, again, {}) \in BOOLEAN
  BY DEF Inherits
<1>4. row' \in Rows
  <2> HIDE DEF again
  <2> QED
    BY <1>1, <1>2, <1>3, IdleTyped DEF Rows, Statuses
<1>5. turns' \in 0..MaxTurns
  BY IntakeInputs DEF TypeOK, Rerun
<1> QED
  BY <1>4, <1>5 DEF TypeOK, Rerun, Stages

LEMMA FailTyped ==
    ASSUME TypeOK, Fail
    PROVE  TypeOK'
  BY AnswerTyped DEF TypeOK, Fail

LEMMA BuildTyped ==
    ASSUME TypeOK, NEW found \in Shapes \cup {"error"}, Build(found)
    PROVE  TypeOK'
<1>1. row \in Rows /\ latest.shape \in Shapes
  BY DEF TypeOK, Rows
<1>2. found # "error" => ShapeRow(found) \in Rows
  BY <1>1, TaskUpdatesTyped DEF ShapeRow, Rows
<1>3. row' \in Rows
  BY <1>1, <1>2 DEF Build
<1> QED
  BY <1>3 DEF TypeOK, Build, Stages

LEMMA PlanTyped ==
    ASSUME TypeOK, NEW more \in {{}, {"planning_context"}}, Plan(more)
    PROVE  TypeOK'
<1> DEFINE missing == row.spec.missing \cup more
           asks == [row.spec EXCEPT !.ask = TRUE,
                                    !.missing = IF row.spec.ask THEN @ ELSE missing]
           waits == [row.plan EXCEPT !.st = "needs_clarification"]
<1>1. row \in Rows /\ row.spec \in Specs /\ row.plan \in Plans
  BY DEF TypeOK, Rows
<1>2. asks \in Specs
  BY <1>1 DEF Specs, Gaps
<1>3. waits \in Plans
  BY <1>1 DEF Plans
<1>4. Sketched(more) \in Rows
  <2>1. Sketched(more) = IF ~row.spec.ask /\ missing = {} THEN row
          ELSE [row EXCEPT !.plan = waits, !.status = "waiting_clarification",
                           !.spec = asks]
    BY <1>1 DEF Sketched, Rows, Specs, Plans
  <2> HIDE DEF asks, waits
  <2> QED
    BY <1>1, <1>2, <1>3, <2>1 DEF Rows, Statuses
<1>5. row' \in Rows
  BY <1>4, TaskUpdatesTyped DEF Plan
<1> QED
  BY <1>5 DEF TypeOK, Plan, Stages

LEMMA ActivateTyped ==
    ASSUME TypeOK, NEW found \in Shapes \cup {"error"}, Activate(found)
    PROVE  TypeOK'
<1>1. row' \in Rows
  BY TaskUpdatesTyped DEF TypeOK, Activate
<1> QED
  BY <1>1 DEF TypeOK, Activate, Stages

LEMMA CommitTyped ==
    ASSUME TypeOK, Commit
    PROVE  TypeOK'
  BY AnswerTyped, IdleTyped DEF TypeOK, Commit

\* The types of the variables, for every text, answer and history.
THEOREM IntakeTypes == Spec => []TypeOK
<1>1. Init => TypeOK
  BY InitTyped
<1>2. TypeOK /\ [Next]_vars => TypeOK'
  <2> SUFFICES ASSUME TypeOK, [Next]_vars PROVE TypeOK'
    OBVIOUS
  <2>1. CASE UNCHANGED vars
    BY <2>1 DEF TypeOK, vars
  <2>2. ASSUME NEW text \in Words, Confirm(text) PROVE TypeOK'
    BY <2>2, ConfirmTyped
  <2>3. ASSUME NEW text \in Words, NEW route \in BaseIntents, NEW base \in BaseIntents,
               Receive(text, route, base)
        PROVE  TypeOK'
    BY <2>3, ReceiveTyped
  <2>4. ASSUME NEW payload \in Answers, ParserAnswers(payload) PROVE TypeOK'
    BY <2>4, ParserTyped, IntakeInputs
  <2>5. CASE ParserFails
    <3>1. [area |-> "none", source |-> "none", time |-> FALSE, type |-> "WORKFLOW",
           params |-> NoParams, missing |-> {}] \in Payloads
      BY NoParamsTyped DEF Payloads, Areas, Sources, AnalysisTypes
    <3> QED
      BY <2>5, <3>1, ParserTyped
  <2>6. ASSUME NEW h \in Remembered, NEW cautious \in BOOLEAN, Decide(h, cautious)
        PROVE  TypeOK'
    BY <2>6, DecideTyped
  <2>7. ASSUME NEW found \in Shapes \cup {"error"},
               Revise(found) \/ Build(found) \/ Activate(found)
        PROVE  TypeOK'
    BY <2>7, ReviseTyped, BuildTyped, ActivateTyped
  <2>8. CASE Resolve
    BY <2>8, ResolveTyped
  <2>9. ASSUME NEW retimed \in BOOLEAN, Rerun(retimed) PROVE TypeOK'
    BY <2>9, RerunTyped
  <2>10. CASE BuildFails \/ PlanFails
    BY <2>10, FailTyped DEF BuildFails, PlanFails
  <2>11. ASSUME NEW more \in {{}, {"planning_context"}}, Plan(more) PROVE TypeOK'
    BY <2>11, PlanTyped
  <2>12. CASE Commit
    BY <2>12, CommitTyped
  <2> QED
    BY <2>1, <2>2, <2>3, <2>4, <2>5, <2>6, <2>7, <2>8, <2>9, <2>10, <2>11, <2>12 DEF Next
<1> QED
  BY <1>1, <1>2, PTL DEF Spec
-----------------------------------------------------------------------------
(* The row of a new task, from its specification to its commit.            *)

\* A row of which only the specification is known.
Fresh(t) ==
    /\ ~t.blocked
    /\ t.cur = "parse_task"
    /\ t.plan = NoPlan
    /\ t.status = IF t.spec.ask THEN "waiting_clarification" ELSE "queued"

Waits(t) ==
    /\ t.spec.ask
    /\ t.status = "waiting_clarification"
    /\ t.cur = "parse_task"
    /\ t.plan = [NoPlan EXCEPT !.st = "needs_clarification"]

ForApproval(t) ==
    /\ ~t.spec.ask
    /\ t.status = "awaiting_approval"
    /\ t.cur = "awaiting_approval"
    /\ t.plan = [st |-> "ready", op |-> "draft", ver |-> 1]

Queued(t) ==
    /\ ~t.spec.ask
    /\ t.status = "queued"
    /\ t.cur = "parse_task"
    /\ t.plan = NoPlan

Blocked(t) ==
    /\ t.blocked
    /\ t.spec.ask
    /\ t.status = "waiting_clarification"
    /\ t.cur = "normalize_aoi"
    /\ t.plan \in {NoPlan, [NoPlan EXCEPT !.st = "needs_clarification"],
                   [st |-> "ready", op |-> "draft", ver |-> 1]}

\* A row after build_task_plan, and one after its revision became active.
Sketch(t) == ~t.blocked /\ (Waits(t) \/ ForApproval(t) \/ Queued(t))
Newborn(t) == Sketch(t) \/ Blocked(t)

\* An uploaded area is read last; any other is settled before the plan.
AreaSettled(t) == t.spec.source = "file_upload" \/ HasItsArea(t)

\* What the row in the open transaction owes to the stage it has reached.
RowFits ==
    /\ stage = "build" => Fresh(row) /\ (row.heir => latest.shape # "none")
    /\ stage = "plan" => Fresh(row) /\ AreaSettled(row)
    /\ stage = "activate" => Sketch(row) /\ AreaSettled(row)
    /\ stage = "built" => Newborn(row) /\ HasItsArea(row)

IntakeInv == RowFits /\ HasItsArea(latest)

LEMMA FitsInitially == Init => IntakeInv
  BY DEF Init, IntakeInv, RowFits, HasItsArea, NoTask

\* What happens outside the creation of a row touches neither row nor task.
LEMMA FitsOutside ==
    ASSUME RowFits, HasItsArea(latest), UNCHANGED latest,
           \/ UNCHANGED <<stage, row>>
           \/ stage' \in {"idle", "parse", "decide", "revise", "reparse", "resolve"}
    PROVE  IntakeInv'
  BY DEF IntakeInv, RowFits, HasItsArea

LEMMA ResolveFits ==
    ASSUME IntakeInv, Resolve
    PROVE  IntakeInv'
<1> DEFINE merged == IF FollowsUp THEN MergeSpec(latest.spec, msg.text) ELSE spec
           status == IF merged.ask THEN "waiting_clarification" ELSE "queued"
           heir == FollowsUp /\ Inherits(latest, merged, Overrides(msg.text))
<1>1. /\ row' = [NoTask EXCEPT !.known = TRUE, !.spec = merged, !.status = status,
                               !.heir = heir]
      /\ stage' = "build" /\ latest' = latest
  BY DEF Resolve
<1>2. heir => latest.shape # "none"
  BY DEF Inherits
<1> HIDE DEF merged, heir
<1>3. Fresh(row') /\ row'.heir = heir
  BY <1>1 DEF Fresh, NoTask
<1>4. HasItsArea(latest')
  BY <1>1 DEF IntakeInv
<1> QED
  BY <1>1, <1>2, <1>3, <1>4 DEF IntakeInv, RowFits, Fresh, HasItsArea

LEMMA RerunFits ==
    ASSUME IntakeInv, NEW retimed \in BOOLEAN, Rerun(retimed)
    PROVE  IntakeInv'
<1> DEFINE again == [latest.spec EXCEPT !.time = @ \/ retimed]
           status == IF again.ask THEN "waiting_clarification" ELSE "queued"
           heir == Inherits(latest, again, {})
<1>1. /\ row' = [NoTask EXCEPT !.known = TRUE, !.spec = again, !.status = status,
                               !.heir = heir, !.approve = FALSE]
      /\ stage' = "build" /\ latest' = latest
  BY DEF Rerun
<1>2. heir => latest.shape # "none"
  BY DEF Inherits
<1> HIDE DEF again, heir
<1>3. Fresh(row') /\ row'.heir = heir
  BY <1>1 DEF Fresh, NoTask
<1>4. HasItsArea(latest')
  BY <1>1 DEF IntakeInv
<1> QED
  BY <1>1, <1>2, <1>3, <1>4 DEF IntakeInv, RowFits, Fresh, HasItsArea

\* An area that is not a file has its geometry, inherits one, or is asked for.
LEMMA BuildFits ==
    ASSUME TypeOK, IntakeInv, NEW found, Build(found)
    PROVE  IntakeInv'
<1>1. /\ row \in Rows /\ row.spec \in Specs /\ Fresh(row)
      /\ row.heir => latest.shape # "none"
      /\ stage' = "plan" /\ latest' = latest
  BY DEF TypeOK, Rows, IntakeInv, RowFits, Build
<1>2. HasItsArea(latest')
  BY <1>1 DEF IntakeInv
<1>3. CASE row.spec.source = "file_upload"
  <2>1. row' = row
    BY <1>3 DEF Build
  <2> QED
    BY <1>1, <1>2, <1>3, <2>1 DEF IntakeInv, RowFits, AreaSettled, Fresh, HasItsArea
<1>4. CASE row.spec.source # "file_upload"
  <2>1. found \in Normalised(row.spec, files) \ {"error"} /\ row' = ShapeRow(found)
    BY <1>4 DEF Build
  <2>2. /\ row.spec.area = "bbox" => found = "bbox"
        /\ found # "bbox" => found \in {"named", "none"}
    BY <1>4, <2>1 DEF Normalised
  <2>3. CASE found # "none"
    <3>1. row' = [row EXCEPT !.shape = found]
      BY <2>1, <2>3 DEF ShapeRow
    <3>2. Fresh(row')
      BY <1>1, <3>1 DEF Fresh, Rows
    <3>3. HasItsArea(row')
      BY <1>1, <1>4, <2>2, <2>3, <3>1 DEF HasItsArea, Rows
    <3> QED
      BY <1>1, <1>2, <3>2, <3>3 DEF IntakeInv, RowFits, AreaSettled, Fresh, HasItsArea
  <2>4. CASE found = "none" /\ row.heir
    <3>1. row' = [row EXCEPT !.shape = latest.shape]
      BY <2>1, <2>4 DEF ShapeRow
    <3>2. Fresh(row')
      BY <1>1, <3>1 DEF Fresh, Rows
    <3>3. HasItsArea(row')
      BY <1>1, <1>4, <2>2, <2>4, <3>1 DEF HasItsArea, Rows
    <3> QED
      BY <1>1, <1>2, <3>2, <3>3 DEF IntakeInv, RowFits, AreaSettled, Fresh, HasItsArea
  <2>5. CASE /\ found = "none" /\ ~row.heir
             /\ row.spec.area # "none" /\ row.spec.source \in {"admin_name", "place_alias"}
    <3> DEFINE asks == [row.spec EXCEPT !.ask = TRUE, !.missing = @ \cup {"aoi_boundary"}]
    <3>1. row' = [row EXCEPT !.status = "waiting_clarification", !.spec = asks]
      BY <1>1, <2>1, <2>5 DEF ShapeRow, AskForBoundary, Rows, Specs
    <3>2. asks.ask
      BY <1>1 DEF Specs
    <3> HIDE DEF asks
    <3>3. Fresh(row')
      BY <1>1, <3>1, <3>2 DEF Fresh, Rows
    <3>4. HasItsArea(row')
      BY <1>1, <3>1 DEF HasItsArea, Rows
    <3> QED
      BY <1>1, <1>2, <3>3, <3>4 DEF IntakeInv, RowFits, AreaSettled, Fresh, HasItsArea
  <2>6. CASE /\ found = "none" /\ ~row.heir
             /\ ~(row.spec.area # "none" /\ row.spec.source \in {"admin_name", "place_alias"})
    <3>1. row' = row
      BY <2>1, <2>6 DEF ShapeRow
    <3>2. HasItsArea(row)
      BY <1>4, <2>2, <2>6 DEF HasItsArea
    <3> QED
      BY <1>1, <1>2, <3>1, <3>2 DEF IntakeInv, RowFits, AreaSettled, Fresh, HasItsArea
  <2> QED
    BY <2>3, <2>4, <2>5, <2>6
<1> QED
  BY <1>3, <1>4

\* The plan of a task that has questions waits; of one that has none it is
\* drafted, or queued as it is.
LEMMA PlanFits ==
    ASSUME TypeOK, IntakeInv, NEW more, Plan(more)
    PROVE  IntakeInv'
<1> DEFINE missing == row.spec.missing \cup more
           asks == [row.spec EXCEPT !.ask = TRUE,
                                    !.missing = IF row.spec.ask THEN @ ELSE missing]
           waits == [row.plan EXCEPT !.st = "needs_clarification"]
           drafted == [row.plan EXCEPT !.op = "draft", !.ver = 1]
<1>1. /\ row \in Rows /\ row.spec \in Specs /\ row.plan \in Plans /\ row.approve \in BOOLEAN
      /\ Fresh(row) /\ AreaSettled(row)
      /\ stage' = "activate" /\ latest' = latest /\ row' = Draft(Sketched(more))
  BY DEF TypeOK, Rows, IntakeInv, RowFits, Plan
<1>2. HasItsArea(latest')
  BY <1>1 DEF IntakeInv
<1>3. SUFFICES Sketch(row') /\ AreaSettled(row')
  BY <1>1, <1>2 DEF IntakeInv, RowFits, Sketch, AreaSettled, Waits, ForApproval, Queued,
                    HasItsArea
<1>4. row.plan = NoPlan
  BY <1>1 DEF Fresh
<1>5. asks.ask /\ asks.area = row.spec.area /\ asks.source = row.spec.source
  BY <1>1 DEF Specs
<1>6. waits = [NoPlan EXCEPT !.st = "needs_clarification"]
  BY <1>4
<1>7. drafted = [st |-> "ready", op |-> "draft", ver |-> 1]
  <2>1. [NoPlan EXCEPT !.op = "draft"] = [st |-> "ready", op |-> "draft", ver |-> 0]
    BY DEF NoPlan
  <2>2. [[st |-> "ready", op |-> "draft", ver |-> 0] EXCEPT !.ver = 1]
          = [st |-> "ready", op |-> "draft", ver |-> 1]
    <3> DEFINE p == [st |-> "ready", op |-> "draft", ver |-> 0]
    <3>1. /\ DOMAIN p = {"st", "op", "ver"} /\ p.st = "ready" /\ p.op = "draft"
          /\ p = [f \in {"st", "op", "ver"} |-> p[f]]
      OBVIOUS
    <3> HIDE DEF p
    <3>2. [p EXCEPT !.ver = 1] = [f \in {"st", "op", "ver"} |-> IF f = "ver" THEN 1 ELSE p[f]]
      BY <3>1
    <3>3. [p EXCEPT !.ver = 1] = [st |-> "ready", op |-> "draft", ver |-> 1]
      BY <3>1, <3>2
    <3> QED
      BY <3>3 DEF p
  <2>3. drafted = [[NoPlan EXCEPT !.op = "draft"] EXCEPT !.ver = 1]
    BY <1>4
  <2> QED
    BY <2>1, <2>2, <2>3, Zenon
<1>8. CASE row.spec.ask \/ missing # {}
  <2>1. Sketched(more) =
          [row EXCEPT !.plan = waits, !.status = "waiting_clarification", !.spec = asks]
    BY <1>1, <1>8 DEF Sketched, Rows, Specs, Plans
  <2> HIDE DEF asks, waits
  <2>2. row' = [row EXCEPT !.plan = waits, !.status = "waiting_clarification",
                           !.spec = asks]
    BY <1>1, <1>5, <2>1 DEF Draft, Rows
  <2>3. /\ row'.plan = waits /\ row'.status = "waiting_clarification" /\ row'.spec = asks
        /\ row'.cur = row.cur /\ row'.blocked = row.blocked
    BY <1>1, <2>2 DEF Rows
  <2>4. Waits(row') /\ ~row'.blocked
    BY <1>1, <1>5, <1>6, <2>3 DEF Waits, Fresh
  <2>5. HasItsArea(row')
    BY <2>3 DEF HasItsArea
  <2> QED
    BY <2>4, <2>5 DEF Sketch, AreaSettled
<1>9. CASE ~(row.spec.ask \/ missing # {}) /\ row.approve
  <2>1. Sketched(more) = row
    BY <1>9 DEF Sketched
  <2>2. row' = [row EXCEPT !.plan = drafted, !.status = "awaiting_approval",
                           !.cur = "awaiting_approval"]
    BY <1>1, <1>9, <2>1 DEF Draft, Rows, Plans
  <2> HIDE DEF drafted
  <2>3. /\ row'.plan = drafted /\ row'.status = "awaiting_approval"
        /\ row'.cur = "awaiting_approval" /\ row'.spec = row.spec
        /\ row'.blocked = row.blocked /\ row'.shape = row.shape /\ row'.known = row.known
    BY <1>1, <2>2 DEF Rows
  <2>4. ForApproval(row') /\ ~row'.blocked
    BY <1>1, <1>7, <1>9, <2>3 DEF ForApproval, Fresh
  <2>5. row.status = "queued"
    BY <1>1, <1>9 DEF Fresh
  <2>6. AreaSettled(row')
    BY <1>1, <2>3, <2>5 DEF AreaSettled, HasItsArea
  <2> QED
    BY <2>4, <2>6 DEF Sketch
<1>10. CASE ~(row.spec.ask \/ missing # {}) /\ ~row.approve
  <2>1. row' = row
    BY <1>1, <1>10 DEF Sketched, Draft
  <2>2. Queued(row) /\ ~row.blocked
    BY <1>1, <1>10 DEF Queued, Fresh
  <2> QED
    BY <1>1, <2>1, <2>2 DEF Sketch, AreaSettled
<1> QED
  BY <1>8, <1>9, <1>10

\* Refreshing the area of an active revision either blocks it or gives it a
\* geometry of its kind.
LEMMA RefreshResolves ==
    ASSUME NEW t \in Rows, NEW given, NEW found \in Normalised(t.spec, given)
    PROVE  \/ /\ Refresh(t, found).blocked
              /\ Refresh(t, found).status = "waiting_clarification"
              /\ Refresh(t, found).cur = "normalize_aoi"
              /\ Refresh(t, found).spec.ask
              /\ Refresh(t, found).plan = t.plan
           \/ \E shape \in Shapes :
                /\ Refresh(t, found) = [t EXCEPT !.blocked = FALSE, !.shape = shape]
                /\ t.spec.source = "file_upload" => shape = "file"
                /\ t.spec.area = "bbox" /\ t.spec.source # "file_upload" => shape = "bbox"
                /\ t.spec.area # "none" => shape # "none"
<1> DEFINE asks == [t.spec EXCEPT !.ask = TRUE, !.missing = @ \cup {"aoi_boundary"}]
           wanted == t.spec.source = "file_upload" \/ t.spec.area # "none"
           shape == IF found = "none" THEN t.shape ELSE found
<1>1. t.spec \in Specs /\ t.shape \in Shapes
  BY DEF Rows
<1>2. found \in Shapes \cup {"error"}
  BY DEF Normalised, Shapes
<1>3. CASE found = "error" \/ (found = "none" /\ wanted)
  <2>1. Refresh(t, found) =
          [t EXCEPT !.blocked = TRUE, !.status = "waiting_clarification",
                    !.cur = "normalize_aoi", !.spec = asks]
    BY <1>1, <1>3 DEF Refresh, Rows, Specs
  <2>2. asks.ask
    BY <1>1 DEF Specs
  <2> HIDE DEF asks
  <2> QED
    BY <2>1, <2>2 DEF Rows
<1>4. CASE ~(found = "error" \/ (found = "none" /\ wanted))
  <2>1. Refresh(t, found) = [t EXCEPT !.blocked = FALSE, !.shape = shape]
    BY <1>4 DEF Refresh, Rows
  <2>2. shape \in Shapes
    BY <1>1, <1>2, <1>4
  <2>3. /\ t.spec.source = "file_upload" => shape = "file"
        /\ t.spec.area = "bbox" /\ t.spec.source # "file_upload" => shape = "bbox"
        /\ t.spec.area # "none" => shape # "none"
    BY <1>4 DEF Normalised
  <2> HIDE DEF shape
  <2> QED
    BY <2>1, <2>2, <2>3
<1> QED
  BY <1>3, <1>4

LEMMA ActivateFits ==
    ASSUME TypeOK, IntakeInv, NEW found, Activate(found)
    PROVE  IntakeInv'
<1>1. /\ row \in Rows /\ Sketch(row) /\ AreaSettled(row)
      /\ stage' = "built" /\ latest' = latest
  BY DEF TypeOK, IntakeInv, RowFits, Activate
<1>2. HasItsArea(latest')
  BY <1>1 DEF IntakeInv
<1>3. SUFFICES Newborn(row') /\ HasItsArea(row')
  BY <1>1, <1>2 DEF IntakeInv, RowFits, Newborn, Sketch, Blocked, Waits, ForApproval,
                    Queued, HasItsArea
<1>4. row.plan \in {NoPlan, [NoPlan EXCEPT !.st = "needs_clarification"],
                    [st |-> "ready", op |-> "draft", ver |-> 1]}
  BY <1>1 DEF Sketch, Waits, ForApproval, Queued
<1>5. CASE row.spec.source # "file_upload"
  BY <1>1, <1>5 DEF Activate, AreaSettled, Newborn
<1>6. CASE row.spec.source = "file_upload"
  <2>1. found \in Normalised(row.spec, files) /\ row' = Refresh(row, found)
    BY <1>6 DEF Activate
  <2>2. CASE /\ row'.blocked /\ row'.status = "waiting_clarification"
             /\ row'.cur = "normalize_aoi" /\ row'.spec.ask /\ row'.plan = row.plan
    BY <1>4, <2>2 DEF Newborn, Blocked, HasItsArea
  <2>3. ASSUME NEW shape \in Shapes,
               row' = [row EXCEPT !.blocked = FALSE, !.shape = shape],
               shape = "file"
        PROVE  Newborn(row') /\ HasItsArea(row')
    <3>1. /\ ~row'.blocked /\ row'.shape = "file" /\ row'.spec = row.spec
          /\ row'.status = row.status /\ row'.cur = row.cur /\ row'.plan = row.plan
      BY <1>1, <2>3 DEF Rows
    <3>2. Sketch(row')
      BY <1>1, <3>1 DEF Sketch, Waits, ForApproval, Queued
    <3>3. HasItsArea(row')
      BY <1>6, <3>1 DEF HasItsArea
    <3> QED
      BY <3>2, <3>3 DEF Newborn
  <2> QED
    BY <1>1, <1>6, <2>1, <2>2, <2>3, RefreshResolves
<1> QED
  BY <1>5, <1>6

\* A correction leaves the latest task with a geometry of its new area, or
\* waiting for one.
LEMMA ReviseFits ==
    ASSUME TypeOK, NEW found \in Shapes \cup {"error"}, Revise(found)
    PROVE  IntakeInv'
<1> DEFINE old == latest.spec.params
           params == [ops |-> IF spec.params.ops = {} THEN old.ops ELSE spec.params.ops,
                      raster |-> spec.params.raster \/ old.raster,
                      vector |-> spec.params.vector \/ old.vector,
                      expr |-> spec.params.expr \/ old.expr]
           merged == [spec EXCEPT
                        !.area = IF @ = "none" THEN latest.spec.area ELSE @,
                        !.source = IF @ = "none" THEN latest.spec.source ELSE @,
                        !.time = @ \/ latest.spec.time,
                        !.params = params]
           revised == [latest EXCEPT !.spec = merged, !.heir = FALSE]
           refreshed == Refresh(revised, found)
<1>1. /\ spec \in Specs /\ latest \in Rows /\ latest.spec \in Specs
      /\ spec.params \in Params /\ old \in Params
  BY DEF TypeOK, Rows, Specs
<1>2. params \in Params
  BY <1>1 DEF Params
<1>3. merged \in Specs
  <2> HIDE DEF params
  <2> QED
    BY <1>1, <1>2 DEF Specs
<1>4. revised \in Rows /\ revised.spec = merged
  <2> HIDE DEF merged
  <2> QED
    BY <1>1, <1>3 DEF Rows
<1>5. /\ found \in Normalised(merged, uploads)
      /\ latest' = IF refreshed.blocked THEN refreshed
                   ELSE [refreshed EXCEPT !.spec.ask = FALSE,
                                          !.spec.missing = {},
                                          !.status = "awaiting_approval",
                                          !.cur = "awaiting_approval"]
      /\ Answer
  BY DEF Revise
<1> HIDE DEF merged, revised
<1>6. HasItsArea(latest')
  <2>1. CASE refreshed.blocked /\ refreshed.status = "waiting_clarification"
    BY <1>5, <2>1 DEF HasItsArea
  <2>2. ASSUME NEW shape \in Shapes,
               refreshed = [revised EXCEPT !.blocked = FALSE, !.shape = shape],
               merged.source = "file_upload" => shape = "file",
               merged.area = "bbox" /\ merged.source # "file_upload" => shape = "bbox",
               merged.area # "none" => shape # "none"
        PROVE  HasItsArea(latest')
    <3> DEFINE settled == [merged EXCEPT !.ask = FALSE, !.missing = {}]
    <3>1. ~refreshed.blocked /\ refreshed.spec = merged /\ refreshed.shape = shape
          /\ refreshed \in Rows
      BY <1>3, <1>4, <2>2 DEF Rows
    <3>2. settled.area = merged.area /\ settled.source = merged.source
      BY <1>3 DEF Specs
    <3>3. latest' = [refreshed EXCEPT !.spec = settled, !.status = "awaiting_approval",
                                      !.cur = "awaiting_approval"]
      BY <1>3, <1>5, <3>1 DEF Rows, Specs
    <3> HIDE DEF settled, refreshed
    <3>4. latest'.spec = settled /\ latest'.shape = shape
      BY <3>1, <3>3 DEF Rows
    <3> QED
      BY <2>2, <3>2, <3>4 DEF HasItsArea
  <2> HIDE DEF refreshed
  <2>3. \/ refreshed.blocked /\ refreshed.status = "waiting_clarification"
        \/ \E shape \in Shapes :
             /\ refreshed = [revised EXCEPT !.blocked = FALSE, !.shape = shape]
             /\ merged.source = "file_upload" => shape = "file"
             /\ merged.area = "bbox" /\ merged.source # "file_upload" => shape = "bbox"
             /\ merged.area # "none" => shape # "none"
    <3>1. found \in Normalised(revised.spec, uploads)
      BY <1>4, <1>5
    <3>2. \/ /\ Refresh(revised, found).blocked
             /\ Refresh(revised, found).status = "waiting_clarification"
             /\ Refresh(revised, found).cur = "normalize_aoi"
             /\ Refresh(revised, found).spec.ask
             /\ Refresh(revised, found).plan = revised.plan
          \/ \E shape \in Shapes :
               /\ Refresh(revised, found) = [revised EXCEPT !.blocked = FALSE, !.shape = shape]
               /\ revised.spec.source = "file_upload" => shape = "file"
               /\ revised.spec.area = "bbox" /\ revised.spec.source # "file_upload"
                    => shape = "bbox"
               /\ revised.spec.area # "none" => shape # "none"
      BY <1>4, <3>1, RefreshResolves
    <3> QED
      BY <1>4, <3>2 DEF refreshed
  <2> QED
    BY <2>1, <2>2, <2>3
<1> QED
  BY <1>5, <1>6 DEF IntakeInv, RowFits, Answer, HasItsArea

LEMMA CommitFits ==
    ASSUME IntakeInv, Commit
    PROVE  IntakeInv'
<1>1. HasItsArea(row) /\ latest' = row /\ stage' = "idle"
  BY DEF IntakeInv, RowFits, Commit, Answer
<1> QED
  BY <1>1 DEF IntakeInv, RowFits, HasItsArea

\* The inductive invariant: at every stage of its creation the row has what
\* the stages before gave it, and the latest task covers its area.
THEOREM RowsFit == Spec => []IntakeInv
<1>1. Init => IntakeInv
  BY FitsInitially
<1>2. TypeOK /\ IntakeInv /\ [Next]_vars => IntakeInv'
  <2> SUFFICES ASSUME TypeOK, IntakeInv, [Next]_vars PROVE IntakeInv'
    OBVIOUS
  <2>0. RowFits /\ HasItsArea(latest)
    BY DEF IntakeInv
  <2>1. CASE UNCHANGED vars
    BY <2>0, <2>1, FitsOutside DEF vars
  <2>2. ASSUME NEW text \in Words,
               Confirm(text) \/ \E route, base \in BaseIntents : Receive(text, route, base)
        PROVE  IntakeInv'
    BY <2>0, <2>2, FitsOutside DEF Confirm, Receive, rowVars
  <2>3. ASSUME NEW payload, ParserAnswers(payload) \/ ParserFails PROVE IntakeInv'
    BY <2>0, <2>3, FitsOutside DEF ParserAnswers, ParserFails, Parsed, rowVars
  <2>4. ASSUME NEW h, NEW cautious, Decide(h, cautious) PROVE IntakeInv'
    BY <2>0, <2>4, FitsOutside DEF Decide, Answer
  <2>5. ASSUME NEW found \in Shapes \cup {"error"},
               Revise(found) \/ Build(found) \/ Activate(found)
        PROVE  IntakeInv'
    BY <2>5, ReviseFits, BuildFits, ActivateFits
  <2>6. CASE Resolve
    BY <2>6, ResolveFits
  <2>7. ASSUME NEW retimed \in BOOLEAN, Rerun(retimed) PROVE IntakeInv'
    BY <2>7, RerunFits
  <2>8. CASE BuildFails \/ PlanFails
    BY <2>0, <2>8, FitsOutside DEF BuildFails, PlanFails, Fail, Answer
  <2>9. ASSUME NEW more, Plan(more) PROVE IntakeInv'
    BY <2>9, PlanFits
  <2>10. CASE Commit
    BY <2>10, CommitFits
  <2> QED
    BY <2>1, <2>2, <2>3, <2>4, <2>5, <2>6, <2>7, <2>8, <2>9, <2>10 DEF Next
<1> QED
  BY <1>1, <1>2, IntakeTypes, PTL DEF Spec

\* However a task comes about and however it is corrected, it covers the area
\* it was asked for or waits for the user.
THEOREM AreasAreResolved == Spec => []AreaIsResolved
<1>1. IntakeInv => AreaIsResolved
  BY DEF IntakeInv, RowFits, AreaIsResolved
<1> QED
  BY <1>1, RowsFit, PTL

\* The row that is committed is one of those TaskExecution starts from.
THEOREM TasksAreBornAsModelled == Spec => []BornAsModelled
<1> DEFINE t == [status |-> row.status, cur |-> row.cur, plan |-> row.plan]
           flags == [rev |-> 1, blocked |-> row.blocked, ask |-> row.spec.ask]
           sent == IF row.status = "queued" THEN 1 ELSE 0
<1>1. ASSUME NEW kind \in {"approval", "clarify", "blocked", "rerun"},
             t \in NewTask!BirthRows[kind],
             row.blocked = (kind = "blocked"),
             row.spec.ask = (kind \in {"clarify", "blocked"}),
             (row.status = "queued") = (kind = "rerun")
      PROVE  NewTask!Init
  BY <1>1 DEF NewTask!Init, NewTask!Steps, NewTask!GraphSteps
<1>2. ASSUME TypeOK, Newborn(row) PROVE NewTask!Init
  <2>1. CASE Waits(row) /\ ~row.blocked
    <3>1. t \in NewTask!BirthRows["clarify"]
      BY <2>1 DEF Waits, NewTask!BirthRows, NewTask!NoPlan, NoPlan
    <3> QED
      BY <1>1, <1>2, <2>1, <3>1 DEF Waits, TypeOK, Rows, Specs
  <2>2. CASE ForApproval(row) /\ ~row.blocked
    <3>1. t \in NewTask!BirthRows["approval"]
      BY <2>2 DEF ForApproval, NewTask!BirthRows
    <3> QED
      BY <1>1, <1>2, <2>2, <3>1 DEF ForApproval, TypeOK, Rows, Specs
  <2>3. CASE Queued(row) /\ ~row.blocked
    <3>1. t \in NewTask!BirthRows["rerun"]
      BY <2>3 DEF Queued, NewTask!BirthRows, NewTask!NoPlan, NoPlan
    <3> QED
      BY <1>1, <1>2, <2>3, <3>1 DEF Queued, TypeOK, Rows, Specs
  <2>4. CASE Blocked(row)
    <3>1. t \in NewTask!BirthRows["blocked"]
      BY <2>4 DEF Blocked, NewTask!BirthRows, NewTask!NoPlan, NoPlan
    <3> QED
      BY <1>1, <1>2, <2>4, <3>1 DEF Blocked, TypeOK, Rows, Specs
  <2> QED
    BY <1>2, <2>1, <2>2, <2>3, <2>4 DEF Newborn, Sketch
<1>3. TypeOK /\ IntakeInv => BornAsModelled
  BY <1>2 DEF IntakeInv, RowFits, BornAsModelled
<1> QED
  BY <1>3, IntakeTypes, RowsFit, PTL
=============================================================================
