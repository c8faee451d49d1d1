-------------------------- MODULE MessageIntakeMC --------------------------
(***************************************************************************)
(* Small instances of MessageIntake for TLC: one text for each path of the *)
(* parser and of the policy, and answers of the model that agree with the  *)
(* text, go beyond it, or miss part of it.                                 *)
(***************************************************************************)
EXTENDS MessageIntake

SomeWords == {
    NoText,
    [NoText EXCEPT !.confirm = TRUE],
    [NoText EXCEPT !.area = "bbox", !.time = TRUE, !.hint = "ndvi", !.verb = TRUE],
    [NoText EXCEPT !.area = "admin", !.hint = "buffer", !.verb = TRUE],
    [NoText EXCEPT !.file = TRUE, !.raster = TRUE, !.hint = "ndvi", !.time = TRUE],
    [NoText EXCEPT !.clip = TRUE, !.raster = TRUE, !.vector = TRUE, !.file = TRUE],
    [NoText EXCEPT !.change = TRUE, !.time = TRUE],
    [NoText EXCEPT !.change = TRUE, !.area = "bbox"],
    [NoText EXCEPT !.other = TRUE, !.verb = TRUE]}

Raster == [NoParams EXCEPT !.raster = TRUE, !.ops = {"raster.band_math"}]
Clip == [NoParams EXCEPT !.raster = TRUE, !.vector = TRUE, !.ops = {"raster.clip"}]

SomeAnswers == {
    [area |-> "none", source |-> "none", time |-> FALSE, type |-> "WORKFLOW",
     params |-> NoParams, missing |-> {}],
    [area |-> "bbox", source |-> "bbox", time |-> TRUE, type |-> "NDVI",
     params |-> Raster, missing |-> {}],
    [area |-> "admin", source |-> "admin_name", time |-> TRUE, type |-> "NDVI",
     params |-> Raster, missing |-> {}],
    [area |-> "admin", source |-> "none", time |-> FALSE, type |-> "BUFFER",
     params |-> NoParams, missing |-> {"time_range"}],
    [area |-> "none", source |-> "file_upload", time |-> FALSE, type |-> "CLIP",
     params |-> Clip, missing |-> {}]}

History(accepted, corrected, contradicted, confirmed) ==
    [accepted |-> accepted, corrected |-> corrected, contradicted |-> contradicted,
     ignored |-> 0, confirmed |-> confirmed]

\* No history, and one at the limits of the history's weight.
SomeHistories == {History(0, 0, 0, FALSE), History(7, 5, 0, TRUE)}
=============================================================================
