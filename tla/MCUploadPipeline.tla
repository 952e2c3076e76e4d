--------------------------- MODULE MCUploadPipeline ----------------------------
(* Instances of UploadPipeline for TLC: every session carries the same bytes.   *)
EXTENDS UploadPipeline

MCContent == [s \in Sessions |-> CHOOSE v \in Values : TRUE]

================================================================================
