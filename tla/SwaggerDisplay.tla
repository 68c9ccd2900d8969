--------------------------- MODULE SwaggerDisplay ---------------------------
(***************************************************************************)
(* What the API browser shows of data: one of SwaggerViews, or the sample  *)
(* of a model (SwaggerSample).                                             *)
(***************************************************************************)
EXTENDS SwaggerViews

CONSTANTS
    Designs,   \* what the models of a sample may be
    MaxDepth   \* bound of SwaggerSample

VARIABLES input, shown    \* of SwaggerSample

sampleside == <<input, shown>>

Sample == INSTANCE SwaggerSample

ASSUME SampleAssumption == Sample!DesignsOK

DisplayInit ==
    \/ ViewsInit /\ input = <<>> /\ shown = <<>>
    \/ /\ showing = "sample" /\ Sample!Init
       /\ NoResponses /\ NoSignature /\ NoLayout

ShowSample == showing = "sample" /\ Sample!Next /\ UNCHANGED viewvars

DisplayNext == \/ ViewsNext /\ UNCHANGED sampleside
               \/ ShowSample

DisplaySpec == DisplayInit /\ [][DisplayNext]_<<viewvars, sampleside>>

(* In 1.x the sample of a model is its unfolding up to cycles              *)
(* (SwaggerModel.createJSONSample).                                        *)
SampleUnfolds == showing = "sample" => Sample!SampleUnfolds

(* In 2.0 the sample of a model has its shape, and a model shown by its    *)
(* name is one shown before (Model.createJSONSample, getSampleValue).      *)
SampleHasShape == showing = "sample" => Sample!SampleHasShape
=============================================================================
