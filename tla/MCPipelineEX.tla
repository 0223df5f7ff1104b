---------------------------- MODULE MCPipelineEX ----------------------------
\* Instances of RV5SEXVM for TLC.
EXTENDS PipelineEXProperties, MCPrograms

\* The configuration names what the predictor assumes: config.h says of
\* STATIC_NOT_TAKEN "assume branch not taken" and of STATIC_TAKEN "assume
\* branch taken".
StaticPredictionAsNamed ==
    id_ex.is_valid /\ id_ex.op \in CondBranch =>
        /\ mode.predictor = "STATIC_TAKEN" => id_ex.predicted_outcome
        /\ mode.predictor = "STATIC_NOT_TAKEN" => ~id_ex.predicted_outcome
==============================================================================
