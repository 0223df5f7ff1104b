---------------------------- MODULE MCPipelineID ----------------------------
\* Instances of RV5SIDVM for TLC.
EXTENDS PipelineIDProperties, MCPrograms
==============================================================================
