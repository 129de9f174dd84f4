------------------------- MODULE MCPipelineCompiler -------------------------
(* Every pipeline function of up to two tasks and three blocks over one parameter. *)
EXTENDS PipelineCompiler

CONSTANTS a
=============================================================================
