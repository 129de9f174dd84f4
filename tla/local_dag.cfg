CONSTANTS
  Pipelines <- SupportedPipelines
  Runners = {"subprocess", "docker"}
SPECIFICATION FairSpec
INVARIANTS
  UpstreamFirst
  SuccessIsSound
  FinalStatusIsTruthful
  CollectedInOrder
  NothingOutlivesThePipeline
PROPERTIES
  PipelineReturns
  ImplementsDagRun
CHECK_DEADLOCK FALSE
