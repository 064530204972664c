SPECIFICATION Spec
CONSTANTS
  Feeds <- AllFeeds
  ProjectNs <- MCProjectNs
  VariantKeys <- MCVariantKeys
  Evaluate <- MCEvaluate
  Filter <- MCFilter
INVARIANTS ReadAsWritten RefusedForCause PositionKept BrokenFeedsAddPackages
PROPERTY EveryTurnReadsOn
CHECK_DEADLOCK FALSE
