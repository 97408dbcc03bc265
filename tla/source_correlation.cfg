SPECIFICATION Spec
CONSTANTS
  Documents <- AllDocuments
  Synthetic <- SmallSynthetic
  NoId = NoId
  Nothing = Nothing
INVARIANTS AnchorsIdentify InjectionUnobserved DefinitionsProven
CHECK_DEADLOCK FALSE
