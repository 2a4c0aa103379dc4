CONSTANTS
  Nil = Nil
  CompatModes = {FALSE, TRUE}
  GethHooks = TRUE
  FailingTxs = FALSE
  MaxAlloc = 2
  MaxDepth = 2
  MaxOrdinal = 11

SPECIFICATION Spec
INVARIANT TracerNeverPanics
INVARIANT OrdinalsExact
INVARIANT CallIntervalsNested
