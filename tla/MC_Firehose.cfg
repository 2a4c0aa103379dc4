CONSTANTS
  Nil = Nil
  CompatModes = {FALSE}
  GethHooks = FALSE
  FailingTxs = FALSE
  MaxAlloc = 0
  MaxDepth = 3
  MaxOrdinal = 12

SPECIFICATION Spec
INVARIANT TypeOK
INVARIANT TracerNeverPanics
INVARIANT StateRevertedExact
INVARIANT OrdinalsExact
INVARIANT CallIntervalsNested
