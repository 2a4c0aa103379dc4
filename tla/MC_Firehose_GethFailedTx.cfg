CONSTANTS
  Nil = Nil
  CompatModes = {FALSE}
  GethHooks = TRUE
  FailingTxs = TRUE
  MaxAlloc = 2
  MaxDepth = 2
  MaxOrdinal = 8

SPECIFICATION Spec
INVARIANT TracerNeverPanics
