CONSTANTS
  Nil = Nil
  CompatModes = {FALSE}
  GethHooks = FALSE
  FailingTxs = FALSE
  MaxAlloc = 0
  MaxDepth = 2
  MaxOrdinal = 8

SPECIFICATION FairSpec
PROPERTY TxEventuallyPrinted
