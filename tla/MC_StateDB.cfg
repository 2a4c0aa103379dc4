CONSTANTS
  a1 = a1
  a2 = a2
  k1 = k1
  c0 = c0
  c1 = c1
  Addrs <- MCAddrs
  Keys <- MCKeys
  Codes <- MCCodes
  EmptyCode = c0
  MaxVal = 1
  MaxNonce = 1
  MaxBalance = 1
  MaxRefund = 1
  MaxJournal = 2
  MaxSnapshots = 2
  MaxUnits = 1
  NoAccount = NoAccount
  Nil = Nil
  Unset = Unset
  NoOverride = NoOverride
  OverridesAtStartOnly = TRUE
  InitAccounts <- MCInitAccounts
  InitStorage <- MCInitStorage
  NonEth = {}

SPECIFICATION Spec
INVARIANT TypeOK
INVARIANT CommitRoundTrip
PROPERTY JournaledStateSpec
CHECK_DEADLOCK FALSE
