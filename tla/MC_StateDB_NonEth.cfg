CONSTANTS
  a1 = a1
  a2 = a2
  k1 = k1
  c0 = c0
  c1 = c1
  Addrs <- MCAddrs
  Keys <- MCKeys
  Codes <- MCCodes
  EmptyCode = c0
  MaxVal = 1
  MaxNonce = 1
  MaxBalance = 1
  MaxRefund = 1
  MaxJournal = 2
  MaxSnapshots = 1
  MaxUnits = 1
  NoAccount = NoAccount
  Nil = Nil
  Unset = Unset
  NoOverride = NoOverride
  OverridesAtStartOnly = TRUE
  InitAccounts <- MCInitAccountsVesting
  InitStorage <- MCInitStorage
  NonEth <- MCNonEth

SPECIFICATION Spec
INVARIANT CommitRoundTrip
CHECK_DEADLOCK FALSE
