CONSTANTS
  P = 2
  Prices <- MCPrices
  Gases = {0, 1, 2, 3}
  Amounts = {0, 1, 2, 3, 4, 5}

SPECIFICATION Spec
INVARIANT MinFeeChecksAgree
