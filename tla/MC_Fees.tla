------------------------------ MODULE MC_Fees ------------------------------
(* Two decimal places; prices 0, 0.01, 0.5, 1 and 1.37 per gas; gas up to *)
(* 3 and fees up to 5, so products fall on, just below and just above a   *)
(* whole amount and the ceiling is exercised.                             *)
EXTENDS Fees

MCPrices == {0, 1, 50, 100, 137}
=============================================================================
