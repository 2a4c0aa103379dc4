-------------------------------- MODULE Fees --------------------------------
(***************************************************************************)
(* The minimum gas price checks of the ante handler (app/ante/fees.go):    *)
(* MinGasPriceDecorator for Cosmos transactions and CheckEthMinGasPrice   *)
(* for Ethereum ones, and CheckEthMempoolFee, the local mempool minimum. *)
(* A sdkmath.LegacyDec is an integer count of 10^-P                      *)
(* units (P = 18 in the code); a gas price is such a decimal, fees and gas *)
(* limits are integers.  Multiplying a decimal by an integer decimal is    *)
(* exact, so only the ceiling rounds.                                      *)
(*                                                                         *)
(* The inputs are constants: the module's one variable holds a candidate   *)
(* transaction unchanged and the properties are checked on all of them.    *)
(***************************************************************************)
EXTENDS Integers

CONSTANTS
  P,          \* decimal places of LegacyDec
  Prices,     \* gas prices, in 10^-P units
  Gases,      \* gas limits
  Amounts     \* fee amounts

Unit == 10^P

\* Defect variant: the required fee is truncated instead of rounded up.
CeilTruncated(d) == d \div Unit

\* LegacyDec.Ceil of a decimal given in 10^-P units, as an integer.
Ceil(d) == IF d % Unit = 0 THEN d \div Unit ELSE d \div Unit + 1

\* sdk.Coins.IsAnyGTE(requiredFees) for fee coins [evm, other] and required
\* fees that hold at most an evm-denom coin: false when nothing is required.
IsAnyGTE(fee, required) == required # {} /\ \E r \in required : fee.evm >= r

VARIABLE tx   \* a transaction's [fee : [evm, other], gas, minGasPrice, simulate,
              \* checkTx, londonOn]

-----------------------------------------------------------------------------
\* MinGasPriceDecorator.AnteHandle: "ok" or "insufficient fee".
MinGasPriceDecorator(t) ==
  IF t.minGasPrice = 0 \/ t.simulate THEN "ok"
  ELSE LET fee == Ceil(t.minGasPrice * t.gas)
           requiredFees == IF fee > 0 THEN {fee} ELSE {}
       IN IF ~IsAnyGTE(t.fee, requiredFees) THEN "insufficient fee" ELSE "ok"

\* CheckEthMinGasPrice for one MsgEthereumTx: its effective fee against
\* minGasPrice * gasLimit.
CheckEthMinGasPrice(effectiveFee, gas, minGasPrice) ==
  IF minGasPrice = 0 THEN "ok"
  ELSE IF effectiveFee * Unit < minGasPrice * gas THEN "insufficient fee"
  ELSE "ok"

\* Defect variant: a fee equal to the required one is refused.
CheckEthMempoolFeeStrict(fee, gas, minGasPrice, checkTx, simulate, londonOn) ==
  IF ~checkTx \/ simulate \/ londonOn THEN "ok"
  ELSE IF fee * Unit <= minGasPrice * gas THEN "insufficient fee"
  ELSE "ok"

\* CheckEthMempoolFee for a transaction of one MsgEthereumTx: the local
\* validator's minimum, checked only in (Re)CheckTx outside simulation and
\* skipped once EIP-1559 gives a base fee (londonOn).
CheckEthMempoolFee(fee, gas, minGasPrice, checkTx, simulate, londonOn) ==
  IF ~checkTx \/ simulate \/ londonOn THEN "ok"
  ELSE IF fee * Unit < minGasPrice * gas THEN "insufficient fee"
  ELSE "ok"

-----------------------------------------------------------------------------
Txs == [fee : [evm : Amounts, other : Amounts], gas : Gases, minGasPrice : Prices,
        simulate : BOOLEAN, checkTx : BOOLEAN, londonOn : BOOLEAN]

Init == tx \in Txs
Next == UNCHANGED tx
Spec == Init /\ [][Next]_tx

\* Reference: a fee pays for gas at a price when fee >= price * gas exactly.
Pays(fee, price, gas) == fee * Unit >= price * gas

(* The global minimum is the same for both kinds of transaction: with a    *)
(* positive gas limit and outside simulation, the Cosmos decorator accepts *)
(* a fee in the EVM denom exactly when it pays minGasPrice * gas (the      *)
(* ceiling is exact for integer fees, and a fee in another denom never     *)
(* counts), and so does CheckEthMinGasPrice for the same amount as its     *)
(* effective fee.  The local mempool minimum, checked in CheckTx before   *)
(* London, accepts the same fees (an Ethereum transaction whose fee is the *)
(* amount): no check rounds differently from another.                     *)
MinFeeChecksAgree ==
  (~tx.simulate /\ tx.gas > 0) =>
    /\ (MinGasPriceDecorator(tx) = "ok") <=> Pays(tx.fee.evm, tx.minGasPrice, tx.gas)
    /\ (CheckEthMinGasPrice(tx.fee.evm, tx.gas, tx.minGasPrice) = "ok")
         <=> Pays(tx.fee.evm, tx.minGasPrice, tx.gas)
    /\ (tx.checkTx /\ ~tx.londonOn) =>
         ((CheckEthMempoolFee(tx.fee.evm, tx.gas, tx.minGasPrice, tx.checkTx,
                              tx.simulate, tx.londonOn) = "ok")
            <=> Pays(tx.fee.evm, tx.minGasPrice, tx.gas))
=============================================================================
