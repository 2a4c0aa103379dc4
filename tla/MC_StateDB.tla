----------------------------- MODULE MC_StateDB -----------------------------
(* Model-checking instance of StateDB: two accounts, one storage slot with *)
(* values {0,1}, one contract code besides the empty one.  The store      *)
(* starts with a1 a deployed contract holding slot k1 = 1 and a2 absent,  *)
(* so both the loaded-account and the created-account paths are taken,    *)
(* and Commit later writes stores of every other shape.                   *)
EXTENDS StateDB, TLC

CONSTANTS a1, a2, k1, c0, c1

MCAddrs == {a1, a2}
MCKeys == {k1}
MCCodes == {c0, c1}
MCInitAccounts == (a1 :> [nonce |-> 1, codeHash |-> c1]) @@ (a2 :> NoAccount)
MCInitStorage == (a1 :> (k1 :> 1)) @@ (a2 :> (k1 :> 0))

(* A store where a2 is a vesting (non-Ethereum) account with no code and   *)
(* nonce 0, an address a contract creation can still be deployed to.     *)
MCNonEth == {a2}
MCInitAccountsVesting == (a1 :> [nonce |-> 1, codeHash |-> c1]) @@ (a2 :> [nonce |-> 0, codeHash |-> c0])
=============================================================================
