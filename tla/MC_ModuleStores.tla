-------------------------- MODULE MC_ModuleStores --------------------------
(* Model-checking instance of two module stores side by side: the fee      *)
(* market's (block gas wanted, v1 base fee) and the EVM module's           *)
(* parameters.  Each keeper owns its own KV store, so their steps          *)
(* interleave freely: EndBlock stores the gas wanted, an upgrade runs the  *)
(* v6 migration, governance calls SetParams.                               *)
(*                                                                         *)
(* TLC's integers are 32-bit, so the uint64 is scaled to a 3-byte word:    *)
(* the encoding is the same per byte.  The gas values hit each byte        *)
(* boundary and the largest word; the legacy base fees include a leading   *)
(* zero byte and one longer than a word, which big.Int.SetBytes accepts.   *)
(* Params validation is that of x/evm/types Params.Validate on the         *)
(* modelled fields: the EVM denom must be a valid denom (sdk.ValidateDenom *)
(* refuses ""); the fork times have no ordering constraint among them.     *)
EXTENDS Naturals, Sequences

CONSTANTS Nil, Panic, NoTime

VARIABLES fmStore, evmStore, legacy, version

fmVars == <<fmStore>>
evmVars == <<evmStore, legacy, version>>

MCGasValues == {0, 255, 256, 65535, 65536, 2^24 - 1} \cup 1..20

MCLegacyBytes == {<< 1 >>, << 1, 0 >>, << 0, 7 >>, << 0, 0, 0, 1, 2 >>}

MCDenoms == {"", "aphoton", "stake", "uatom", "wei"}

FM == INSTANCE FeeMarket WITH Width <- 3, GasValues <- MCGasValues,
        LegacyBytes <- MCLegacyBytes, store <- fmStore

EP == INSTANCE EvmParams WITH Denoms <- MCDenoms, Times <- 0..3,
        ValidParams <- {p \in [denom : MCDenoms, shanghai : (0..3) \cup {NoTime}] : p.denom # ""},
        store <- evmStore

Init == FM!Init /\ EP!Init

Next == (FM!Next /\ UNCHANGED evmVars) \/ (EP!Next /\ UNCHANGED fmVars)

Spec == Init /\ [][Next]_<<fmVars, evmVars>>

\* The fee market store's type: every value is a sequence of bytes.
TypeOK == FM!TypeOK

=============================================================================
