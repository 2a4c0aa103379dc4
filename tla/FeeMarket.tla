----------------------------- MODULE FeeMarket -----------------------------
(***************************************************************************)
(* The fee market keeper's store (x/feemarket/keeper/keeper.go and        *)
(* types/keys.go): the block gas wanted, written big-endian by             *)
(* SetBlockGasWanted at every EndBlock and read back by GetBlockGasWanted, *)
(* and the deprecated v1 base fee, which only an old store can still hold  *)
(* and GetBaseFeeV1 reads.  The KV store maps a key (its prefix bytes) to  *)
(* a value; an absent key reads as no bytes.  A uint64 has Width bytes.    *)
(***************************************************************************)
EXTENDS Naturals, Sequences, SequencesExt

CONSTANTS
  Width,        \* bytes of a uint64 (8 in the code)
  GasValues,    \* block gas wanted values EndBlock may store
  LegacyBytes,  \* base fee bytes a store written by v1 may still hold
  Nil,          \* a nil *big.Int
  Panic         \* the result of a read that panics

ASSUME \A g \in GasValues : g < 256^Width

VARIABLES
  store       \* the module's KV store: key -> value bytes

vars == <<store>>

\* types/keys.go: prefixBlockGasWanted = iota + 1; deprecatedPrefixBaseFee
\* follows and is unused.
KeyPrefixBlockGasWanted == << 1 >>

\* keeper.go: the key the v1 base fee was stored under.
KeyPrefixBaseFeeV1 == << 2 >>

Keys == {KeyPrefixBlockGasWanted, KeyPrefixBaseFeeV1}

Uint64ToBigEndian(x) == [i \in 1..Width |-> (x \div 256^(Width - i)) % 256]

\* big.Int.SetBytes: the bytes as a big-endian unsigned number.
SetBytes(bz) == FoldLeft(LAMBDA acc, b : acc * 256 + b, 0, bz)

\* sdk.BigEndianToUint64 on a non-empty value: binary.BigEndian.Uint64
\* reads the first Width bytes and panics on fewer.
BigEndianToUint64(bz) ==
  IF Len(bz) < Width THEN Panic ELSE SetBytes(SubSeq(bz, 1, Width))

\* GetBlockGasWanted: 0 when nothing is stored.
GetBlockGasWanted ==
  LET bz == store[KeyPrefixBlockGasWanted]
  IN IF Len(bz) = 0 THEN 0 ELSE BigEndianToUint64(bz)

\* GetBaseFeeV1: nil when nothing is stored (base fee not enabled).
GetBaseFeeV1 ==
  LET bz == store[KeyPrefixBaseFeeV1]
  IN IF Len(bz) = 0 THEN Nil ELSE SetBytes(bz)

\* A fresh store, or one upgraded from v1 that still holds a base fee.
Init ==
  \E bz \in LegacyBytes \cup {<< >>} :
    store = [k \in Keys |-> IF k = KeyPrefixBaseFeeV1 THEN bz ELSE << >>]

\* SetBlockGasWanted(gas), called at EndBlock.
SetBlockGasWanted(gas) ==
  store' = [store EXCEPT ![KeyPrefixBlockGasWanted] = Uint64ToBigEndian(gas)]

Next == \E gas \in GasValues : SetBlockGasWanted(gas)

Spec == Init /\ [][Next]_vars

TypeOK == store \in [Keys -> Seq(0..255)]

=============================================================================
