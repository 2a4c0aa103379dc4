------------------------------ MODULE EvmParams ------------------------------
(***************************************************************************)
(* The EVM module's parameter store (x/evm/keeper/params.go) and the v6    *)
(* store migration (x/evm/migrations/v6/migrate.go).  The parameters live  *)
(* as one protobuf value under KeyPrefixParams; a chain migrated from the  *)
(* legacy x/params subspace still has the old set there, and GetParams     *)
(* falls back to it whenever the stored value is empty.  Params are        *)
(* abstracted to the EVM denom and the Shanghai fork time, the fields the  *)
(* migration and validation look at.                                        *)
(***************************************************************************)
EXTENDS Naturals, Sequences

CONSTANTS
  Denoms,       \* EVM denoms a parameter set can carry ("" included)
  Times,        \* Shanghai fork times
  NoTime,       \* a nil ShanghaiTime
  ValidParams   \* the sets Params.Validate accepts (x/evm/types, outside src)

Params == [denom : Denoms, shanghai : Times \cup {NoTime}]

\* The proto3 zero value: every field at its default.
ZeroParams == [denom |-> "", shanghai |-> NoTime]

ASSUME ValidParams \subseteq Params

VARIABLES
  store,     \* the bytes under KeyPrefixParams (<< >> when absent or empty)
  legacy,    \* the V0 parameter set left in the x/params subspace
  version    \* the store layout: "v4" before MigrateStore ran, then "v6";
             \* "halted" when the migration failed the upgrade

vars == <<store, legacy, version>>

\* cdc.MustMarshal: Params always emits its non-nullable chain_config
\* field, so every set encodes to some bytes, here the set itself.
Marshal(p) == << p >>

\* cdc.MustUnmarshal: no bytes decode to the zero value.
Unmarshal(bz) == IF bz = << >> THEN ZeroParams ELSE Head(bz)

\* GetLegacyParams: GetParamSetIfExists fills what the subspace holds and
\* V0Params.ToParams carries it over; V0 had no Shanghai time.
GetLegacyParams == legacy

\* GetParams: the stored set, or the legacy one when nothing is stored.
GetParams == IF Len(store) = 0 THEN GetLegacyParams ELSE Unmarshal(store)

\* A v6 chain from genesis (empty subspace), or a chain at the v4 layout
\* whose validated set is stored and whose subspace keeps the V0 set.
Init ==
  \/ /\ version = "v6" /\ legacy = ZeroParams
     /\ \E p \in ValidParams : store = Marshal(p)
  \/ /\ version = "v4"
     /\ legacy \in {q \in Params : q.shanghai = NoTime}
     /\ \E p \in ValidParams : p.shanghai = NoTime /\ store = Marshal(p)

\* SetParams (genesis or MsgUpdateParams): an invalid set is an error and
\* leaves the store; a valid one replaces the stored set.
SetParams(p) ==
  /\ version = "v6"
  /\ IF p \notin ValidParams THEN UNCHANGED store
     ELSE store' = Marshal(p)
  /\ UNCHANGED <<legacy, version>>

\* MigrateStore: decode the v4 set (V4Params.ToParams keeps its fields),
\* switch Shanghai on from time 0, validate and store it.  A validation
\* error fails the upgrade, and the node stops.
MigrateStore ==
  LET newParams == [Unmarshal(store) EXCEPT !.shanghai = 0]
  IN /\ version = "v4"
     /\ IF newParams \notin ValidParams
        THEN version' = "halted" /\ UNCHANGED store
        ELSE /\ store' = Marshal(newParams)
             /\ version' = "v6"
     /\ UNCHANGED legacy

Next == MigrateStore \/ \E p \in Params : SetParams(p)

Spec == Init /\ [][Next]_vars

=============================================================================
