---------------------------- MODULE ChainConfig ----------------------------
(***************************************************************************)
(* The EVM chain configuration parameter (x/evm/types/chain_config.go):    *)
(* its validation and its conversion to the go-ethereum ChainConfig the    *)
(* EVM runs with.  Fork values are sdkmath.Int (unbounded); a fork time is *)
(* converted with big.Int.Uint64, which keeps the low 64 bits; here the    *)
(* width is W bits so that a value past the width is small.                *)
(*                                                                         *)
(* The configuration is a constant input: the module's one variable holds *)
(* it unchanged and the properties are checked on every possible value.    *)
(***************************************************************************)
EXTENDS Integers

CONSTANTS
  W,            \* bit width standing for uint64
  Values,       \* candidate fork values: integers, some negative, some >= 2^W
  Nil

\* A reduced fork list, in go-ethereum's CheckConfigForkOrder order: the
\* last block fork before the merge and the timestamp forks after it.
Forks == <<[name |-> "homestead", kind |-> "block", optional |-> FALSE],
           [name |-> "mergeNetsplit", kind |-> "block", optional |-> TRUE],
           [name |-> "shanghai", kind |-> "time", optional |-> FALSE],
           [name |-> "cancun", kind |-> "time", optional |-> TRUE],
           [name |-> "prague", kind |-> "time", optional |-> TRUE]>>
ForkIds == 1..5

VARIABLE cc   \* the ChainConfig param: fork id -> value or Nil

-----------------------------------------------------------------------------
\* getBlockValue: nil and negative become nil, others are kept.
getBlockValue(b) == IF b = Nil THEN Nil ELSE IF b < 0 THEN Nil ELSE b

\* getTimeValue: nil and negative become nil, others keep their low W bits.
getTimeValue(t) == IF t = Nil THEN Nil ELSE IF t < 0 THEN Nil ELSE t % (2^W)

\* EthereumConfig: every fork converted by the helper of its kind.
EthereumConfig(c) ==
  [f \in ForkIds |-> IF Forks[f].kind = "block" THEN getBlockValue(c[f]) ELSE getTimeValue(c[f])]

\* ValidateBlock / ValidateTime: nil (fork not scheduled) or non-negative.
ValidateBlock(b) == b = Nil \/ b >= 0
ValidateTime(t) == t = Nil \/ t >= 0

(* go-ethereum's CheckConfigForkOrder (outside this repository): a fork    *)
(* may be set only if every earlier non-optional one is, and values of the *)
(* same kind must not decrease.                                            *)
CheckConfigForkOrder(e) ==
  \A f, g \in ForkIds :
    /\ f < g /\ e[g] # Nil =>
         /\ ~Forks[f].optional => e[f] # Nil
         /\ (e[f] # Nil /\ Forks[f].kind = Forks[g].kind) => e[f] <= e[g]

\* Validate: every field, then the fork order of the converted config.
Validate(c) ==
  /\ \A f \in ForkIds : IF Forks[f].kind = "block" THEN ValidateBlock(c[f]) ELSE ValidateTime(c[f])
  /\ CheckConfigForkOrder(EthereumConfig(c))

-----------------------------------------------------------------------------
Init == cc \in [ForkIds -> Values \cup {Nil}]
Next == UNCHANGED cc
Spec == Init /\ [][Next]_cc

(* A configuration that passes Validate reaches the EVM unchanged: every   *)
(* scheduled fork keeps the block or time the parameter gives it           *)
(* (EthereumConfig's comment: only negative or nil values become nil).     *)
ValidConfigKept ==
  Validate(cc) => \A f \in ForkIds : EthereumConfig(cc)[f] = cc[f]
=============================================================================
