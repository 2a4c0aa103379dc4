# TLA+ models of the ethermint EVM module

This directory holds TLA+ specifications of the parts of ethermint (`src/`)
where the hard bugs live: ordering, rollback and state kept across calls. It
also holds the TLC configurations that check them. `PROJECT.json` lists every
component, run, mutant, hazard and finding. Its `map` ties every modelled
definition to the source lines it translates.

## The system and how its parts interact

* **The StateDB** is the journaled cache the EVM reads and writes during one
  transaction or `eth_call`. It has three parts:
  * *State objects* (`x/evm/statedb/state_object.go`) cache one account: its
    nonce, its code, and three storage layers (origin, dirty, override).
  * *The journal* records one undo entry for every mutation. `Snapshot`
    remembers the journal length; `RevertToSnapshot` undoes entries back to
    that length.
  * *`Commit`* writes every live object to the keeper.
* **The keeper's write side** (`x/evm/keeper/statedb.go`) is called by
  `Commit`. It provides `SetAccount`, `SetState`, `SetCode`, `DeleteAccount`
  and the balance updates.
* **The Firehose tracer** (`x/evm/tracers/firehose.go`) receives hooks in a
  fixed order:
  * the keeper (`BeginBlock`/`EndBlock`, transaction start/end) and the EVM
    (call enter/exit, balance, nonce, code, storage, gas and log changes) call
    it;
  * it builds a block of transactions and calls, stamped with a block-wide
    ordinal;
  * it panics the node on any inconsistency.

  The same tracer is registered as a go-ethereum live tracer
  (`firehose.go` `init`). On that path geth's own hooks drive it instead:
  `OnGenesisBlock`, `OnBlockStart`, `OnBlockEnd(err)`, `OnSkippedBlock`,
  `OnTxStart` and the system call hooks.

  The tracer sees the same reverts the StateDB makes. At transaction end it
  checks its own view of the logs that survived against the receipt.
* **The ante handler's fee checks** (`app/ante/fees.go`) and **the EVM chain
  config** (`x/evm/types/chain_config.go`) are pure functions. They are
  modelled as operators and checked against reference definitions over every
  input of a small domain.
* **The fee market keeper** (`x/feemarket/keeper/keeper.go`) stores the block
  gas wanted at every `EndBlock` as 8 big-endian bytes. It reads it back when
  the next base fee is computed. It can also still read a base fee that a v1
  store left under key `0x02`.
* **The EVM parameter store** (`x/evm/keeper/params.go`) keeps the parameters
  as one protobuf value. `GetParams` falls back to the legacy `x/params`
  subspace when that value is empty. A chain that migrated from the subspace
  still has the old set there, because no migration deletes it. The v6
  migration (`x/evm/migrations/v6/migrate.go`) rewrites the stored set with
  Shanghai active from time 0.

Two parts are not in the source tree: `x/evm/statedb/statedb.go` and
`journal.go`. They are modelled from `spec.md` §4.2–4.4. Their `map` entries
are marked `spec_modelled`.

## Modules

| module | models | state and actions |
|---|---|---|
| `JournaledState` | what the journal promises | Its state is `view` (everything a getter observes), the saved `revisions` and `nextId`. Its actions are Snapshot, RevertToSnapshot, Mutate, Commit and Discard. It is used only as a property. |
| `StateDB` | state objects, journal, StateDB, keeper writes | See below. |
| `Firehose` | the tracer and its driver | See below. |
| `Fees` | `MinGasPriceDecorator`, `CheckEthMinGasPrice`, `CheckEthMempoolFee` | `Ceil` and `IsAnyGTE` are operators. The one variable `tx` ranges over every candidate transaction, CheckTx and London flags included. |
| `ChainConfig` | `Validate`, `EthereumConfig`, `getTimeValue`/`getBlockValue` | The one variable `cc` ranges over every configuration of a reduced fork list. |
| `FeeMarket` | `SetBlockGasWanted`, `GetBlockGasWanted`, `GetBaseFeeV1` | `store` is the module's KV store (key bytes → value bytes, with `<< >>` meaning absent). `SetBlockGasWanted` is the one action. The encodings (`Uint64ToBigEndian`, `BigEndianToUint64`, `big.Int.SetBytes`) are operators over byte sequences. |
| `EvmParams` | `GetParams`, `SetParams`, `GetLegacyParams`, v6 `MigrateStore` | `store` holds the encoded set, `legacy` the subspace's set, and `version` the store layout (`"v4"` before the migration, then `"v6"`). A parameter set is reduced to its EVM denom and Shanghai time. `Marshal` always writes some bytes, because `Params` always encodes its non-nullable `chain_config`. `Params.Validate` lies outside `src/` and is the constant `ValidParams`. |
| `MC_ModuleStores` | both module stores side by side | It instantiates `FeeMarket` and `EvmParams` with their variables renamed. Their steps interleave. |
| `MC_*` | model values and finite sets for TLC | Negative values are defined here, because a `.cfg` cannot hold them. |

**StateDB.**
* Keeper store: `kAccount`, `kStorage`, `kCode`, `kBalance` and `kNative`.
* StateDB state: `objs` (address → state object or `Nil`), the cached
  `balance`/`native`, `refund`, `logs`, the access list, `journal`,
  `validRevisions`, `nextRevisionID` and `phase`. `units` counts the StateDBs
  created so far.
* Actions: one per StateDB method the EVM calls. Each action takes its
  arguments with `\E` over small sets and appends the journal entries the code
  appends.
  * `SetState` is a no-op for an unchanged value, but the `GetState` it runs
    first still fills `originStorage` (`fillOrigin`).
  * `SetStorage` replaces the override with no journal entry, exactly as the
    code does.
* `undo` is the revert of each entry kind. `revertJournal` folds `undo` over
  the journal suffix.
* `Commit` runs `commitObject` or `deleteAccount` for every live object, as the
  keeper does.
  * `NonEth` is the set of addresses whose auth account is not an
    `EthAccount` (vesting or module accounts). `SetAccount` keeps no code hash
    for them.
  * `DeleteAccount` fails for them (`deleteFails`). Commit then ends in phase
    `failed` with the store unchanged, because the caller discards the cached
    context on that error.
* `NewStateDB` discards the cache and starts the next unit of execution on the
  committed store.

**Firehose.**
* Tracer variables mirror fields of the `Firehose` struct. Examples:
  `block`, `trx`, the block `ordinal`, `callStack` (`stack`, `stackIndex`,
  `depth`), `deferredCallState`, `latestCallEnterSuicided` and
  `transactionLogIndex`.
* `backwardCompat` is `*f.applyBackwardCompatibility`. It is chosen from
  `CompatModes` at construction and never changes. Under it `callStart`
  takes an ordinal for every root call and then assigns its begin back to 0,
  in every block (`firehose.go:1070-1078`). In block 0 `callStart`/`callEnd`
  take no ordinal at all; only `OnGenesisBlock` traces that block, since
  Cosmos heights start at 1.
* The tracer's `panic` sets `panicked` with its reason. This lets TLC report a
  panic as an invariant violation rather than stopping.
* Every hook is one action. Its `ensure*` guards are `IF` branches that crash,
  as in the code.
* `OnTxEnd` includes `completeTransaction`: the sort of the calls by index,
  the deferred-state flush into the root call, `populateStateReverted`,
  `removeLogBlockIndexOnStateRevertedCalls`, and the comparison of call logs
  with receipt logs.
* `BeginBlock` and `EndBlock` are the keeper's ABCI hooks (`keeper/abci.go`).
  They call `OnCosmosBlockStart` and `OnCosmosBlockEnd`.
* With `GethHooks = TRUE` the geth hooks replace `BeginBlock`/`EndBlock` and
  `OnCosmosTxStart`:
  * `OnGenesisBlock` traces block 0 in one step: one transaction whose root
    call holds one change per allocation entry (up to `MaxAlloc`);
  * `OnBlockEnd("failed")` is a block that fails: nothing is printed, and the
    block (`resetBlock`, ordinal included) and the transaction are reset;
  * `OnSkippedBlock` prints an empty block;
  * `OnSystemCallStart`/`OnSystemCallEnd` wrap a root call in an empty
    transaction trace (`inSystemCall`). The calls are then moved to the
    block's `sys` list without `completeTransaction`;
  * with `FailingTxs`, `OnTxEnd("nil")` is a transaction that geth's state
    transition rejects before the root call (no receipt).

  Geth defers `OnTxEnd`, `OnSystemCallEnd` and `OnBlockEnd`, so a block error
  reaches the tracer between transactions. The driver (stage `"block"`, plus
  `sysCall` for system calls) keeps that order.
* `OnOpcode` records a gas change with a fresh ordinal on the active call. It
  runs no `ensure*` check.
* Driver variables (`stage`, `frames`, `stateLogs`, `sdPending`, `halting`) make
  the hooks arrive in the order the keeper and the EVM produce:
  * one root call per transaction, with calls nested up to `MaxDepth`;
  * balance, gas and nonce changes before the root call (`pre`) and after it
    (`post`);
  * code, storage and log changes only inside a call;
  * a failing call removes the logs it and its children added to the StateDB;
  * a SELFDESTRUCT is an enter immediately followed by its exit. After it the
    frame stops (`halting`): only its exit, with no error, is left.
* Addresses, values and topics are abstracted away. A change is its ordinal,
  and a log is its ordinal plus its two indexes.

## Runs

| run | cfg | expect | what it shows |
|---|---|---|---|
| `statedb` | `MC_StateDB.cfg` | pass | `JournaledStateSpec`: `StateDB` refines `JournaledState` (see "Refinement" below). `CommitRoundTrip`: after Commit, the keeper holds exactly what the cache showed. |
| `statedb_units` | `MC_StateDB_Units.cfg` | pass | Two StateDBs run in a row. The second starts from whatever the first committed (deleted, recreated or changed accounts), and Commit still round-trips. |
| `statedb_late_override` | `MC_StateDB_LateOverride.cfg` | violation | A storage override installed after a snapshot is not undone by reverting to it. This is finding 1. |
| `firehose` | `MC_Firehose.cfg` | pass | The tracer never panics under a well-behaved EVM (`TracerNeverPanics`). `StateRevertedExact`: a call is marked reverted exactly when it or an ancestor failed. `OrdinalsExact`: every ordinal of a block is handed out exactly once. `CallIntervalsNested`: call `[begin, end]` ordinal intervals nest like the calls. |
| `fees` | `MC_Fees.cfg` | pass | The Cosmos and Ethereum minimum gas price checks, and the local mempool minimum in CheckTx before London, all accept exactly the fees with `fee ≥ minGasPrice × gas`. |
| `chainconfig_time_wrap` | `MC_ChainConfig.cfg` | violation | A fork time of 2^W passes `Validate` and reaches the EVM as 0. This is finding 2. |
| `firehose_liveness` | `MC_Firehose_Live.cfg` | pass | `TxEventuallyPrinted`: under the fairness below, every transaction the tracer starts ends up in a printed block. This fails if the SELFDESTRUCT flag swallows a real call exit. |
| `firehose_geth` | `MC_Firehose_Geth.cfg` | pass | Under geth's hooks (genesis, skipped and failed blocks, system calls) the tracer never panics. This holds with backward compatibility both off and on. `OrdinalsExact` includes system calls and a block after a failed one. The ordinals of a block are distinct. With backward compatibility on, the ordinals handed out but carried by nothing are exactly the root-call begins set back to 0, and only the genesis root keeps begin and end 0 without taking any. `CallIntervalsNested` includes the genesis transaction. |
| `firehose_geth_failed_tx` | `MC_Firehose_GethFailedTx.cfg` | violation | A transaction rejected before its root call panics `completeTransaction`. This is finding 4. |
| `module_stores` | `MC_ModuleStores.cfg` | pass | The two stores step side by side: `EndBlock` writes, the v6 migration and `SetParams`. Only the fee market store's type is checked. Reading back the fixed-width encoding, keeping the two constant keys apart, and the params fallback (unreachable, because a stored set is never empty bytes) all hold by construction. So they are not stated as properties. |
| `statedb_non_eth` | `MC_StateDB_NonEth.cfg` | violation | Code created at a vesting account's address is lost at Commit. This is finding 3. |

**Refinement.** The refinement in `statedb` is checked with
`INSTANCE JournaledState WITH`. The mapping computes the abstract `view` from
the cache. It computes each saved revision by reverting the current journal
back to that snapshot's length. So every snapshot the interpreter can revert to
must give back exactly what it saw, across every interleaving of creates,
self-destructs, storage writes, native actions, refunds, logs and access-list
additions.

Every property of a passing run has a mutant in `PROJECT.json`: a plausible bug
in the mapped code that TLC finds. Examples:
* a refund underflow check dropped;
* the committed value journaled as `SetState`'s previous value;
* `Commit` writing only the code;
* the calls not sorted before `populateStateReverted`;
* the deferred state not flushed;
* a call end reusing an ordinal;
* the call index read before its increment;
* a call's reverted flag taken from itself instead of its parent;
* the fee ceiling truncated;
* the SELFDESTRUCT flag not cleared when it skips an exit;
* a system call end that does not reset the transaction;
* a failed block end that does not reset the ordinal;
* the genesis transaction ending on its root call's ordinal;
* the gas wanted encoded without truncating each byte.

## Findings

1. **`SetStorage` is not journaled**
   (`state_object.go:238`, spec/code divergence).
   * `spec.md` §4.1 requires every mutation of a state object to go through
     the journal.
   * `SetStorage` swaps the override and clears the caches directly.
   * This is safe only while callers (`eth_call` state overrides) install
     overrides before any snapshot. The passing runs assume that, through
     `OverridesAtStartOnly = TRUE`.
2. **Fork times wrap** (`chain_config.go:112`, code bug).
   * `ValidateTime` rejects only negative times.
   * `getTimeValue` converts a time with `big.Int.Uint64`, which keeps the low
     64 bits. A fork time of 2^64 therefore activates the fork at genesis.
   * The comment on `EthereumConfig` says that only nil or negative values are
     changed.

3. **Code hash dropped for non-Ethereum accounts** (`keeper/statedb.go:125`,
   code bug).
   * `SetAccount` sets the code hash only on an `EthAccountI`, and returns no
     error otherwise.
   * A CREATE/CREATE2 onto an address that holds a vesting or module account
     with nonce 0 writes the code with `SetCode`, but the account never points
     to it. The next StateDB reads no code.
   * `spec.md` §8.1 says committed values read back exactly.

4. **A transaction without calls panics the tracer** (`firehose.go:737`,
   spec/code divergence).
   * `completeTransaction` reads `Calls[0]` first.
   * Its comments (lines 744 and 830) say the receipt is nil when a
     transaction failed, and they handle that case.
   * On the geth path, a transaction that the state transition rejects (nonce,
     intrinsic gas, funds) gets `OnTxStart` and then the deferred
     `OnTxEnd(nil, err)`, without entering the EVM. Tracing such a block
     crashes the node.
   * This hook order is go-ethereum's, outside this repository. The Cosmos
     keeper code that calls `OnTxEnd` is not in the source tree either.

## Bounds

**StateDB.**
* Domain: two addresses, one key, values 0..1, two codes, nonce, balance and
  refund 0..1.
* Limits: at most 2 journal entries, 2 snapshots and 1 unit of execution.
* These bounds suffice for:
  * a write followed by its revert;
  * two writes to the same key with a revert between them;
  * a snapshot taken inside another;
  * a create over an existing object;
  * every journal entry kind on either account.
* Cost: about 226k states in under 2 minutes.
* `statedb_units` instead allows two units and 1 snapshot, with only the state
  invariant (about 3.9M states).

**Firehose.**
* `MaxDepth = 3` gives a root call with a child and a grandchild. A failure
  can therefore be inherited over two levels, and a SELFDESTRUCT can happen
  inside a nested call.
* `MaxOrdinal = 12` bounds the ordinals per block.
* The driver reserves the ordinals each open call and the transaction still
  need (`Fits`). So a bounded behaviour is never stuck half-way through a
  transaction, and deadlock is checked.
* About 2.3M states in under a minute.
* The liveness run uses `MaxDepth = 2` and `MaxOrdinal = 8` (about 4.5k states
  but a costly temporal check). That is still enough for a root call with a
  child, a SELFDESTRUCT in either, and two transactions in a block.
* The geth runs use `MaxDepth = 2`, `MaxOrdinal = 11` and `MaxAlloc = 2`.
  `firehose_geth` also lets `CompatModes = {FALSE, TRUE}` choose the
  tracer's backward-compatibility flag at construction (about 4.4M states in
  a minute). That is enough for a genesis with 0 to 2 entries, and
  for a block with a system call and a transaction. It is also enough for a
  failed block followed by a printed one.
* `statedb_non_eth` makes `a2` a vesting account with nonce 0 and no code.

**Module stores.** TLC's integers are 32-bit, so `Width = 3` scales the uint64
down to 3 bytes. The encoding is the same for every byte. The gas values
include 0, 255, 256, 65535, 65536, the largest word and 1..20. The legacy
values include a leading zero byte and one longer than a word, which
`SetBytes` accepts.

The parameter sets combine five denoms (`""` included) with a Shanghai time
that is either nil or 0..3. The v4 layout holds any valid set without a
Shanghai time, and the subspace holds any such set. Validation follows
ethermint's `Params.Validate` on the modelled fields: `sdk.ValidateDenom`
refuses the empty denom. The two stores together give about 16k states.

**Fees and ChainConfig.**
* Fees: `P = 2` decimal places and prices with fractional parts. Both exact
  and non-exact products of price and gas occur. A Cosmos transaction with
  gas limit 0 is rejected whatever its fee (no required coin, and
  `IsAnyGTE` of no coins is false). The repository's fee checker test
  `fail, min-gas-prices` expects the same rejection of a zero-gas
  transaction, so `MinFeeChecksAgree` compares the checks only for gas > 0.
* ChainConfig: `W = 2` bits, with values on both sides of 0 and of 2^W.

## Fairness

The safety runs assume no fairness. `firehose_liveness` checks `FairSpec`,
which adds weak fairness on the following steps:
* `EndBlock`: FinalizeBlock runs EndBlock after every BeginBlock that
  succeeded.
* `OnTxEnd` and the root `OnCallEnter`: the keeper's message handling always
  enters the root frame and always ends the transaction it started.
* `OnCallExit` and the SELFDESTRUCT exit: the EVM exits every frame it enters,
  because the `OnExit` hook is deferred.

Starting a block or a transaction, and reporting a change, are never forced.
The tracer itself is passive.

`CHECK_DEADLOCK FALSE` is set only for the StateDB runs. Once Commit is done
and the unit bound is reached, a StateDB is finished and nothing more happens
to it. The Firehose run checks deadlock.

## What is not modelled

* Firehose:
  * `OnCosmosBlockEnd` with an error, which the keeper never passes;
  * the tracer's testing-only `IgnoreGenesisBlock` option;
  * `newIsolatedTransactionTracer`, which is never called;
  * `reorderIsolatedTransactionsAndOrdinals`, which is dead because
    `blockReorderOrdinal` is never set;
  * opcode data other than the gas change (executed code, keccak preimages);
  * protobuf field conversions, printing and flushing, which are formatting
    and I/O;
  * balance and gas reasons the tracer ignores.

  The block-level balance change branch is in the model, but the driver never
  takes it, because the keeper never reports one.
* Keeper:
  * the chain id, parameter cache and bloom writes of `BeginBlock`/`EndBlock`,
    and the `EVMBlockConfig` error, which halts the node;
  * the KV store iterator semantics behind deleting storage during
    `ForEachStorage`.
* Chain config: go-ethereum's own fork list, of which only five
  representative forks are modelled; `CheckConfigForkOrder` is from
  go-ethereum.
* Fee market: a base fee of 0 stored by v1 would be empty bytes, so it would
  read back as nil. The v1 writer is not in this repository, so the model's
  legacy values are non-empty.
* EVM params: the fields other than the denom and the Shanghai time, and
  the chain-config checks of `Params.Validate`, which lies outside `src/`.
* Other modules: the simulation genesis (random generation for
  simulations) and the test utilities (`testutil.Commit` drives a whole
  application, and nearly all of what it calls is cosmos-sdk code outside
  this repository).
