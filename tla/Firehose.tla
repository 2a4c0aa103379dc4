------------------------------ MODULE Firehose ------------------------------
(***************************************************************************)
(* The Firehose live tracer (x/evm/tracers/firehose.go) as driven by the   *)
(* keeper and the EVM: block, transaction and call lifecycle, the block    *)
(* ordinal, the call stack with its index/parent/depth bookkeeping, the    *)
(* deferred call state, the SELFDESTRUCT pseudo-call, and the transaction  *)
(* completion (sort, deferred flush, populateStateReverted, log block      *)
(* index removal, and the check of call logs against receipt logs).        *)
(*                                                                         *)
(* The driver follows the EVM's callback protocol: one root call per       *)
(* transaction, calls properly nested, logs only inside a call, and a      *)
(* failed call reverting the StateDB logs it and its children added.  A   *)
(* panic of the tracer is recorded in `panicked' instead of halting.       *)
(* Data (addresses, values, topics) is abstracted away: a change or a log  *)
(* is its ordinal, plus a log's two indexes.                               *)
(*                                                                         *)
(* The tracer is also a go-ethereum live tracer (registered in init).      *)
(* With GethHooks the blocks come from geth's hooks instead of the keeper: *)
(* OnGenesisBlock, OnBlockStart, OnSkippedBlock, system calls, and        *)
(* OnBlockEnd with an error when block processing fails.                  *)
(***************************************************************************)
EXTENDS Naturals, FiniteSets, Sequences, SequencesExt, TLC

CONSTANTS
  CompatModes,    \* the values *f.applyBackwardCompatibility may take
  GethHooks,      \* driven by go-ethereum's hooks rather than the keeper's
  FailingTxs,     \* geth ends some transactions with an error and no receipt
  MaxAlloc,       \* bound: genesis accounts with a balance, code, nonce or slot
  MaxDepth,       \* bound: EVM call depth
  MaxOrdinal,     \* bound: ordinals one block may hand out
  Nil

CallErrors == {"none", "revert", "insufficientBalance", "other"}

VARIABLES
  \* --- the tracer (Firehose struct) ---
  chainInit,    \* chainConfig # nil (OnBlockchainInit has run)
  block,        \* f.block: Nil or [txs, changes] (block-level changes)
  ordinal,      \* f.blockOrdinal.value
  trx,          \* f.transaction: Nil or [begin, calls]
  logIndex,     \* f.transactionLogIndex
  stack,        \* f.callStack.stack, active calls, innermost last
  stackIndex,   \* f.callStack.index
  depth,        \* f.callStack.depth
  deferred,     \* f.deferredCallState: ordinals of changes before the call
  suicided,     \* f.latestCallEnterSuicided
  emitted,      \* the block printed by the last block end, until the next starts
  panicked,     \* "none", or why the tracer panicked
  inSystemCall, \* f.inSystemCall
  backwardCompat, \* *f.applyBackwardCompatibility, fixed by newFirehose
  \* --- the driver (keeper + EVM) ---
  stage,        \* "idle" | "block" | "pre" | "call" | "post"
  frames,       \* the EVM call frames: the StateDB log count at entry
  stateLogs,    \* logs in the StateDB for this transaction
  sdPending,    \* OnEnter(SELFDESTRUCT) done, its OnExit not yet
  halting,      \* the active frame ran SELFDESTRUCT: only its exit is left
  sysCall       \* the open "transaction" is a geth system call

tracerVars == <<chainInit, block, ordinal, trx, logIndex, stack, stackIndex,
                depth, deferred, suicided, emitted, panicked, inSystemCall>>
driverVars == <<stage, frames, stateLogs, sdPending, halting, sysCall>>
vars == <<tracerVars, driverVars, backwardCompat>>

-----------------------------------------------------------------------------
(* Helpers of the tracer.                                                  *)

\* Ordinal.Next: the value the next call hands out.
nextOrdinal == ordinal + 1

\* A panic: the tracer state is frozen with the reason recorded.
Crash(reason) ==
  /\ panicked' = reason
  /\ UNCHANGED <<chainInit, block, ordinal, trx, logIndex, stack, stackIndex,
                 depth, deferred, suicided, emitted, inSystemCall>>

\* CallStack.HasActiveCall.
HasActiveCall == stack # << >>

\* The ensure* guards: each failing one is a panic (panicInvalidState).
ensureBlockChainInit == chainInit
ensureInBlock == block # Nil /\ chainInit
ensureInBlockAndInTrx == ensureInBlock /\ trx # Nil
ensureInBlockAndNotInTrx == ensureInBlock /\ trx = Nil
ensureInBlockAndNotInTrxAndNotInCall == ensureInBlockAndNotInTrx /\ ~HasActiveCall
ensureInBlockOrTrx == trx # Nil \/ block # Nil
ensureInBlockAndInTrxAndInCall == trx # Nil /\ block # Nil /\ HasActiveCall
ensureInCall == block # Nil
ensureInSystemCall == inSystemCall

\* Defect variant: the index is taken before CallStack.Push increments it.
NewCallIndexBeforeIncrement(index, parent, d, begin) ==
  [index |-> index - 1, parent |-> parent, depth |-> d, begin |-> begin, end |-> 0,
   failed |-> FALSE, statusReverted |-> FALSE, stateReverted |-> FALSE,
   suicide |-> FALSE, changes |-> {}, logs |-> << >>]

\* The pbeth.Call that callStart builds and CallStack.Push numbers.
NewCall(index, parent, d, begin) ==
  [index |-> index, parent |-> parent, depth |-> d, begin |-> begin, end |-> 0,
   failed |-> FALSE, statusReverted |-> FALSE, stateReverted |-> FALSE,
   suicide |-> FALSE, changes |-> {}, logs |-> << >>]

Top == stack[Len(stack)]

\* CallStack.Pop: the active call leaves the stack, one level up.
Pop == stack' = Front(stack) /\ depth' = depth - 1

\* A new pbeth.Block: transaction traces, block-level changes, system calls.
NewBlock == [txs |-> << >>, changes |-> {}, sys |-> << >>]

\* DeferredCallState.MaybePopulateCallAndReset for the root call: it takes
\* every change recorded while no call was active (the caller then resets
\* the deferred state, and panics first if the call is not the root).
MaybePopulateCallAndReset(call, def) == [call EXCEPT !.changes = @ \cup def]

\* Records a change ordinal on the active call.
AddToTop(field, x) ==
  stack' = [stack EXCEPT ![Len(stack)] =
              IF field = "changes" THEN [@ EXCEPT !.changes = @ \cup {x}]
              ELSE [@ EXCEPT !.logs = Append(@, x)]]

\* resetTransaction: transaction and call state in one shot.
ResetTransaction ==
  /\ trx' = Nil /\ logIndex' = 0 /\ stack' = << >> /\ stackIndex' = 0
  /\ depth' = 0 /\ suicided' = FALSE /\ deferred' = {} /\ inSystemCall' = FALSE

\* resetBlock: the block state, its ordinal included.
resetBlock == block' = Nil /\ ordinal' = 0

-----------------------------------------------------------------------------
(* Transaction completion (completeTransaction and the steps it calls).    *)

\* Defect variant: a call's reversion ignores its parent's.
RECURSIVE PopulateFromOwn(_, _)
PopulateFromOwn(calls, i) ==
  IF i > Len(calls) THEN calls
  ELSE PopulateFromOwn([calls EXCEPT ![i].stateReverted = calls[i].failed], i + 1)

\* populateStateReverted: one pass in slice order; a call whose parent comes
\* later in the slice reads the parent's not-yet-computed (false) value.
RECURSIVE PopulateFrom(_, _)
PopulateFrom(calls, i) ==
  IF i > Len(calls) THEN calls
  ELSE LET p == calls[i].parent
           parentReverted == p > 0 /\ calls[p].stateReverted
       IN PopulateFrom([calls EXCEPT ![i].stateReverted = parentReverted \/ calls[i].failed], i + 1)

populateStateReverted(calls) == PopulateFrom(calls, 1)

\* removeLogBlockIndexOnStateRevertedCalls
removeLogBlockIndex(calls) ==
  [i \in 1..Len(calls) |->
     IF calls[i].stateReverted
     THEN [calls[i] EXCEPT !.logs = [j \in 1..Len(@) |-> [@[j] EXCEPT !.blockIndex = 0]]]
     ELSE calls[i]]

\* The logs of calls whose state survived, by ordinal.
callLogs(calls) ==
  SortSeq(FlattenSeq([i \in 1..Len(calls) |->
                        IF calls[i].stateReverted THEN << >> ELSE calls[i].logs]),
          LAMBDA x, y : x.ordinal < y.ordinal)

\* Defect variant: the calls are left in exit order.
sortCallsUnsorted(calls) == calls

\* Sort by index (the order calls were entered).
sortCalls(calls) == SortSeq(calls, LAMBDA x, y : x.index < y.index)

\* Defect variant: the deferred state is not flushed into the root call.
completedCallsNoFlush(calls, def) ==
  removeLogBlockIndex(populateStateReverted(sortCalls(calls)))

\* The calls once completeTransaction has run: sorted, the deferred state
\* appended to the root call, state reversion trickled down, and the block
\* index of reverted logs cleared.
completedCalls(calls, def) ==
  LET sorted == sortCalls(calls)
      withDeferred == [sorted EXCEPT ![1] = MaybePopulateCallAndReset(@, def)]
  IN removeLogBlockIndex(populateStateReverted(withDeferred))

\* Why completeTransaction panics on these calls and receipt logs, or "none".
\* Calls[0] is read before anything else, so no call at all is an index
\* out of range; without a receipt, call logs are a mismatch.
completionFault(calls, receiptLogs, receipt) ==
  IF calls = << >> THEN "no root call"
  ELSE IF \E i \in 1..Len(calls) : calls[i].parent > Len(calls) THEN "parent out of range"
  ELSE LET cl == callLogs(completedCalls(calls, deferred)) IN
       IF receipt = "nil" THEN IF cl = << >> THEN "none" ELSE "call logs without a receipt"
       ELSE IF Len(cl) # Len(receiptLogs) THEN "log count mismatch"
       ELSE IF \E i \in 1..Len(cl) : cl[i].blockIndex # receiptLogs[i].blockIndex
            THEN "log mismatch"
            ELSE "none"

\* assignOrdinalAndIndexToReceiptLogs: the receipt logs take index and
\* ordinal from the matching call log.
receiptWithOrdinals(calls, receiptLogs) ==
  LET cl == callLogs(calls) IN
  [i \in 1..Len(receiptLogs) |->
     [receiptLogs[i] EXCEPT !.index = cl[i].index, !.ordinal = cl[i].ordinal]]

-----------------------------------------------------------------------------
Init ==
  /\ chainInit = FALSE /\ block = Nil /\ ordinal = 0 /\ trx = Nil /\ logIndex = 0
  /\ stack = << >> /\ stackIndex = 0 /\ depth = 0 /\ deferred = {} /\ suicided = FALSE
  /\ emitted = Nil /\ panicked = "none"
  /\ stage = "boot" /\ frames = << >> /\ stateLogs = 0 /\ sdPending = FALSE
  /\ halting = FALSE /\ inSystemCall = FALSE /\ sysCall = FALSE
  /\ backwardCompat \in CompatModes

(* The driver's bound: a step handing out k ordinals leaves room for the   *)
(* ordinals the open calls and the transaction still need to close.       *)
reserve ==
  (IF stage = "pre" THEN 2 ELSE 0) + Len(frames)
  + (IF stage \in {"pre", "call", "post"} THEN 1 ELSE 0)
Fits(k) == ordinal + k + reserve <= MaxOrdinal

\* Tracer hooks run only while the tracer has not panicked.
Alive == panicked = "none"

-----------------------------------------------------------------------------
(* Block lifecycle.                                                        *)

\* Once, at node start, before any block; geth may then trace its genesis.
OnBlockchainInit ==
  /\ Alive /\ stage = "boot" /\ stage' = IF GethHooks THEN "genesis" ELSE "idle"
  /\ IF chainInit THEN Crash("OnBlockchainInit called twice")
     ELSE chainInit' = TRUE /\ UNCHANGED <<block, ordinal, trx, logIndex, stack, stackIndex,
                                          depth, deferred, suicided, emitted, panicked, inSystemCall>>
  /\ UNCHANGED <<frames, stateLogs, sdPending, halting, sysCall>>

\* OnCosmosBlockStart: a new block trace; no check that the previous block
\* ended.  The block state (ordinal included) was reset by the last block end.
OnCosmosBlockStart ==
  /\ Alive
  /\ IF ~ensureBlockChainInit THEN Crash("blockchain not initialised")
     ELSE block' = NewBlock /\ emitted' = Nil
          /\ UNCHANGED <<chainInit, ordinal, trx, logIndex, stack, stackIndex,
                         depth, deferred, suicided, panicked, inSystemCall>>

\* OnCosmosBlockEnd(err = nil): f.block is dereferenced first, then the
\* block is printed and block and transaction state reset.
OnCosmosBlockEnd ==
  /\ Alive
  /\ IF block = Nil THEN Crash("nil block dereference")
     ELSE IF ~ensureInBlockAndNotInTrx THEN Crash("block end inside a transaction")
     ELSE /\ emitted' = block
          /\ resetBlock
          /\ ResetTransaction
          /\ UNCHANGED <<chainInit, panicked>>

(* Keeper.BeginBlock / EndBlock (x/evm/keeper/abci.go), one pair per block *)
(* of FinalizeBlock, each calling its hook when the context carries the   *)
(* tracer.  An EVMBlockConfig error makes BeginBlock return before the    *)
(* hook; it fails FinalizeBlock, which halts the node, so EndBlock never   *)
(* follows it.                                                            *)
BeginBlock ==
  /\ ~GethHooks /\ stage = "idle" /\ stage' = "block"
  /\ OnCosmosBlockStart
  /\ UNCHANGED <<frames, stateLogs, sdPending, halting, sysCall>>

EndBlock ==
  /\ ~GethHooks /\ stage = "block" /\ stage' = "idle"
  /\ OnCosmosBlockEnd
  /\ UNCHANGED <<frames, stateLogs, sdPending, halting, sysCall>>

(* go-ethereum's block hooks.  Geth calls OnBlockStart, then OnBlockEnd    *)
(* (deferred) with the error that failed the block, if any.  OnTxEnd and   *)
(* OnSystemCallEnd are deferred too, so the error reaches the tracer       *)
(* between transactions.                                                   *)

\* OnBlockStart does for a geth block what OnCosmosBlockStart does for a
\* Cosmos header; it may follow the genesis or any block end.
OnBlockStart ==
  /\ GethHooks /\ stage \in {"genesis", "idle"} /\ stage' = "block"
  /\ OnCosmosBlockStart
  /\ UNCHANGED <<frames, stateLogs, sdPending, halting, sysCall>>

\* Defect variant: a failed block resets only the transaction state.
OnBlockEndFailedKeepsOrdinal(err) ==
  /\ Alive /\ GethHooks /\ stage = "block" /\ stage' = "idle"
  /\ IF err = "none"
     THEN IF ~ensureInBlockAndNotInTrx THEN Crash("block end inside a transaction")
          ELSE emitted' = block /\ resetBlock /\ ResetTransaction /\ UNCHANGED <<chainInit, panicked>>
     ELSE IF ~ensureInBlock THEN Crash("failed block end outside a block")
          ELSE block' = Nil /\ ResetTransaction /\ UNCHANGED <<chainInit, ordinal, emitted, panicked>>
  /\ UNCHANGED <<frames, stateLogs, sdPending, halting, sysCall>>

\* OnBlockEnd(err): without error the block must be outside a transaction
\* and is printed; with one only the block is checked and nothing is
\* printed.  Both reset the block (ordinal included) and the transaction.
OnBlockEnd(err) ==
  /\ Alive /\ GethHooks /\ stage = "block" /\ stage' = "idle"
  /\ IF err = "none"
     THEN IF ~ensureInBlockAndNotInTrx THEN Crash("block end inside a transaction")
          ELSE emitted' = block /\ resetBlock /\ ResetTransaction /\ UNCHANGED <<chainInit, panicked>>
     ELSE IF ~ensureInBlock THEN Crash("failed block end outside a block")
          ELSE resetBlock /\ ResetTransaction /\ UNCHANGED <<chainInit, emitted, panicked>>
  /\ UNCHANGED <<frames, stateLogs, sdPending, halting, sysCall>>

\* OnSkippedBlock: a known block without transactions (core/blockchain
\* never skips one with transactions) is traced as OnBlockStart then
\* OnBlockEnd(nil), so an empty block is printed.
OnSkippedBlock ==
  /\ Alive /\ GethHooks /\ stage = "idle"
  /\ IF ~ensureBlockChainInit THEN Crash("blockchain not initialised")
     ELSE emitted' = NewBlock /\ resetBlock /\ ResetTransaction /\ UNCHANGED <<chainInit, panicked>>
  /\ UNCHANGED driverVars

\* Defect variant: the genesis transaction ends on its root call's ordinal.
OnGenesisBlockTxEndReused ==
  /\ Alive /\ GethHooks /\ stage = "genesis" /\ stage' = "idle"
  /\ \E n \in 0..MaxAlloc :
       LET inc == IF backwardCompat THEN 0 ELSE 1
           root == [NewCall(1, 0, 0, 2 * inc) EXCEPT !.changes = (2 + inc)..(1 + inc + n),
                                                     !.end = inc * (n + 3)]
           calls == completedCalls(<< root >>, {})
       IN IF ~ensureBlockChainInit THEN Crash("blockchain not initialised")
          ELSE /\ emitted' = [NewBlock EXCEPT !.txs = << [begin |-> 1, end |-> 1 + n + 2 * inc,
                                                           calls |-> calls, receipt |-> << >>] >>]
               /\ resetBlock /\ ResetTransaction /\ UNCHANGED <<chainInit, panicked>>
  /\ UNCHANGED <<frames, stateLogs, sdPending, halting, sysCall>>

\* OnGenesisBlock: block 0 traced in one hook as one transaction whose root
\* CALL carries one change per allocation entry (balance, code, nonce or
\* slot), then the transaction and block ends.  Under backward
\* compatibility the root call takes no ordinal in block 0 (begin and end
\* stay 0).  The testing-only IgnoreGenesisBlock option is left out.
OnGenesisBlock ==
  /\ Alive /\ GethHooks /\ stage = "genesis" /\ stage' = "idle"
  /\ \E n \in 0..MaxAlloc :
       LET inc == IF backwardCompat THEN 0 ELSE 1
           root == [NewCall(1, 0, 0, 2 * inc) EXCEPT !.changes = (2 + inc)..(1 + inc + n),
                                                     !.end = inc * (n + 3)]
           calls == completedCalls(<< root >>, {})
       IN IF ~ensureBlockChainInit THEN Crash("blockchain not initialised")
          ELSE /\ emitted' = [NewBlock EXCEPT !.txs = << [begin |-> 1, end |-> 2 + n + 2 * inc,
                                                           calls |-> calls, receipt |-> << >>] >>]
               /\ resetBlock /\ ResetTransaction /\ UNCHANGED <<chainInit, panicked>>
  /\ UNCHANGED <<frames, stateLogs, sdPending, halting, sysCall>>

-----------------------------------------------------------------------------
(* Transaction lifecycle.                                                  *)

\* onTxStart: the transaction trace takes the next ordinal as its begin.
onTxStart ==
  /\ trx' = [begin |-> nextOrdinal, calls |-> << >>]
  /\ ordinal' = nextOrdinal
  /\ UNCHANGED <<chainInit, block, logIndex, stack, stackIndex, depth,
                 deferred, suicided, emitted, panicked, inSystemCall>>

\* The driver starts a transaction only where it can finish it.
driverTxStart ==
  /\ Alive /\ stage = "block" /\ ordinal + 4 <= MaxOrdinal
  /\ stage' = "pre" /\ stateLogs' = 0
  /\ UNCHANGED <<frames, sdPending, halting, sysCall>>

\* OnCosmosTxStart (the keeper) and OnTxStart (geth) check the same state.
OnCosmosTxStart ==
  /\ ~GethHooks /\ driverTxStart
  /\ IF ~ensureInBlockAndNotInTrxAndNotInCall THEN Crash("transaction start out of place")
     ELSE onTxStart

OnTxStart ==
  /\ GethHooks /\ driverTxStart
  /\ IF ~ensureInBlockAndNotInTrxAndNotInCall THEN Crash("transaction start out of place")
     ELSE onTxStart

\* OnTxEnd(receipt, err).  The receipt is built from the StateDB's logs;
\* geth passes none ("nil") for a transaction its state transition rejects
\* (nonce, intrinsic gas, funds), which happens before the root call.
OnTxEnd(receipt) ==
  LET receiptLogs == IF receipt = "nil" THEN << >>
                     ELSE [i \in 1..stateLogs |-> [blockIndex |-> i - 1, index |-> 0, ordinal |-> 0]]
      fault == completionFault(trx.calls, receiptLogs, receipt)
      calls == completedCalls(trx.calls, deferred)
  IN
  /\ Alive /\ ~sdPending /\ ~sysCall
  /\ IF receipt = "ok" THEN stage = "post" ELSE GethHooks /\ FailingTxs /\ stage = "pre"
  /\ stage' = "block" /\ frames' = << >> /\ stateLogs' = 0
  /\ IF ~ensureInBlockAndInTrx THEN Crash("transaction end out of place")
     ELSE IF fault # "none" THEN Crash(fault)
     ELSE /\ block' = [block EXCEPT !.txs = Append(@,
                         [begin |-> trx.begin, end |-> nextOrdinal, calls |-> calls,
                          receipt |-> receiptWithOrdinals(calls, receiptLogs)])]
          /\ ordinal' = nextOrdinal
          /\ ResetTransaction
          /\ UNCHANGED <<chainInit, emitted, panicked>>
  /\ UNCHANGED <<sdPending, halting, sysCall>>

(* System calls (geth only, e.g. the beacon root contract call before the  *)
(* transactions): an empty transaction trace holds the calls, which are    *)
(* then moved to the block as they are, without completeTransaction.      *)

OnSystemCallStart ==
  /\ Alive /\ GethHooks /\ stage = "block" /\ ordinal + 4 <= MaxOrdinal
  /\ stage' = "pre" /\ sysCall' = TRUE /\ stateLogs' = 0
  /\ IF ~ensureInBlockAndNotInTrx THEN Crash("system call start out of place")
     ELSE /\ inSystemCall' = TRUE /\ trx' = [begin |-> 0, calls |-> << >>]
          /\ UNCHANGED <<chainInit, block, ordinal, logIndex, stack, stackIndex, depth,
                         deferred, suicided, emitted, panicked>>
  /\ UNCHANGED <<frames, sdPending, halting>>

\* Defect variant: the transaction state is not reset after a system call.
OnSystemCallEndKeepsTrx ==
  /\ Alive /\ sysCall /\ stage = "post"
  /\ stage' = "block" /\ sysCall' = FALSE /\ frames' = << >> /\ stateLogs' = 0
  /\ IF ~ensureInBlockAndInTrx THEN Crash("system call end outside a transaction")
     ELSE IF ~ensureInSystemCall THEN Crash("system call end outside a system call")
     ELSE /\ block' = [block EXCEPT !.sys = @ \o trx.calls]
          /\ UNCHANGED <<chainInit, ordinal, trx, logIndex, stack, stackIndex, depth,
                         deferred, suicided, emitted, panicked, inSystemCall>>
  /\ UNCHANGED <<sdPending, halting>>

OnSystemCallEnd ==
  /\ Alive /\ sysCall /\ stage = "post"
  /\ stage' = "block" /\ sysCall' = FALSE /\ frames' = << >> /\ stateLogs' = 0
  /\ IF ~ensureInBlockAndInTrx THEN Crash("system call end outside a transaction")
     ELSE IF ~ensureInSystemCall THEN Crash("system call end outside a system call")
     ELSE /\ block' = [block EXCEPT !.sys = @ \o trx.calls]
          /\ ResetTransaction
          /\ UNCHANGED <<chainInit, ordinal, emitted, panicked>>
  /\ UNCHANGED <<sdPending, halting>>

-----------------------------------------------------------------------------
(* Calls.                                                                  *)

\* callStart: the call takes the next ordinal, picks up the deferred state
\* when it is the root, and is pushed with the next index, the current
\* depth and the active call as parent.  Under backward compatibility the
\* root call's begin is assigned back to 0 after the ordinal was taken
\* (the known console reader issue), in every block.  The block-0 branch
\* that takes no ordinal is reached only from OnGenesisBlock.
callStart(source) ==
  LET call == NewCall(stackIndex + 1,
                      IF stack = << >> THEN 0 ELSE Top.index,
                      depth,
                      IF backwardCompat /\ source = "root" THEN 0 ELSE nextOrdinal)
  IN
  IF ~ensureInBlockAndInTrx THEN Crash("call start outside a transaction")
  ELSE IF deferred # {} /\ source # "root" THEN Crash("deferred state on a child call")
  ELSE /\ stack' = Append(stack, MaybePopulateCallAndReset(call, deferred))
       /\ deferred' = {}
       /\ stackIndex' = stackIndex + 1 /\ depth' = depth + 1
       /\ ordinal' = nextOrdinal
       /\ UNCHANGED <<chainInit, block, trx, logIndex, suicided, emitted, panicked, inSystemCall>>

\* computeCallSource: depth 0 is the transaction's root call.
computeCallSource(d) == IF d = 0 THEN "root" ELSE "child"

\* OnCallEnter(depth d) for CALL/CREATE/...: d = 0 is the root call, entered
\* once per transaction; the EVM takes a StateDB snapshot at entry.
OnCallEnter(d) ==
  /\ Alive /\ ~sdPending /\ ~halting /\ Fits(IF d = 0 THEN 0 ELSE 2)
  /\ IF d = 0 THEN stage = "pre" /\ stage' = "call"
     ELSE stage = "call" /\ d = Len(frames) /\ d < MaxDepth /\ stage' = stage
  /\ frames' = Append(frames, stateLogs)
  /\ callStart(computeCallSource(d))
  /\ UNCHANGED <<stateLogs, sdPending, halting, sysCall>>

\* OnCallEnter for SELFDESTRUCT: no call is pushed; the active call is
\* marked and the OnCallExit that the EVM sends right after is skipped.
\* The opcode runs at most once per frame: it stops the frame.
OnSelfDestructEnter ==
  /\ Alive /\ stage = "call" /\ ~sdPending /\ ~halting
  /\ sdPending' = TRUE
  /\ IF ~ensureInCall \/ stack = << >> THEN Crash("no active call to mark")
     ELSE /\ stack' = [stack EXCEPT ![Len(stack)].suicide = TRUE]
          /\ suicided' = TRUE
          /\ UNCHANGED <<chainInit, block, ordinal, trx, logIndex, stackIndex, depth,
                         deferred, emitted, panicked, inSystemCall>>
  /\ UNCHANGED <<stage, frames, stateLogs, halting, sysCall>>

\* Defect variant: the flag is left set, so later exits are skipped too.
skipSuicidedExitKeepsFlag(source) ==
  IF source # "child" THEN Crash("suicided call end on root")
  ELSE UNCHANGED tracerVars

\* callEnd after OnCallEnter(SELFDESTRUCT): the exit is the pseudo-call's
\* own, so it is skipped and the flag cleared; it is never the root's.
skipSuicidedExit(source) ==
  IF source # "child" THEN Crash("suicided call end on root")
  ELSE suicided' = FALSE
       /\ UNCHANGED <<chainInit, block, ordinal, trx, logIndex, stack, stackIndex,
                      depth, deferred, emitted, panicked, inSystemCall>>

\* Defect variant: the end ordinal is the current value, not a fresh one.
callEndReusesOrdinal(source, err) ==
  IF suicided THEN skipSuicidedExit(source)
  ELSE IF ~ensureInBlockAndInTrxAndInCall THEN Crash("call end outside a call")
  ELSE LET done == [Top EXCEPT !.failed = (err # "none"),
                               !.statusReverted = (err \in {"revert", "insufficientBalance"}),
                               !.end = ordinal]
       IN /\ Pop
          /\ trx' = [trx EXCEPT !.calls = Append(@, done)]
          /\ UNCHANGED <<chainInit, block, ordinal, logIndex, stackIndex, deferred, suicided,
                         emitted, panicked, inSystemCall>>

\* callEnd: skipped after a SELFDESTRUCT enter; otherwise the active call is
\* popped, its status set from the error, given the next ordinal as end and
\* appended to the transaction's calls (in exit order).
callEnd(source, err) ==
  IF suicided THEN skipSuicidedExit(source)
  ELSE IF ~ensureInBlockAndInTrxAndInCall THEN Crash("call end outside a call")
  ELSE LET done == [Top EXCEPT !.failed = (err # "none"),
                               !.statusReverted = (err \in {"revert", "insufficientBalance"}),
                               !.end = nextOrdinal]
       IN /\ Pop
          /\ trx' = [trx EXCEPT !.calls = Append(@, done)]
          /\ ordinal' = nextOrdinal
          /\ UNCHANGED <<chainInit, block, logIndex, stackIndex, deferred, suicided,
                         emitted, panicked, inSystemCall>>

\* The EVM's OnExit for the SELFDESTRUCT pseudo-call; the frame that ran
\* it stops (errStopToken) and exits without error next.
OnSelfDestructExit ==
  /\ Alive /\ sdPending /\ sdPending' = FALSE /\ halting' = TRUE
  /\ callEnd("child", "none")
  /\ UNCHANGED <<stage, frames, stateLogs, sysCall>>

\* OnCallExit(depth, err): a failed call has had its StateDB changes, logs
\* included, reverted to the snapshot taken at its entry.
OnCallExit(err) ==
  /\ Alive /\ stage = "call" /\ ~sdPending /\ frames # << >>
  /\ halting => err = "none"
  /\ halting' = FALSE
  /\ frames' = Front(frames)
  /\ stateLogs' = IF err = "none" THEN stateLogs ELSE Last(frames)
  /\ stage' = IF Len(frames) = 1 THEN "post" ELSE "call"
  /\ callEnd(computeCallSource(Len(frames) - 1), err)
  /\ UNCHANGED <<sdPending, sysCall>>

-----------------------------------------------------------------------------
(* State changes and logs.  The EVM reports balance, gas and nonce changes *)
(* before the root call (gas purchase, nonce increment), inside calls, and *)
(* after the root call (refunds); code, storage and logs only inside.      *)

\* A change the driver may report now.
MayReport(k, inCallOnly) ==
  /\ Alive /\ ~sdPending /\ ~halting /\ Fits(k)
  /\ stage \in (IF inCallOnly \/ sysCall THEN {"call"} ELSE {"pre", "call", "post"})

\* A change inside a transaction: on the active call, or deferred until the
\* root call (pre-call) or the transaction end (post-call) takes it.
recordInTrx ==
  /\ IF stack = << >>
     THEN deferred' = deferred \cup {nextOrdinal} /\ UNCHANGED stack
     ELSE AddToTop("changes", nextOrdinal) /\ UNCHANGED deferred
  /\ ordinal' = nextOrdinal
  /\ UNCHANGED <<chainInit, block, trx, logIndex, stackIndex, depth, suicided,
                 emitted, panicked, inSystemCall>>

\* A change outside any transaction goes to the block.
recordInBlock ==
  /\ block' = [block EXCEPT !.changes = @ \cup {nextOrdinal}]
  /\ ordinal' = nextOrdinal
  /\ UNCHANGED <<chainInit, trx, logIndex, stack, stackIndex, depth, deferred,
                 suicided, emitted, panicked, inSystemCall>>

\* OnBalanceChange (reasons the tracer ignores change nothing and are left out).
OnBalanceChange ==
  /\ MayReport(1, FALSE)
  /\ IF ~ensureInBlockOrTrx THEN Crash("balance change outside a block")
     ELSE IF trx # Nil THEN recordInTrx ELSE recordInBlock
  /\ UNCHANGED driverVars

\* OnGasChange (old = new and ignored reasons change nothing and are left out).
OnGasChange ==
  /\ MayReport(1, FALSE)
  /\ IF ~ensureInBlockAndInTrx THEN Crash("gas change outside a transaction")
     ELSE recordInTrx
  /\ UNCHANGED driverVars

OnNonceChange ==
  /\ MayReport(1, FALSE)
  /\ IF ~ensureInBlockAndInTrx THEN Crash("nonce change outside a transaction")
     ELSE recordInTrx
  /\ UNCHANGED driverVars

\* OnCodeChange: inside a transaction there must be an active call.
OnCodeChange ==
  /\ MayReport(1, TRUE)
  /\ IF ~ensureInBlockOrTrx THEN Crash("code change outside a block")
     ELSE IF trx = Nil THEN recordInBlock
     ELSE IF stack = << >> THEN Crash("code change outside a call")
     ELSE recordInTrx
  /\ UNCHANGED driverVars

OnStorageChange ==
  /\ MayReport(1, TRUE)
  /\ IF ~ensureInBlockAndInTrxAndInCall THEN Crash("storage change outside a call")
     ELSE recordInTrx
  /\ UNCHANGED driverVars

\* StateDB.AddLog -> OnLog: the log keeps the StateDB's index as its block
\* index, the transaction log counter as its index, and the next ordinal.
OnLog ==
  /\ MayReport(1, TRUE)
  /\ stateLogs' = stateLogs + 1
  /\ IF ~ensureInBlockAndInTrxAndInCall THEN Crash("log outside a call")
     ELSE /\ AddToTop("logs", [index |-> logIndex, blockIndex |-> stateLogs, ordinal |-> nextOrdinal])
          /\ logIndex' = logIndex + 1
          /\ ordinal' = nextOrdinal
          /\ UNCHANGED <<chainInit, block, trx, stackIndex, depth, deferred, suicided,
                         emitted, panicked, inSystemCall>>
  /\ UNCHANGED <<stage, frames, sdPending, halting, sysCall>>

\* OnOpcode for an opcode that succeeded with a positive cost and has a gas
\* change reason (CALL, CREATE, LOG, SELFDESTRUCT, ...): the active call
\* records a gas change with the next ordinal.  No ensure* check runs, and
\* without an active call nothing happens.  Other opcodes, OnOpcodeFault and
\* keccak preimages only set data (ExecutedCode, preimages), left out here.
OnOpcode ==
  /\ MayReport(1, TRUE)
  /\ IF stack = << >> THEN UNCHANGED tracerVars
     ELSE /\ AddToTop("changes", nextOrdinal)
          /\ ordinal' = nextOrdinal
          /\ UNCHANGED <<chainInit, block, trx, logIndex, stackIndex, depth, deferred,
                         suicided, emitted, panicked, inSystemCall>>
  /\ UNCHANGED driverVars

-----------------------------------------------------------------------------
\* Every hook; the configuration chosen at construction never changes.
Next ==
  /\ UNCHANGED backwardCompat
  /\ \/ OnBlockchainInit \/ BeginBlock \/ EndBlock
     \/ OnGenesisBlock \/ OnBlockStart \/ \E err \in {"none", "failed"} : OnBlockEnd(err)
     \/ OnSkippedBlock \/ OnSystemCallStart \/ OnSystemCallEnd
     \/ OnCosmosTxStart \/ OnTxStart \/ \E r \in {"ok", "nil"} : OnTxEnd(r)
     \/ \E d \in 0..(MaxDepth - 1) : OnCallEnter(d)
     \/ \E err \in CallErrors : OnCallExit(err)
     \/ OnSelfDestructEnter \/ OnSelfDestructExit
     \/ OnBalanceChange \/ OnGasChange \/ OnNonceChange \/ OnCodeChange \/ OnStorageChange
     \/ OnLog \/ OnOpcode

Spec == Init /\ [][Next]_vars

(* Fairness the callers guarantee: FinalizeBlock runs EndBlock after every *)
(* BeginBlock, the keeper's message call always enters the root frame and  *)
(* ends every transaction it starts, and the EVM exits every frame it      *)
(* enters (its OnExit is deferred).  Starting blocks and transactions and  *)
(* reporting changes are never forced.                                     *)
Fairness ==
  /\ WF_vars(EndBlock /\ UNCHANGED backwardCompat)
  /\ WF_vars(OnTxEnd("ok") /\ UNCHANGED backwardCompat)
  /\ WF_vars(OnCallEnter(0) /\ UNCHANGED backwardCompat)
  /\ WF_vars(\E err \in CallErrors : OnCallExit(err) /\ UNCHANGED backwardCompat)
  /\ WF_vars(OnSelfDestructExit /\ UNCHANGED backwardCompat)

FairSpec == Spec /\ Fairness

-----------------------------------------------------------------------------
(* Properties.                                                             *)

Ord == 0..MaxOrdinal
CallRec == [index : 1..MaxOrdinal, parent : 0..MaxOrdinal, depth : 0..MaxDepth,
            begin : Ord, end : Ord, failed : BOOLEAN, statusReverted : BOOLEAN,
            stateReverted : BOOLEAN, suicide : BOOLEAN, changes : SUBSET Ord,
            logs : Seq([index : Ord, blockIndex : Ord, ordinal : Ord])]

TypeOK ==
  /\ ordinal \in Ord /\ stackIndex \in Ord /\ depth \in 0..MaxDepth
  /\ stack \in Seq(CallRec) /\ deferred \subseteq Ord
  /\ trx \in {Nil} \cup [begin : Ord, calls : Seq(CallRec)]
  /\ stage \in {"boot", "genesis", "idle", "block", "pre", "call", "post"}
  /\ frames \in Seq(Ord) /\ Len(frames) <= MaxDepth
  /\ chainInit \in BOOLEAN /\ suicided \in BOOLEAN /\ sdPending \in BOOLEAN
  /\ halting \in BOOLEAN /\ inSystemCall \in BOOLEAN /\ sysCall \in BOOLEAN
  /\ backwardCompat \in CompatModes

(* No panic: driven by an EVM that keeps its callback protocol, the tracer *)
(* never panics.  Its main content is completeTransaction's check that the *)
(* logs of the calls it considers not reverted (populateStateReverted) are *)
(* exactly the receipt's logs, which the StateDB's own reverts decide.     *)
TracerNeverPanics == panicked = "none"

Blocks == {b \in {block, emitted} : b # Nil}

\* The position of the call with a given index.
posOf(calls, x) == CHOOSE j \in 1..Len(calls) : calls[j].index = x

\* Reference: a call's state is reverted when it or any ancestor failed.
RECURSIVE failedInChain(_, _)
failedInChain(calls, i) ==
  \/ calls[i].failed
  \/ /\ calls[i].parent # 0
     /\ failedInChain(calls, posOf(calls, calls[i].parent))

(* populateStateReverted is exact: in every traced transaction a call is   *)
(* marked StateReverted iff it or one of its ancestors failed.  It relies *)
(* on the sort by index putting every parent before its children, though  *)
(* calls are appended to the transaction in exit order (children first).  *)
StateRevertedExact ==
  \A b \in Blocks : \A t \in ToSet(b.txs) : \A i \in 1..Len(t.calls) :
    t.calls[i].stateReverted <=> failedInChain(t.calls, i)

\* The ordinals a traced call, transaction or block carries, and how many
\* elements carry one (changes are a set, so they count once each).
callOrdSet(c) == {c.begin, c.end} \cup c.changes \cup {c.logs[k].ordinal : k \in DOMAIN c.logs}
callOrdCount(c) == 2 + Cardinality(c.changes) + Len(c.logs)
txOrdSet(t) == {t.begin, t.end} \cup UNION {callOrdSet(t.calls[j]) : j \in DOMAIN t.calls}
txOrdCount(t) == 2 + FoldLeft(LAMBDA n, c : n + callOrdCount(c), 0, t.calls)
blockOrdSet(b) == b.changes \cup UNION {txOrdSet(b.txs[i]) : i \in DOMAIN b.txs}
                            \cup UNION {callOrdSet(b.sys[i]) : i \in DOMAIN b.sys}
blockOrdCount(b) == Cardinality(b.changes) + FoldLeft(LAMBDA n, t : n + txOrdCount(t), 0, b.txs)
                    + FoldLeft(LAMBDA n, c : n + callOrdCount(c), 0, b.sys)

\* The calls of a block, system calls included; the begin and end
\* ordinals among them that are the legacy 0; and the root calls whose
\* begin was set back to 0 after taking an ordinal (their end is not 0).
blockCalls(b) == FoldLeft(LAMBDA acc, t : acc \o t.calls, << >>, b.txs) \o b.sys
legacyZeros(b) ==
  FoldLeft(LAMBDA n, c : n + Cardinality({f \in {"begin", "end"} : c[f] = 0}), 0, blockCalls(b))
droppedBegins(b) ==
  FoldLeft(LAMBDA n, c : n + (IF c.begin = 0 /\ c.end # 0 THEN 1 ELSE 0), 0, blockCalls(b))

(* Ordinals are exact: the ordinals of a printed block are distinct and   *)
(* start at 1 again in every block, after a failed one too, and the only  *)
(* ordinals the block ordinal handed out that no element carries are the  *)
(* begins of root calls that backward compatibility assigns back to 0     *)
(* (callStart); the genesis root under it keeps begin and end 0 without   *)
(* taking any.  Without backward compatibility every ordinal handed out   *)
(* is carried by exactly one element, system calls included.  A change    *)
(* deferred before or after the root call that is never flushed, system   *)
(* calls dropped, an ordinal taken twice or not reset, breaks it.         *)
OrdinalsExact ==
  emitted # Nil =>
    LET carried == blockOrdCount(emitted) - legacyZeros(emitted)
        ords == blockOrdSet(emitted) \ {0}
    IN /\ Cardinality(ords) = carried
       /\ ords \subseteq 1..(carried + droppedBegins(emitted))
       /\ legacyZeros(emitted) > 0 => backwardCompat

(* Call intervals nest: every traced call begins after its transaction and *)
(* its parent and ends before them, and the changes and logs of a call    *)
(* other than the root (which also takes the deferred ones) lie within its *)
(* own interval.  This is what lets a consumer rebuild the execution order *)
(* from ordinals alone.  A root call that backward compatibility leaves  *)
(* at begin 0 is the known exception.                                     *)
CallIntervalsNested ==
  \A b \in Blocks : \A t \in ToSet(b.txs) : \A i \in 1..Len(t.calls) :
    LET c == t.calls[i] IN
    ~(backwardCompat /\ c.begin = 0) =>
      /\ t.begin < c.begin /\ c.begin < c.end /\ c.end < t.end
      /\ c.parent # 0 =>
           LET p == t.calls[posOf(t.calls, c.parent)] IN
           /\ p.begin < c.begin /\ c.end < p.end
           /\ \A o \in callOrdSet(c) \ {c.begin, c.end} : c.begin < o /\ o < c.end
      /\ \A o \in callOrdSet(c) : t.begin < o /\ o < t.end

(* Every transaction the keeper starts is eventually printed: the block    *)
(* that ends after it carries a trace beginning at that transaction's     *)
(* ordinal.  A tracer panic, an exit the SELFDESTRUCT flag swallows, or a  *)
(* trace dropped at OnTxEnd leaves it unprinted forever.                   *)
TxEventuallyPrinted ==
  \A o \in 1..MaxOrdinal :
    (trx # Nil /\ trx.begin = o) ~> (emitted # Nil /\ \E t \in ToSet(emitted.txs) : t.begin = o)

=============================================================================
