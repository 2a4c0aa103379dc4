------------------------------- MODULE StateDB -------------------------------
(***************************************************************************)
(* The journaled account/storage cache between the EVM and the x/evm      *)
(* keeper: State Objects (x/evm/statedb/state_object.go), the journal and  *)
(* its snapshot/revert protocol, the StateDB orchestrator (Commit, access  *)
(* list, refund, logs, native actions) and the keeper writes Commit makes  *)
(* (x/evm/keeper/statedb.go).  The journal and the orchestrator are not in *)
(* this source tree; they are modelled from spec.md sections 4.2-4.4.      *)
(*                                                                         *)
(* Data is abstracted: a code blob stands for its own hash, a storage      *)
(* value is 0..MaxVal with 0 the empty hash, a balance is 0..MaxBalance.   *)
(***************************************************************************)
EXTENDS Naturals, Sequences, SequencesExt

CONSTANTS
  Addrs,          \* account addresses
  Keys,           \* storage slots
  MaxVal,         \* storage values are 0..MaxVal; 0 is common.Hash{}
  Codes,          \* contract codes (a code stands for its hash)
  EmptyCode,      \* types.EmptyCodeHash, member of Codes
  MaxNonce, MaxBalance, MaxRefund,
  MaxJournal,     \* bound: journal length
  MaxSnapshots,   \* bound: snapshots taken by one StateDB
  MaxUnits,       \* bound: units of execution (StateDBs) run one after another
  NoAccount, Nil, Unset, NoOverride,   \* distinct model values
  OverridesAtStartOnly, \* callers install storage overrides before executing
  InitAccounts,   \* the keeper's account records when the model starts
  InitStorage,    \* the keeper's contract storage when the model starts
  NonEth          \* addresses whose auth account is not an EthAccount
                  \* (module or vesting accounts): no code hash is kept

Vals == 0..MaxVal
Account == [nonce : 0..MaxNonce, codeHash : Codes]

\* A store the program can start from: storage only under an account.
ASSUME /\ InitAccounts \in [Addrs -> {NoAccount} \cup Account]
       /\ InitStorage \in [Addrs -> [Keys -> Vals]]
       /\ \A a \in Addrs : InitAccounts[a] = NoAccount => \A k \in Keys : InitStorage[a][k] = 0
\* A non-Ethereum account exists and reads as having no code (GetAccount).
ASSUME \A a \in NonEth : InitAccounts[a] # NoAccount /\ InitAccounts[a].codeHash = EmptyCode

VARIABLES
  \* --- the keeper's persistent store ---
  kAccount,       \* auth account record (nonce, code hash) or NoAccount
  kStorage,       \* contract storage; 0 means the key is absent
  kCode,          \* code blobs stored by hash
  kBalance,       \* bank balances
  kNative,        \* a key of another module written by native actions
  \* --- the StateDB of the current unit of execution ---
  objs,           \* stateObjects: address -> stateObject or Nil
  balance,        \* bank balances as seen through the cache context
  native,         \* the native key as seen through the cache context
  refund, logs, alAddrs, alSlots,
  journal, validRevisions, nextRevisionID,
  phase,          \* "exec" until Commit, then "committed" or "failed"
  units           \* StateDBs started so far (bounded by MaxUnits)

storeVars == <<kAccount, kStorage, kCode, kBalance, kNative>>
dbVars == <<objs, balance, native, refund, logs, alAddrs, alSlots,
            journal, validRevisions, nextRevisionID, phase>>
vars == <<storeVars, dbVars, units>>

-----------------------------------------------------------------------------
(* stateObject helpers (state_object.go).                                  *)

newObject(acct) ==
  [orig |-> acct,
   nonce |-> IF acct = NoAccount THEN 0 ELSE acct.nonce,
   codeHash |-> IF acct = NoAccount THEN EmptyCode ELSE acct.codeHash,
   originStorage |-> [k \in Keys |-> Unset],
   dirtyStorage |-> [k \in Keys |-> Unset],
   overrideStorage |-> NoOverride,
   selfDestructed |-> FALSE,
   newContract |-> FALSE]

codeDirty(o) == o.orig = NoAccount \/ o.codeHash # o.orig.codeHash
nonceDirty(o) == o.orig = NoAccount \/ o.nonce # o.orig.nonce

GetCommittedState(o, a, k) ==
  IF o.overrideStorage # NoOverride THEN o.overrideStorage[k]
  ELSE IF o.originStorage[k] # Unset THEN o.originStorage[k]
  ELSE kStorage[a][k]

GetState(o, a, k) ==
  IF o.dirtyStorage[k] # Unset THEN o.dirtyStorage[k] ELSE GetCommittedState(o, a, k)

\* The read-through fill GetState performs on a miss of both caches.
fillOrigin(o, a, k) ==
  IF o.dirtyStorage[k] = Unset /\ o.overrideStorage = NoOverride
     /\ o.originStorage[k] = Unset
  THEN [o EXCEPT !.originStorage[k] = kStorage[a][k]]
  ELSE o

-----------------------------------------------------------------------------
(* StateDB helpers (spec-modelled).                                        *)

\* getStateObject: the live object, else one loaded from the keeper, else Nil.
getStateObject(a) ==
  IF objs[a] # Nil THEN objs[a]
  ELSE IF kAccount[a] # NoAccount THEN newObject(kAccount[a]) ELSE Nil

\* getOrNewStateObject: a missing account is created with a journal entry.
getOrNew(a) == IF getStateObject(a) = Nil THEN newObject(NoAccount) ELSE getStateObject(a)
createdEntries(a) ==
  IF getStateObject(a) = Nil THEN << [type |-> "create", addr |-> a] >> ELSE << >>

\* journal.append, bounded by MaxJournal.
appendJournal(entries) ==
  /\ Len(journal) + Len(entries) <= MaxJournal
  /\ journal' = journal \o entries

\* The mutable part of the cache that journal entries undo.
Cache == [objs |-> objs, balance |-> balance, native |-> native, refund |-> refund,
          logs |-> logs, alAddrs |-> alAddrs, alSlots |-> alSlots]

\* One journal entry's revert(): the tagged-union undo dispatcher.
undo(e, c) ==
  CASE e.type = "create"         -> [c EXCEPT !.objs[e.addr] = Nil]
    [] e.type = "reset"          -> [c EXCEPT !.objs[e.addr] = e.prev]
    [] e.type = "nonce"          -> [c EXCEPT !.objs[e.addr].nonce = e.prev]
    [] e.type = "code"           -> [c EXCEPT !.objs[e.addr].codeHash = e.prev]
    [] e.type = "storage"        -> [c EXCEPT !.objs[e.addr].dirtyStorage[e.key] = e.prev]
    [] e.type = "selfDestruct"   -> [c EXCEPT !.objs[e.addr].selfDestructed = e.prev]
    [] e.type = "createContract" -> [c EXCEPT !.objs[e.addr].newContract = FALSE]
    [] e.type = "balance"        -> [c EXCEPT !.balance[e.addr] = e.prev]
    [] e.type = "refund"         -> [c EXCEPT !.refund = e.prev]
    [] e.type = "addLog"         -> [c EXCEPT !.logs = Front(c.logs)]
    [] e.type = "accessAddr"     -> [c EXCEPT !.alAddrs = @ \ {e.addr}]
    [] e.type = "accessSlot"     -> [c EXCEPT !.alSlots = @ \ {<<e.addr, e.key>>}]
    [] e.type = "native"         -> [c EXCEPT !.native = e.prev]

\* journal.Revert: undo entries Len(j) down to n+1, latest first.
revertJournal(c, j, n) ==
  FoldRight(undo, SubSeq(j, n + 1, Len(j)), c)

setCache(c) ==
  /\ objs' = c.objs /\ balance' = c.balance /\ native' = c.native
  /\ refund' = c.refund /\ logs' = c.logs /\ alAddrs' = c.alAddrs /\ alSlots' = c.alSlots

-----------------------------------------------------------------------------
Init ==
  /\ kAccount = InitAccounts
  /\ kStorage = InitStorage
  /\ kCode = {kAccount[a].codeHash : a \in {b \in Addrs : kAccount[b] # NoAccount}} \ {EmptyCode}
  /\ kBalance \in [Addrs -> 0..MaxBalance]
  /\ kNative = 0
  /\ objs = [a \in Addrs |-> Nil]
  /\ balance = kBalance
  /\ native = kNative
  /\ refund = 0 /\ logs = << >> /\ alAddrs = {} /\ alSlots = {}
  /\ journal = << >> /\ validRevisions = << >> /\ nextRevisionID = 0
  /\ phase = "exec"
  /\ units = 1

-----------------------------------------------------------------------------
(* Reads that only fill caches.                                            *)

\* Exist/GetNonce/...: getStateObject loads the account into stateObjects.
LoadAccount(a) ==
  /\ phase = "exec"
  /\ objs[a] = Nil /\ kAccount[a] # NoAccount
  /\ objs' = [objs EXCEPT ![a] = newObject(kAccount[a])]
  /\ UNCHANGED <<storeVars, balance, native, refund, logs, alAddrs, alSlots,
                 journal, validRevisions, nextRevisionID, phase>>

\* GetState/GetCommittedState on a cache miss reads the keeper and caches it.
LoadState(a, k) ==
  /\ phase = "exec"
  /\ objs[a] # Nil
  /\ fillOrigin(objs[a], a, k) # objs[a]
  /\ objs' = [objs EXCEPT ![a] = fillOrigin(objs[a], a, k)]
  /\ UNCHANGED <<storeVars, balance, native, refund, logs, alAddrs, alSlots,
                 journal, validRevisions, nextRevisionID, phase>>

(* Account and storage writes.                                             *)

SetNonce(a, n) ==
  LET o == getOrNew(a) IN
  /\ phase = "exec"
  /\ appendJournal(createdEntries(a) \o << [type |-> "nonce", addr |-> a, prev |-> o.nonce] >>)
  /\ objs' = [objs EXCEPT ![a] = [o EXCEPT !.nonce = n]]
  /\ UNCHANGED <<storeVars, balance, native, refund, logs, alAddrs, alSlots,
                 validRevisions, nextRevisionID, phase>>

SetCode(a, c) ==
  LET o == getOrNew(a) IN
  /\ phase = "exec"
  /\ appendJournal(createdEntries(a) \o << [type |-> "code", addr |-> a, prev |-> o.codeHash] >>)
  /\ objs' = [objs EXCEPT ![a] = [o EXCEPT !.codeHash = c]]
  /\ UNCHANGED <<storeVars, balance, native, refund, logs, alAddrs, alSlots,
                 validRevisions, nextRevisionID, phase>>

\* Defect variant: the entry records the committed value, not the dirty one.
SetStatePrevCommitted(a, k, v) ==
  LET o    == getOrNew(a)
      prev == GetCommittedState(o, a, k)
      o1   == fillOrigin(o, a, k)
  IN
  /\ phase = "exec"
  /\ appendJournal(createdEntries(a) \o
       (IF GetState(o, a, k) = v THEN << >> ELSE << [type |-> "storage", addr |-> a, key |-> k, prev |-> prev] >>))
  /\ objs' = [objs EXCEPT ![a] = IF GetState(o, a, k) = v THEN o1 ELSE [o1 EXCEPT !.dirtyStorage[k] = v]]
  /\ UNCHANGED <<storeVars, balance, native, refund, logs, alAddrs, alSlots,
                 validRevisions, nextRevisionID, phase>>

\* SetState: unchanged value is not journaled; the read still fills caches.
SetState(a, k, v) ==
  LET o    == getOrNew(a)
      prev == GetState(o, a, k)
      o1   == fillOrigin(o, a, k)
  IN
  /\ phase = "exec"
  /\ appendJournal(createdEntries(a) \o
       (IF prev = v THEN << >> ELSE << [type |-> "storage", addr |-> a, key |-> k, prev |-> prev] >>))
  /\ objs' = [objs EXCEPT ![a] = IF prev = v THEN o1 ELSE [o1 EXCEPT !.dirtyStorage[k] = v]]
  /\ UNCHANGED <<storeVars, balance, native, refund, logs, alAddrs, alSlots,
                 validRevisions, nextRevisionID, phase>>

\* SetStorage: installs a full override and drops both caches, unjournaled.
\* Callers (state overrides of eth_call) do it before any other operation.
SetStorage(a, st) ==
  /\ phase = "exec"
  /\ OverridesAtStartOnly => journal = << >> /\ validRevisions = << >>
  /\ appendJournal(createdEntries(a))
  /\ objs' = [objs EXCEPT ![a] = [getOrNew(a) EXCEPT !.overrideStorage = st,
                                   !.originStorage = [k \in Keys |-> Unset],
                                   !.dirtyStorage = [k \in Keys |-> Unset]]]
  /\ UNCHANGED <<storeVars, balance, native, refund, logs, alAddrs, alSlots,
                 validRevisions, nextRevisionID, phase>>

\* CreateAccount: a fresh object replaces any previous one; balance is kept.
CreateAccount(a) ==
  LET prev == getStateObject(a) IN
  /\ phase = "exec"
  /\ appendJournal(IF prev = Nil THEN << [type |-> "create", addr |-> a] >>
                   ELSE << [type |-> "reset", addr |-> a, prev |-> prev] >>)
  /\ objs' = [objs EXCEPT ![a] = newObject(NoAccount)]
  /\ UNCHANGED <<storeVars, balance, native, refund, logs, alAddrs, alSlots,
                 validRevisions, nextRevisionID, phase>>

\* CreateContract: marks the object as created in this transaction (EIP-6780).
CreateContract(a) ==
  /\ phase = "exec"
  /\ objs[a] # Nil /\ ~objs[a].newContract
  /\ appendJournal(<< [type |-> "createContract", addr |-> a] >>)
  /\ objs' = [objs EXCEPT ![a].newContract = TRUE]
  /\ UNCHANGED <<storeVars, balance, native, refund, logs, alAddrs, alSlots,
                 validRevisions, nextRevisionID, phase>>

\* stateObject.markSelfDestructed.
markSelfDestructed(o) == [o EXCEPT !.selfDestructed = TRUE]

\* SelfDestruct of an existing account: mark it and burn its balance.
\* With eip6780, only an object created in this transaction is destructed.
SelfDestruct(a, eip6780) ==
  LET o == getStateObject(a) IN
  /\ phase = "exec"
  /\ o # Nil
  /\ eip6780 => o.newContract
  /\ appendJournal(<< [type |-> "selfDestruct", addr |-> a, prev |-> o.selfDestructed] >> \o
                   (IF balance[a] > 0 THEN << [type |-> "balance", addr |-> a, prev |-> balance[a]] >>
                    ELSE << >>))
  /\ objs' = [objs EXCEPT ![a] = markSelfDestructed(o)]
  /\ balance' = [balance EXCEPT ![a] = 0]
  /\ UNCHANGED <<storeVars, native, refund, logs, alAddrs, alSlots,
                 validRevisions, nextRevisionID, phase>>

(* Balances live in the bank module, reached through the cache context.    *)

AddBalance(a, amt) ==
  /\ phase = "exec"
  /\ balance[a] + amt <= MaxBalance
  /\ appendJournal(<< [type |-> "balance", addr |-> a, prev |-> balance[a]] >>)
  /\ balance' = [balance EXCEPT ![a] = @ + amt]
  /\ UNCHANGED <<storeVars, objs, native, refund, logs, alAddrs, alSlots,
                 validRevisions, nextRevisionID, phase>>

\* A subtraction below zero is an error to the caller and changes nothing.
SubBalance(a, amt) ==
  /\ phase = "exec"
  /\ amt <= balance[a]
  /\ appendJournal(<< [type |-> "balance", addr |-> a, prev |-> balance[a]] >>)
  /\ balance' = [balance EXCEPT ![a] = @ - amt]
  /\ UNCHANGED <<storeVars, objs, native, refund, logs, alAddrs, alSlots,
                 validRevisions, nextRevisionID, phase>>

(* Refund counter, logs and access list.                                   *)

AddRefund(g) ==
  /\ phase = "exec"
  /\ refund + g <= MaxRefund
  /\ appendJournal(<< [type |-> "refund", prev |-> refund] >>)
  /\ refund' = refund + g
  /\ UNCHANGED <<storeVars, objs, balance, native, logs, alAddrs, alSlots,
                 validRevisions, nextRevisionID, phase>>

\* Defect variant: SubRefund without the underflow panic.
SubRefundUnchecked(g) ==
  /\ phase = "exec"
  /\ appendJournal(<< [type |-> "refund", prev |-> refund] >>)
  /\ refund' = refund - g
  /\ UNCHANGED <<storeVars, objs, balance, native, logs, alAddrs, alSlots,
                 validRevisions, nextRevisionID, phase>>

\* SubRefund panics when g exceeds the counter: no step is possible.
SubRefund(g) ==
  /\ phase = "exec"
  /\ g <= refund
  /\ appendJournal(<< [type |-> "refund", prev |-> refund] >>)
  /\ refund' = refund - g
  /\ UNCHANGED <<storeVars, objs, balance, native, logs, alAddrs, alSlots,
                 validRevisions, nextRevisionID, phase>>

\* AddLog: the log index is fixed now, from the count of logs recorded.
AddLog(a) ==
  /\ phase = "exec"
  /\ appendJournal(<< [type |-> "addLog"] >>)
  /\ logs' = Append(logs, [address |-> a, index |-> Len(logs)])
  /\ UNCHANGED <<storeVars, objs, balance, native, refund, alAddrs, alSlots,
                 validRevisions, nextRevisionID, phase>>

AddAddressToAccessList(a) ==
  /\ phase = "exec"
  /\ a \notin alAddrs
  /\ appendJournal(<< [type |-> "accessAddr", addr |-> a] >>)
  /\ alAddrs' = alAddrs \cup {a}
  /\ UNCHANGED <<storeVars, objs, balance, native, refund, logs, alSlots,
                 validRevisions, nextRevisionID, phase>>

\* AddSlotToAccessList also adds the address when it is missing.
AddSlotToAccessList(a, k) ==
  /\ phase = "exec"
  /\ <<a, k>> \notin alSlots
  /\ appendJournal((IF a \in alAddrs THEN << >> ELSE << [type |-> "accessAddr", addr |-> a] >>)
                   \o << [type |-> "accessSlot", addr |-> a, key |-> k] >>)
  /\ alAddrs' = alAddrs \cup {a}
  /\ alSlots' = alSlots \cup {<<a, k>>}
  /\ UNCHANGED <<storeVars, objs, balance, native, refund, logs,
                 validRevisions, nextRevisionID, phase>>

(* Native action bridge (spec.md 4.4).  A failing action's writes are      *)
(* rolled back in its isolated sub-context, leaving the cache as it was;   *)
(* only the successful case changes state.  Its one event becomes a log.   *)
ExecuteNativeAction(a) ==
  /\ phase = "exec"
  /\ appendJournal(<< [type |-> "addLog"], [type |-> "native", prev |-> native] >>)
  /\ native' = 1 - native
  /\ logs' = Append(logs, [address |-> a, index |-> Len(logs)])
  /\ UNCHANGED <<storeVars, objs, balance, refund, alAddrs, alSlots,
                 validRevisions, nextRevisionID, phase>>

(* Snapshot and revert (spec.md 4.2).                                      *)

Snapshot ==
  /\ phase = "exec"
  /\ nextRevisionID < MaxSnapshots
  /\ validRevisions' = Append(validRevisions, [id |-> nextRevisionID, journalIndex |-> Len(journal)])
  /\ nextRevisionID' = nextRevisionID + 1
  /\ UNCHANGED <<storeVars, objs, balance, native, refund, logs, alAddrs, alSlots,
                 journal, phase>>

\* RevertToSnapshot(id): an id that is not live panics, so only live ids step.
RevertToSnapshot(id) ==
  \E i \in 1..Len(validRevisions) :
    LET n == validRevisions[i].journalIndex IN
    /\ phase = "exec"
    /\ validRevisions[i].id = id
    /\ setCache(revertJournal(Cache, journal, n))
    /\ journal' = SubSeq(journal, 1, n)
    /\ validRevisions' = SubSeq(validRevisions, 1, i - 1)
    /\ UNCHANGED <<storeVars, nextRevisionID, phase>>

(* Commit (spec.md 4.3) and the keeper calls it makes.                     *)

\* Keeper.DeleteAccount fails with ErrInvalidAccount on an existing account
\* that is not an EthAccount.
deleteFails(ka, a) == ka[a] # NoAccount /\ a \in NonEth

\* Keeper.DeleteAccount: no record, nothing to do; else clear storage, remove.
deleteAccount(ka, ks, a) ==
  IF ka[a] = NoAccount THEN <<ka, ks>>
  ELSE <<[ka EXCEPT ![a] = NoAccount], [ks EXCEPT ![a] = [k \in Keys |-> 0]]>>

\* Keeper.SetAccount: the nonce always; the code hash only on an EthAccount
\* (a missing account is created as one), a module or vesting account
\* keeps reading as codeless.
SetAccount(ka, a, o) ==
  [ka EXCEPT ![a] = [nonce |-> o.nonce,
                     codeHash |-> IF ka[a] # NoAccount /\ a \in NonEth
                                  THEN ka[a].codeHash ELSE o.codeHash]]

\* Keeper.SetState for each dirty key of a's storage: a value is written,
\* an empty one deletes the key, which then reads as 0.
setDirtyStorage(ks, a, dirty) ==
  [ks EXCEPT ![a] = [k \in Keys |-> IF dirty[k] # Unset THEN dirty[k] ELSE ks[a][k]]]

\* Defect variant: the account record is written only when the code changed.
commitObjectCodeOnly(ka, ks, a, o) ==
  IF o.selfDestructed THEN deleteAccount(ka, ks, a)
  ELSE << IF codeDirty(o) THEN SetAccount(ka, a, o) ELSE ka,
          setDirtyStorage(ks, a, o.dirtyStorage) >>

\* The store after committing object o of address a.
commitObject(ka, ks, a, o) ==
  IF o.selfDestructed THEN deleteAccount(ka, ks, a)
  ELSE << IF codeDirty(o) \/ nonceDirty(o) THEN SetAccount(ka, a, o) ELSE ka,
          setDirtyStorage(ks, a, o.dirtyStorage) >>

\* Commit: the native cache first, then every live object; an object with a
\* storage override must never be committed (fatal), so no step is possible.
\* A DeleteAccount error fails it; its earlier writes went to the message's
\* cached context, which the caller discards on that error.
Commit ==
  LET live == {a \in Addrs : objs[a] # Nil}
      post == [a \in Addrs |-> IF a \in live THEN commitObject(kAccount, kStorage, a, objs[a])
                               ELSE <<kAccount, kStorage>>]
  IN
  /\ phase = "exec"
  /\ \A a \in live : objs[a].overrideStorage = NoOverride
  /\ IF \E a \in live : objs[a].selfDestructed /\ deleteFails(kAccount, a)
     THEN phase' = "failed" /\ UNCHANGED storeVars
     ELSE /\ kAccount' = [a \in Addrs |-> post[a][1][a]]
          /\ kStorage' = [a \in Addrs |-> post[a][2][a]]
          /\ kCode' = kCode \cup ({objs[a].codeHash : a \in {b \in live : ~objs[b].selfDestructed
                                                              /\ codeDirty(objs[b])}} \ {EmptyCode})
          /\ kBalance' = balance
          /\ kNative' = native
          /\ phase' = "committed"
  /\ UNCHANGED <<objs, balance, native, refund, logs, alAddrs, alSlots,
                 journal, validRevisions, nextRevisionID>>

\* The cache is dropped (after Commit, or abandoned) and a new unit of
\* execution starts on the keeper's store.
NewStateDB ==
  /\ units < MaxUnits
  /\ units' = units + 1
  /\ objs' = [a \in Addrs |-> Nil]
  /\ balance' = kBalance
  /\ native' = kNative
  /\ refund' = 0 /\ logs' = << >> /\ alAddrs' = {} /\ alSlots' = {}
  /\ journal' = << >> /\ validRevisions' = << >> /\ nextRevisionID' = 0
  /\ phase' = "exec"
  /\ UNCHANGED storeVars

-----------------------------------------------------------------------------
\* Every operation of one StateDB; units changes only with NewStateDB.
DBStep ==
  \/ \E a \in Addrs : LoadAccount(a) \/ CreateAccount(a) \/ CreateContract(a)
                      \/ AddAddressToAccessList(a) \/ AddLog(a) \/ ExecuteNativeAction(a)
                      \/ \E b \in BOOLEAN : SelfDestruct(a, b)
  \/ \E a \in Addrs, k \in Keys : LoadState(a, k) \/ AddSlotToAccessList(a, k)
  \/ \E a \in Addrs, k \in Keys, v \in Vals : SetState(a, k, v)
  \/ \E a \in Addrs, st \in [Keys -> Vals] : SetStorage(a, st)
  \/ \E a \in Addrs, n \in 0..MaxNonce : SetNonce(a, n)
  \/ \E a \in Addrs, c \in Codes : SetCode(a, c)
  \/ \E a \in Addrs, amt \in 1..MaxBalance : AddBalance(a, amt) \/ SubBalance(a, amt)
  \/ \E g \in 1..MaxRefund : AddRefund(g) \/ SubRefund(g)
  \/ Snapshot
  \/ \E id \in 0..MaxSnapshots : RevertToSnapshot(id)
  \/ Commit

Next == (DBStep /\ UNCHANGED units) \/ NewStateDB

Spec == Init /\ [][Next]_vars

-----------------------------------------------------------------------------
(* Properties.                                                             *)

Obj == [orig : {NoAccount} \cup Account, nonce : 0..MaxNonce, codeHash : Codes,
        originStorage : [Keys -> Vals \cup {Unset}], dirtyStorage : [Keys -> Vals \cup {Unset}],
        overrideStorage : {NoOverride} \cup [Keys -> Vals],
        selfDestructed : BOOLEAN, newContract : BOOLEAN]

TypeOK ==
  /\ kAccount \in [Addrs -> {NoAccount} \cup Account]
  /\ kStorage \in [Addrs -> [Keys -> Vals]]
  /\ kCode \subseteq Codes
  /\ kBalance \in [Addrs -> 0..MaxBalance] /\ balance \in [Addrs -> 0..MaxBalance]
  /\ objs \in [Addrs -> {Nil} \cup Obj]
  /\ refund \in 0..MaxRefund
  /\ logs \in Seq([address : Addrs, index : Nat])
  /\ alAddrs \subseteq Addrs /\ alSlots \subseteq Addrs \X Keys
  /\ Len(journal) <= MaxJournal
  /\ validRevisions \in Seq([id : Nat, journalIndex : 0..Len(journal)])
  /\ phase \in {"exec", "committed", "failed"}

\* What the getters of a cache c return for address a: NoAccount when
\* Exist(a) is false, else nonce, code hash, GetState of every key and flags.
accountView(c, a) ==
  LET o == IF c.objs[a] # Nil THEN c.objs[a]
           ELSE IF kAccount[a] # NoAccount THEN newObject(kAccount[a]) ELSE Nil
  IN IF o = Nil THEN NoAccount
     ELSE [nonce |-> o.nonce, codeHash |-> o.codeHash,
           storage |-> [k \in Keys |-> GetState(o, a, k)],
           selfDestructed |-> o.selfDestructed, newContract |-> o.newContract]

View(c) ==
  [accounts |-> [a \in Addrs |-> accountView(c, a)],
   balance |-> c.balance, native |-> c.native, refund |-> c.refund, logs |-> c.logs,
   alAddrs |-> c.alAddrs, alSlots |-> c.alSlots]

(* Refinement (spec.md 8.2, 8.5, 8.7): the journal implements snapshots.   *)
(* A live snapshot's saved view is what undoing the journal back to its    *)
(* index yields now; every operation must leave that unchanged (its entry  *)
(* undoes it exactly, whatever else is journaled after), and a revert must *)
(* produce it.  Violated by a journal entry that records the wrong         *)
(* previous value, an operation that changes state without an entry, or    *)
(* undo applied in the wrong order.                                        *)
Abstract == INSTANCE JournaledState WITH
  view <- View(Cache),
  revisions <- IF phase = "exec"
               THEN [i \in 1..Len(validRevisions) |->
                       [id |-> validRevisions[i].id,
                        view |-> View(revertJournal(Cache, journal, validRevisions[i].journalIndex))]]
               ELSE << >>,
  nextId <- nextRevisionID

JournaledStateSpec == Abstract!Spec

(* Round trip (spec.md 8.1, 8.3): right after Commit, a fresh cache on the *)
(* keeper reads back what the committed cache read for every object it     *)
(* held: nonce, code hash and storage of a live account with its code      *)
(* stored, and for a self-destructed one no account record and no storage  *)
(* left behind.  It is about Commit's dirty checks (codeDirty, nonceDirty) *)
(* and Keeper.DeleteAccount/SetAccount/SetState.                           *)
persisted(a) == [account |-> kAccount[a], storage |-> kStorage[a]]

expected(o, a) ==
  IF o.selfDestructed THEN [account |-> NoAccount, storage |-> [k \in Keys |-> 0]]
  ELSE [account |-> [nonce |-> o.nonce, codeHash |-> o.codeHash],
        storage |-> [k \in Keys |-> GetState(o, a, k)]]

CommitRoundTrip ==
  phase = "committed" =>
    \A a \in Addrs : objs[a] # Nil =>
      /\ persisted(a) = expected(objs[a], a)
      /\ ~objs[a].selfDestructed => objs[a].codeHash \in kCode \cup {EmptyCode}
=============================================================================
