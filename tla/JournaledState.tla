--------------------------- MODULE JournaledState ---------------------------
(***************************************************************************)
(* What the journaled state cache promises its caller (spec.md 4.2, 8.2,  *)
(* 8.5, 8.7), with the journal abstracted away: a snapshot saves a copy    *)
(* of everything the interpreter can observe, and reverting to a snapshot  *)
(* gives exactly that copy back and forgets the snapshot and every later   *)
(* one.  Any other step may change the observable state but never a saved *)
(* copy.  This module is a property only: `view' is left unconstrained by  *)
(* Mutate, so it is checked against StateDB through a refinement mapping.  *)
(***************************************************************************)
EXTENDS Naturals, Sequences

VARIABLES
  view,       \* everything a getter of the cache can observe
  revisions,  \* live snapshots, oldest first: [id, view]
  nextId      \* the id the next snapshot gets

vars == <<view, revisions, nextId>>

Init ==
  /\ revisions = << >>
  /\ nextId = 0

\* Snapshot() returns a fresh id and saves the current view under it.
Snapshot ==
  /\ revisions' = Append(revisions, [id |-> nextId, view |-> view])
  /\ nextId' = nextId + 1
  /\ view' = view

\* RevertToSnapshot(id) for a live id: exactly the saved view comes back,
\* the snapshot and all later ones are gone.
RevertToSnapshot ==
  \E i \in 1..Len(revisions) :
    /\ view' = revisions[i].view
    /\ revisions' = SubSeq(revisions, 1, i - 1)
    /\ nextId' = nextId

\* Any operation other than snapshot and revert: saved views are untouched.
Mutate == UNCHANGED <<revisions, nextId>>

\* Commit ends the rollback domain: no snapshot can be reverted afterwards.
Commit ==
  /\ revisions' = << >>
  /\ nextId' = nextId

\* The cache is discarded and a fresh one is built on the backing store.
Discard ==
  /\ revisions' = << >>
  /\ nextId' = 0

Next == Snapshot \/ RevertToSnapshot \/ Mutate \/ Commit \/ Discard

Spec == Init /\ [][Next]_vars
=============================================================================
