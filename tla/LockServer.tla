----------------------------- MODULE LockServer -----------------------------
(***************************************************************************)
(* nistore/lockserver.h: a per-key multi-reader / single-writer lock.      *)
(* lockserver.cc is not in the repository, so the acquisition and release  *)
(* rules are those spec.md (4.2) states for the declared interface.        *)
(*                                                                         *)
(* A lock table is a partial function key -> [readers, writer]: a key with *)
(* no entry is UNLOCKED, writer = NoValue means no write holder.  The      *)
(* LockState enum is derived from the two fields.  The waiter queue only   *)
(* makes acquisitions fail that the rules below would grant (a reader      *)
(* yielding to a queued writer); since a failed acquisition is already a   *)
(* possible reply, the queue and its 5 s timeout are left out.             *)
(***************************************************************************)
EXTENDS TLC

CONSTANT NoValue

Unlocked == [readers |-> {}, writer |-> NoValue]

LockOf(L, k) == IF k \in DOMAIN L THEN L[k] ELSE Unlocked

LockState(L, k) ==
  LET l == LockOf(L, k)
  IN CASE l.writer = NoValue /\ l.readers = {} -> "UNLOCKED"
       [] l.writer = NoValue                   -> "LOCKED_FOR_READ"
       [] l.readers = {}                       -> "LOCKED_FOR_WRITE"
       [] OTHER                                -> "LOCKED_FOR_READ_WRITE"

\* Granted unless another transaction holds the write lock.
canRead(L, k, id) == LockOf(L, k).writer \in {NoValue, id}

\* Granted when no other transaction holds it in any mode (a sole reader
\* upgrades, a writer re-enters).
canWrite(L, k, id) == canRead(L, k, id) /\ LockOf(L, k).readers \subseteq {id}

\* The table after a granted acquisition / a release.
lockForRead(L, k, id) ==
  (k :> [LockOf(L, k) EXCEPT !.readers = @ \cup {id}]) @@ L

lockForWrite(L, k, id) ==
  (k :> [LockOf(L, k) EXCEPT !.writer = id]) @@ L

releaseForRead(L, k, id) ==
  (k :> [LockOf(L, k) EXCEPT !.readers = @ \ {id}]) @@ L

releaseForWrite(L, k, id) ==
  (k :> [LockOf(L, k) EXCEPT !.writer = IF @ = id THEN NoValue ELSE @]) @@ L

=============================================================================
