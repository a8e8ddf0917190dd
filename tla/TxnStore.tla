------------------------------ MODULE TxnStore ------------------------------
(***************************************************************************)
(* nistore/txnstore.h: what the two transactional backends share.  An      *)
(* engine is a record whose fields are the backend's members plus `fault`, *)
(* set when an ASSERT or NOT_REACHABLE fires (the process aborts).  Every  *)
(* method is an operator from an engine to the next engine, or, for the    *)
(* methods that answer the client, to [engine, status, value].             *)
(***************************************************************************)
EXTENDS Integers, SequencesExt

CONSTANTS
  Garbage,   \* a string read from an empty std::list (undefined behaviour)
  NoValue    \* the empty string / an absent optional field

EmptyFn == [x \in {} |-> NoValue]

\* the RetiredState enum of both backends
RetiredStates == {"COMMITTED", "ABORTED_PREPARED", "ABORTED_RUNNING"}

\* map insertion / erase
Set(f, x, v) == (x :> v) @@ f
Erase(f, x) == Restrict(f, DOMAIN f \ {x})

Fail(e) == [e EXCEPT !.fault = TRUE]
Reply(e, status, value) == [engine |-> e, status |-> status, value |-> value]

\* an element of the retired list: pair<opnum, RetiredTxn{txn, state}>
Retired(op, id, txn, state) == [op |-> op, id |-> id, txn |-> txn, state |-> state]

\* list::back() of a write stack, undefined (garbage) on an empty list
Top(stack) == IF stack = <<>> THEN Garbage ELSE Last(stack)

=============================================================================
