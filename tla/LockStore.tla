----------------------------- MODULE LockStore ------------------------------
(***************************************************************************)
(* nistore/lockstore.cc: the strict two-phase-locking backend of a shard.  *)
(* Same shape as OCCStore: one operator per method over an engine record   *)
(* [store, locks, running, prepared, retired, fault].  store is the        *)
(* single-version KVStore (commit calls the two-argument put), locks the   *)
(* LockServer table.  A Transaction is [readSet: key -> read count,        *)
(* writeSet: key -> stack of values].                                      *)
(***************************************************************************)
EXTENDS TxnStore

LS == INSTANCE LockServer
KVS == INSTANCE KVStore

EmptyTxn == [readSet |-> EmptyFn, writeSet |-> EmptyFn]

InitEngine ==
  [store |-> EmptyFn, locks |-> EmptyFn, running |-> EmptyFn, prepared |-> EmptyFn,
   retired |-> <<>>, fault |-> FALSE]

getTxn(e, id) ==
  IF id \in DOMAIN e.running THEN e
  ELSE [e EXCEPT !.running = Set(@, id, EmptyTxn)]

getRetiredTxn(e, op, id, state) ==
  IF e.retired = <<>> THEN [engine |-> Fail(e), txn |-> EmptyTxn]
  ELSE LET t == Last(e.retired)
       IN IF t.op = op /\ t.id = id /\ t.state = state
          THEN [engine |-> [e EXCEPT !.retired = Front(@)], txn |-> t.txn]
          ELSE [engine |-> Fail(e), txn |-> t.txn]

\* Releases the write lock of every written key and the read lock of every
\* read key (second phase of 2PL, on commit and abort).
dropLocks(L, id, txn) ==
  LET L1 == FoldSet(LAMBDA k, acc : LS!releaseForWrite(acc, k, id), L, DOMAIN txn.writeSet)
  IN FoldSet(LAMBDA k, acc : LS!releaseForRead(acc, k, id), L1, DOMAIN txn.readSet)

\* Re-acquires those locks on rollback, asserting each acquisition.
getLocks(L, id, txn) ==
  LET L1 == FoldSet(LAMBDA k, acc : LS!lockForWrite(acc, k, id), L, DOMAIN txn.writeSet)
  IN [ok    |-> /\ \A k \in DOMAIN txn.writeSet : LS!canWrite(L, k, id)
                /\ \A k \in DOMAIN txn.readSet : LS!canRead(L1, k, id),
      locks |-> FoldSet(LAMBDA k, acc : LS!lockForRead(acc, k, id), L1, DOMAIN txn.readSet)]

begin(e, id) == [e EXCEPT !.running = Set(@, id, EmptyTxn)]

unbegin(e, id) == [e EXCEPT !.running = Erase(@, id)]

\* Read your own writes; else the store's value, taking the read lock on
\* the first read of the key (-2 when it cannot be had).
get(e, id, key) ==
  LET e1 == getTxn(e, id)
      txn == e1.running[id]
      r == KVS!get(e1.store, key)
  IN CASE key \in DOMAIN txn.writeSet -> Reply(e1, 0, Top(txn.writeSet[key]))
       [] ~r.found -> Reply(e1, -1, NoValue)
       [] key \in DOMAIN txn.readSet ->
            Reply([e1 EXCEPT !.running[id].readSet[key] = @ + 1], 0, r.val)
       [] LS!canRead(e1.locks, key, id) ->
            Reply([e1 EXCEPT !.running[id].readSet = Set(@, key, 1),
                             !.locks = LS!lockForRead(@, key, id)], 0, r.val)
       [] OTHER -> Reply(e1, -2, r.val)

\* Mutant: the last unget decrements the count to 0 and keeps the entry
\* and the read lock.
ungetKeepsEntry(e, id, key) ==
  IF id \notin DOMAIN e.running \/ key \notin DOMAIN e.running[id].readSet THEN e
  ELSE [e EXCEPT !.running[id].readSet[key] = @ - 1]

\* The last read of a key erases it from the read set and releases its
\* read lock.
unget(e, id, key) ==
  IF id \notin DOMAIN e.running THEN Fail(e)
  ELSE LET rs == e.running[id].readSet
       IN CASE key \notin DOMAIN rs -> e
            [] rs[key] > 1 -> [e EXCEPT !.running[id].readSet[key] = @ - 1]
            [] OTHER -> [e EXCEPT !.running[id].readSet = Erase(@, key),
                                  !.locks = LS!releaseForRead(@, key, id)]

put(e, id, key, value) ==
  LET e1 == getTxn(e, id)
  IN IF LS!canWrite(e1.locks, key, id)
     THEN Reply([e1 EXCEPT !.locks = LS!lockForWrite(@, key, id),
                           !.running[id].writeSet =
                             Set(@, key, IF key \in DOMAIN @ THEN Append(@[key], value)
                                                             ELSE <<value>>)], 0, NoValue)
     ELSE Reply(e1, -2, NoValue)

\* Pops the value; when the stack empties the write lock is released, but
\* the key stays in the write set.
unput(e, id, key, value) ==
  IF id \notin DOMAIN e.running \/ key \notin DOMAIN e.running[id].writeSet
     \/ Top(e.running[id].writeSet[key]) # value
  THEN Fail(e)
  ELSE LET e1 == [e EXCEPT !.running[id].writeSet[key] = Front(@)]
       IN IF e1.running[id].writeSet[key] = <<>>
          THEN [e1 EXCEPT !.locks = LS!releaseForWrite(@, key, id)]
          ELSE e1

\* No checks: the locks already isolate the transaction.
prepare(e, id, op) ==
  IF id \notin DOMAIN e.running THEN Reply(e, -1, NoValue)
  ELSE Reply([e EXCEPT !.running = Erase(@, id), !.prepared = Set(@, id, e.running[id])],
             0, NoValue)

unprepare(e, id, op) ==
  IF id \in DOMAIN e.prepared
  THEN [e EXCEPT !.running = Set(@, id, e.prepared[id]), !.prepared = Erase(@, id)]
  ELSE LET r == getRetiredTxn(e, op, id, "ABORTED_RUNNING")
       IN [r.engine EXCEPT !.running = Set(@, id, r.txn)]

commit(e, id, timestamp, op) ==
  IF id \notin DOMAIN e.prepared THEN Fail(e)
  ELSE LET txn == e.prepared[id]
       IN [e EXCEPT
             !.store = FoldSet(LAMBDA k, s : KVS!put(s, k, Top(txn.writeSet[k])), @,
                               DOMAIN txn.writeSet),
             !.locks = dropLocks(@, id, txn),
             !.prepared = Erase(@, id),
             !.retired = Append(@, Retired(op, id, txn, "COMMITTED"))]

\* Removes the value each write put in the store (asserting it is the one
\* written), re-acquires the locks and makes the transaction prepared.
uncommit(e, id, timestamp, op) ==
  LET r == getRetiredTxn(e, op, id, "COMMITTED")
      s == r.engine.store
      ws == r.txn.writeSet
      g == getLocks(r.engine.locks, id, r.txn)
  IN IF \E k \in DOMAIN ws : ~KVS!get(s, k).found \/ KVS!get(s, k).val # Top(ws[k])
     THEN Fail(r.engine)
     ELSE IF ~g.ok \/ id \in DOMAIN r.engine.prepared THEN Fail(r.engine)
     ELSE [r.engine EXCEPT
             !.store = FoldSet(LAMBDA k, acc : KVS!remove(acc, k), s, DOMAIN ws),
             !.locks = g.locks,
             !.prepared = Set(@, id, r.txn)]

\* Mutant: abort retires the transaction without dropLocks.
abortTxnKeepsLocks(e, id, op) ==
  CASE id \in DOMAIN e.running ->
         [e EXCEPT !.retired = Append(@, Retired(op, id, e.running[id], "ABORTED_RUNNING")),
                   !.running = Erase(@, id)]
    [] id \in DOMAIN e.prepared ->
         [e EXCEPT !.retired = Append(@, Retired(op, id, e.prepared[id], "ABORTED_PREPARED")),
                   !.prepared = Erase(@, id)]
    [] OTHER -> Fail(e)

abortTxn(e, id, op) ==
  CASE id \in DOMAIN e.running ->
         [e EXCEPT !.locks = dropLocks(@, id, e.running[id]),
                   !.retired = Append(@, Retired(op, id, e.running[id], "ABORTED_RUNNING")),
                   !.running = Erase(@, id)]
    [] id \in DOMAIN e.prepared ->
         [e EXCEPT !.locks = dropLocks(@, id, e.prepared[id]),
                   !.retired = Append(@, Retired(op, id, e.prepared[id], "ABORTED_PREPARED")),
                   !.prepared = Erase(@, id)]
    [] OTHER -> Fail(e)

\* Mutant: unabort returns every transaction to running, whatever state
\* it was aborted from.
unabortToRunning(e, id, op) ==
  IF e.retired = <<>> THEN Fail(e)
  ELSE
    LET t == Last(e.retired)
        g == getLocks(e.locks, id, t.txn)
        e1 == [e EXCEPT !.retired = Front(@), !.locks = g.locks]
    IN CASE t.op # op \/ t.id # id \/ t.state = "COMMITTED" -> Fail(e)
         [] id \in DOMAIN e.running \/ ~g.ok -> Fail(e)
         [] OTHER -> [e1 EXCEPT !.running = Set(@, id, t.txn)]

\* Restores the transaction to the state it was aborted from and picks up
\* its locks again.
unabort(e, id, op) ==
  IF e.retired = <<>> THEN Fail(e)
  ELSE
    LET t == Last(e.retired)
        g == getLocks(e.locks, id, t.txn)
        e1 == [e EXCEPT !.retired = Front(@), !.locks = g.locks]
    IN CASE t.op # op \/ t.id # id \/ t.state = "COMMITTED" -> Fail(e)
         [] t.state = "ABORTED_PREPARED" /\ id \in DOMAIN e.prepared -> Fail(e)
         [] t.state = "ABORTED_RUNNING" /\ id \in DOMAIN e.running -> Fail(e)
         [] ~g.ok -> Fail(e)
         [] t.state = "ABORTED_PREPARED" -> [e1 EXCEPT !.prepared = Set(@, id, t.txn)]
         [] OTHER -> [e1 EXCEPT !.running = Set(@, id, t.txn)]

\* Mutant: specCommit keeps the entry of the committed opnum itself.
RECURSIVE DropBelow(_, _)
DropBelow(r, op) ==
  IF r # <<>> /\ Head(r).op < op THEN DropBelow(Tail(r), op) ELSE r

RECURSIVE DropStable(_, _)
DropStable(r, op) ==
  IF r # <<>> /\ Head(r).op <= op THEN DropStable(Tail(r), op) ELSE r

specCommit(e, op) == [e EXCEPT !.retired = DropStable(@, op)]

=============================================================================
