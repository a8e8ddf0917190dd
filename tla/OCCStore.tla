------------------------------ MODULE OCCStore ------------------------------
(***************************************************************************)
(* nistore/occstore.cc: the optimistic backend of a shard.  Every method   *)
(* of OCCStore is an operator from an engine state e to the next one (or,  *)
(* for the methods that answer the client, to a reply carrying it), so     *)
(* that the replica shim can run one forward method per upcall and a       *)
(* whole reversed run of un* methods inside a single RollbackUpcall.       *)
(*                                                                         *)
(* e.store    the VersionedKVStore (see that module)                       *)
(* e.running  txnid -> Transaction, e.prepared likewise                    *)
(* e.retired  the list<pair<opnum, RetiredTxn>>, oldest first              *)
(* e.fault    an ASSERT or NOT_REACHABLE fired: the process has aborted    *)
(* A Transaction is [readSet: key -> [ts, count], writeSet: key -> stack], *)
(* the stack's last element being list::back().                            *)
(***************************************************************************)
EXTENDS TxnStore

KV == INSTANCE VersionedKVStore

EmptyTxn == [readSet |-> EmptyFn, writeSet |-> EmptyFn]

InitEngine ==
  [store |-> EmptyFn, running |-> EmptyFn, prepared |-> EmptyFn,
   retired |-> <<>>, fault |-> FALSE]

\* Gets the running transaction, creating an empty one if there is none.
getTxn(e, id) ==
  IF id \in DOMAIN e.running THEN e
  ELSE [e EXCEPT !.running = Set(@, id, EmptyTxn)]

\* Pops the newest retired entry after asserting it is (op, id, state).
getRetiredTxn(e, op, id, state) ==
  IF e.retired = <<>> THEN [engine |-> Fail(e), txn |-> EmptyTxn]
  ELSE LET t == Last(e.retired)
       IN IF t.op = op /\ t.id = id /\ t.state = state
          THEN [engine |-> [e EXCEPT !.retired = Front(@)], txn |-> t.txn]
          ELSE [engine |-> Fail(e), txn |-> t.txn]

preparedWrites(e) ==
  UNION {DOMAIN e.prepared[t].writeSet : t \in DOMAIN e.prepared}

preparedReadWrites(e) ==
  preparedWrites(e) \cup UNION {DOMAIN e.prepared[t].readSet : t \in DOMAIN e.prepared}

begin(e, id) == [e EXCEPT !.running = Set(@, id, EmptyTxn)]

unbegin(e, id) == [e EXCEPT !.running = Erase(@, id)]

\* Read your own writes, then re-read the version read before, then the
\* newest version (recording it in the read set).
get(e, id, key) ==
  LET e1 == getTxn(e, id)
      txn == e1.running[id]
  IN CASE key \in DOMAIN txn.writeSet ->
            Reply(e1, 0, Top(txn.writeSet[key]))
       [] key \in DOMAIN txn.readSet ->
            LET r == KV!getAt(e1.store, key, txn.readSet[key].ts)
            IN IF ~r.found THEN Reply(Fail(e1), 0, NoValue)
               ELSE Reply([e1 EXCEPT !.running[id].readSet[key].count = @ + 1], 0, r.val)
       [] OTHER ->
            LET r == KV!get(e1.store, key)
            IN IF r.found
               THEN Reply([e1 EXCEPT !.running[id].readSet =
                             Set(@, key, [ts |-> r.ts, count |-> 1])], 0, r.val)
               ELSE Reply(e1, -1, NoValue)

\* Mutant: the last read of a key decrements its count to 0 instead of
\* erasing the entry.
ungetKeepsEntry(e, id, key) ==
  LET e1 == getTxn(e, id)
  IN IF key \notin DOMAIN e1.running[id].readSet THEN e1
     ELSE [e1 EXCEPT !.running[id].readSet[key].count = @ - 1]

unget(e, id, key) ==
  LET e1 == getTxn(e, id)
      rs == e1.running[id].readSet
  IN IF key \notin DOMAIN rs THEN e1
     ELSE IF rs[key].count > 1
          THEN [e1 EXCEPT !.running[id].readSet[key].count = @ - 1]
          ELSE [e1 EXCEPT !.running[id].readSet = Erase(@, key)]

put(e, id, key, value) ==
  LET e1 == getTxn(e, id)
  IN Reply([e1 EXCEPT !.running[id].writeSet =
              Set(@, key, IF key \in DOMAIN @ THEN Append(@[key], value) ELSE <<value>>)],
           0, NoValue)

\* Pops the value off the key's stack; the key stays in the write set even
\* when its stack becomes empty.
unput(e, id, key, value) ==
  LET e1 == getTxn(e, id)
      ws == e1.running[id].writeSet
  IN IF key \notin DOMAIN ws \/ ws[key] = <<>> \/ Last(ws[key]) # value
     THEN Fail(e1)
     ELSE [e1 EXCEPT !.running[id].writeSet[key] = Front(@)]

abortTxn(e, id, op) ==
  CASE id \in DOMAIN e.running ->
         [e EXCEPT !.retired = Append(@, Retired(op, id, e.running[id], "ABORTED_RUNNING")),
                   !.running = Erase(@, id)]
    [] id \in DOMAIN e.prepared ->
         [e EXCEPT !.retired = Append(@, Retired(op, id, e.prepared[id], "ABORTED_PREPARED")),
                   !.prepared = Erase(@, id)]
    [] OTHER -> Fail(e)

\* Mutant: prepare without the write-write check against prepared
\* transactions.
prepareNoWW(e, id, op) ==
  IF id \notin DOMAIN e.running THEN Reply(e, -1, NoValue)
  ELSE
    LET txn == e.running[id]
        cur(k) == KV!get(e.store, k)
    IN IF \E k \in DOMAIN txn.readSet : ~cur(k).found THEN Reply(Fail(e), -1, NoValue)
       ELSE IF \E k \in DOMAIN txn.readSet :
                 cur(k).ts # txn.readSet[k].ts \/ k \in preparedWrites(e)
            THEN Reply(abortTxn(e, id, op), -1, NoValue)
       ELSE Reply([e EXCEPT !.running = Erase(@, id), !.prepared = Set(@, id, txn)],
                  0, NoValue)

\* The OCC checks: a read key whose newest version changed, or that a
\* prepared transaction writes, and a written key that a prepared
\* transaction reads or writes, abort the transaction (retiring it).
prepare(e, id, op) ==
  IF id \notin DOMAIN e.running THEN Reply(e, -1, NoValue)
  ELSE
    LET txn == e.running[id]
        pWrites == preparedWrites(e)
        pRW == preparedReadWrites(e)
        cur(k) == KV!get(e.store, k)
        rwConflict == \E k \in DOMAIN txn.readSet :
                        cur(k).ts # txn.readSet[k].ts \/ k \in pWrites
        wwConflict == \E k \in DOMAIN txn.writeSet : k \in pRW
    IN IF \E k \in DOMAIN txn.readSet : ~cur(k).found THEN Reply(Fail(e), -1, NoValue)
       ELSE IF rwConflict \/ wwConflict THEN Reply(abortTxn(e, id, op), -1, NoValue)
       ELSE Reply([e EXCEPT !.running = Erase(@, id), !.prepared = Set(@, id, txn)],
                  0, NoValue)

\* Mutant: undoing a failed prepare pops the retired entry but does not
\* put the transaction back into running.
unprepareNoRestore(e, id, op) ==
  IF id \in DOMAIN e.prepared
  THEN [e EXCEPT !.running = Set(@, id, e.prepared[id]), !.prepared = Erase(@, id)]
  ELSE getRetiredTxn(e, op, id, "ABORTED_RUNNING").engine

unprepare(e, id, op) ==
  IF id \in DOMAIN e.prepared
  THEN [e EXCEPT !.running = Set(@, id, e.prepared[id]), !.prepared = Erase(@, id)]
  ELSE LET r == getRetiredTxn(e, op, id, "ABORTED_RUNNING")
       IN [r.engine EXCEPT !.running = Set(@, id, r.txn)]

\* Writes the top of every write stack at the given timestamp.
ApplyWrites(store, ws, timestamp) ==
  FoldSet(LAMBDA k, s : KV!put(s, k, Top(ws[k]), timestamp), store, DOMAIN ws)

commit(e, id, timestamp, op) ==
  IF id \notin DOMAIN e.prepared THEN Fail(e)
  ELSE LET txn == e.prepared[id]
       IN [e EXCEPT !.store = ApplyWrites(@, txn.writeSet, timestamp),
                    !.prepared = Erase(@, id),
                    !.retired = Append(@, Retired(op, id, txn, "COMMITTED"))]

\* Mutant: uncommit makes the transaction prepared again but leaves the
\* versions it wrote in the store.
uncommitKeepsStore(e, id, timestamp, op) ==
  LET r == getRetiredTxn(e, op, id, "COMMITTED")
  IN IF id \in DOMAIN r.engine.prepared THEN Fail(r.engine)
     ELSE [r.engine EXCEPT !.prepared = Set(@, id, r.txn)]

\* Pops the newest version of every written key, asserting it is the one
\* this commit wrote, and makes the transaction prepared again.
uncommit(e, id, timestamp, op) ==
  LET r == getRetiredTxn(e, op, id, "COMMITTED")
      s == r.engine.store
      ws == r.txn.writeSet
      ok == \A k \in DOMAIN ws :
              /\ KV!removable(s, k)
              /\ KV!get(s, k).ts = timestamp
              /\ KV!get(s, k).val = Top(ws[k])
  IN IF ~ok \/ id \in DOMAIN r.engine.prepared THEN Fail(r.engine)
     ELSE [r.engine EXCEPT
             !.store = [k \in DOMAIN s |-> IF k \in DOMAIN ws THEN Tail(s[k]) ELSE s[k]],
             !.prepared = Set(@, id, r.txn)]

unabort(e, id, op) ==
  IF e.retired = <<>> THEN Fail(e)
  ELSE
    LET t == Last(e.retired)
        e1 == [e EXCEPT !.retired = Front(@)]
    IN CASE t.op # op \/ t.id # id \/ t.state = "COMMITTED" -> Fail(e)
         [] t.state = "ABORTED_PREPARED" ->
              IF id \in DOMAIN e.prepared THEN Fail(e)
              ELSE [e1 EXCEPT !.prepared = Set(@, id, t.txn)]
         [] OTHER ->
              IF id \in DOMAIN e.running THEN Fail(e)
              ELSE [e1 EXCEPT !.running = Set(@, id, t.txn)]

\* Mutant: specCommit keeps the entry of the committed opnum itself.
RECURSIVE DropBelow(_, _)
DropBelow(r, op) ==
  IF r # <<>> /\ Head(r).op < op THEN DropBelow(Tail(r), op) ELSE r

\* Drops retired entries from the front while their opnum is <= op.
RECURSIVE DropStable(_, _)
DropStable(r, op) ==
  IF r # <<>> /\ Head(r).op <= op THEN DropStable(Tail(r), op) ELSE r

specCommit(e, op) == [e EXCEPT !.retired = DropStable(@, op)]

=============================================================================
