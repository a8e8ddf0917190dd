------------------------------- MODULE Server -------------------------------
(***************************************************************************)
(* nistore/server.cc: the replica upcall shim of one shard, driven by a    *)
(* speculative replicated state machine (RSM).                             *)
(*                                                                         *)
(*  ReplicaUpcall   executes one request at the next opnum (forward path)  *)
(*  RollbackUpcall  undoes the ops above some opnum, newest first          *)
(*  CommitUpcall    declares every op up to an opnum stable (specCommit)   *)
(*                                                                         *)
(* log is the sequence of requests the shard has executed, log[i] having   *)
(* opnum i, with the reply the engine produced.  The requests are those    *)
(* the clients (nistore/client.cc) send: each client uses its client_id as *)
(* the txnid of all its transactions and, per shard, sends BEGIN, then     *)
(* GETs and PUTs, then PREPARE, then COMMIT(ts) or, after a yes vote here  *)
(* and a no vote elsewhere, ABORT.  What a client may send next is read    *)
(* off the log, so a rollback lets it (re)send any request that fits.      *)
(* tss is the last timestamp handed out by the timestamp server, which     *)
(* the client fetches between PREPARE and COMMIT.                          *)
(*                                                                         *)
(* hist is a history variable: hist[i] is the engine state right after     *)
(* op i was executed (compacted by later CommitUpcalls, as the engine is). *)
(***************************************************************************)
EXTENDS Integers, SequencesExt

CONSTANTS
  Clients,   \* client ids, used as txnids
  Keys,
  Values,
  Garbage,   \* see VersionedKVStore
  NoValue,
  Backends,  \* the classes the `store` member may be built as
  MaxOps,    \* per class: bound on the length of the log
  MaxTs,     \* bound on the timestamps the timestamp server hands out
  LoadKeys   \* per class: keys written by a stably committed transaction
             \* before the run

ASSUME Backends \subseteq {"OCCStore", "LockStore", "TxnStore", "TimeStampServer"}
ASSUME Backends # {}
ASSUME \A b \in Backends : MaxOps[b] \in Nat \ {0} /\ LoadKeys[b] \subseteq Keys
ASSUME MaxTs \in Nat \ {0}

OCC == INSTANCE OCCStore
LCK == INSTANCE LockStore
KV == INSTANCE VersionedKVStore

VARIABLES
  log,        \* executed requests with their replies, log[i] has opnum i
  committed,  \* highest opnum passed to CommitUpcall
  engine,     \* the TxnStore backend state
  tss,        \* last timestamp issued by the timestamp server
  hist,       \* history: engine state after each op of log
  backend     \* the class whose methods the `store` member runs

vars == <<log, committed, engine, tss, hist, backend>>

Req(op, id, key, val, ts) ==
  [op |-> op, txnid |-> id, arg0 |-> key, arg1 |-> val, ts |-> ts]

Requests ==
  [op : {"BEGIN", "GET", "PUT", "PREPARE", "COMMIT", "ABORT", "TIMESTAMP"}, txnid : Clients,
   arg0 : Keys \cup {NoValue}, arg1 : Values \cup {NoValue}, ts : 0..MaxTs]

(***************************************************************************)
(* server.h declares the member `TxnStore store;` by value, so both        *)
(* constructors' `store = OCCStore()` / `store = LockStore()` slice the    *)
(* temporary down to the TxnStore base: every call then runs the base      *)
(* class's methods (txnstore.cc), which only log.  backend = "TxnStore" is *)
(* that program; backend = "OCCStore" is the server the constructor names. *)
(* The TxnStore base leaves the engine alone and answers 0 with the empty  *)
(* value (NoValue); BEGIN still replies with the uninitialized status.     *)
(***************************************************************************)
TxnStoreExecute(e, req) ==
  OCC!Reply(e, IF req.op = "BEGIN" THEN NoValue ELSE 0, NoValue)

(***************************************************************************)
(* Server::ReplicaUpcall: decode the request and call the engine's method  *)
(* for it.  BEGIN replies with the uninitialized local `status`            *)
(* (set_status(0) is overwritten); no client reads that reply, so it is    *)
(* left as NoValue.  COMMIT's timestamp travels as a decimal string and is *)
(* read back with stol, which returns the same number.                     *)
(***************************************************************************)
Dispatch(e, req, opnum, begin(_, _), get(_, _, _), put(_, _, _, _), prepare(_, _, _), commit(_, _, _, _), abortTxn(_, _, _)) ==
  CASE req.op = "BEGIN"   -> OCC!Reply(begin(e, req.txnid), NoValue, NoValue)
    [] req.op = "GET"     -> get(e, req.txnid, req.arg0)
    [] req.op = "PUT"     -> put(e, req.txnid, req.arg0, req.arg1)
    [] req.op = "PREPARE" -> prepare(e, req.txnid, opnum)
    [] req.op = "COMMIT"  -> OCC!Reply(commit(e, req.txnid, req.ts, opnum), 0, NoValue)
    [] req.op = "ABORT"   -> OCC!Reply(abortTxn(e, req.txnid, opnum), 0, NoValue)

(***************************************************************************)
(* timeserver/timeserver.cc: the other application behind the same three   *)
(* RSM upcalls.  Its state is the counter ts.  Clients send it the empty   *)
(* request (client.cc:274), here TIMESTAMP; with -m spec (timeserver.cc    *)
(* main) it runs under a SpecReplica, which may roll its ops back.         *)
(***************************************************************************)
TssInitEngine == [ts |-> 0, fault |-> FALSE]

\* TimeStampServer::ReplicaUpcall: the reply is newTimeStamp(), i.e. ++ts.
TssReplicaUpcall(e) == [engine |-> [e EXCEPT !.ts = @ + 1], status |-> NoValue, value |-> e.ts + 1]

\* Mutant: RollbackUpcall left as the "Ignore for now" stub.
TssUndoIgnored(e) == e

\* TimeStampServer::RollbackUpcall: `ts--` once for each op of opMap.
TssUndo(e) == [e EXCEPT !.ts = @ - 1]

\* TimeStampServer::CommitUpcall only logs.
TssCommitUpcall(e) == e

Execute(e, req, opnum) ==
  CASE backend = "OCCStore" ->
         Dispatch(e, req, opnum, OCC!begin, OCC!get, OCC!put, OCC!prepare, OCC!commit, OCC!abortTxn)
    [] backend = "LockStore" ->
         Dispatch(e, req, opnum, LCK!begin, LCK!get, LCK!put, LCK!prepare, LCK!commit, LCK!abortTxn)
    [] backend = "TxnStore" -> TxnStoreExecute(e, req)
    [] backend = "TimeStampServer" -> TssReplicaUpcall(e)

\* Server::RollbackUpcall: the un* method matching one logged request.
UndoDispatch(e, req, opnum, unbegin(_, _), unget(_, _, _), unput(_, _, _, _), unprepare(_, _, _), uncommit(_, _, _, _), unabort(_, _, _)) ==
  CASE req.op = "BEGIN"   -> unbegin(e, req.txnid)
    [] req.op = "GET"     -> unget(e, req.txnid, req.arg0)
    [] req.op = "PUT"     -> unput(e, req.txnid, req.arg0, req.arg1)
    [] req.op = "PREPARE" -> unprepare(e, req.txnid, opnum)
    [] req.op = "COMMIT"  -> uncommit(e, req.txnid, req.ts, opnum)
    [] req.op = "ABORT"   -> unabort(e, req.txnid, opnum)

Undo(e, req, opnum) ==
  CASE backend = "OCCStore" ->
         UndoDispatch(e, req, opnum, OCC!unbegin, OCC!unget, OCC!unput, OCC!unprepare, OCC!uncommit, OCC!unabort)
    [] backend = "LockStore" ->
         UndoDispatch(e, req, opnum, LCK!unbegin, LCK!unget, LCK!unput, LCK!unprepare, LCK!uncommit, LCK!unabort)
    [] backend = "TxnStore" -> e
    [] backend = "TimeStampServer" -> TssUndo(e)

\* Server::CommitUpcall
StoreSpecCommit(e, op) ==
  CASE backend = "OCCStore"  -> OCC!specCommit(e, op)
    [] backend = "LockStore" -> LCK!specCommit(e, op)
    [] backend = "TxnStore"  -> e
    [] backend = "TimeStampServer" -> TssCommitUpcall(e)

\* The engine the Server constructor starts with.
InitEngine ==
  CASE backend = "LockStore"       -> LCK!InitEngine
    [] backend = "TimeStampServer" -> TssInitEngine
    [] OTHER                       -> OCC!InitEngine

\* Undo the ops of l above opnum `to`, iterating the op map in reverse.
RECURSIVE UndoDownTo(_, _, _)
UndoDownTo(e, l, to) ==
  IF Len(l) <= to THEN e
  ELSE UndoDownTo(Undo(e, Last(l).req, Len(l)), Front(l), to)

(***************************************************************************)
(* The client side: where client c stands on this shard, read off the log. *)
(* A PREPARE answered -1 ends the transaction here (the client sends ABORT *)
(* only to the shards that voted yes).                                     *)
(***************************************************************************)
Phase(c) ==
  LET mine == SelectSeq(log, LAMBDA x : x.req.txnid = c)
  IN IF mine = <<>> THEN "idle"
     ELSE LET l == Last(mine)
          IN CASE l.req.op \in {"BEGIN", "GET", "PUT"}        -> "active"
               [] l.req.op = "PREPARE" /\ l.status = 0      -> "prepared"
               [] OTHER                                     -> "idle"

ClientRequests(c) ==
  CASE backend = "TimeStampServer" -> {Req("TIMESTAMP", c, NoValue, NoValue, 0)}
    [] Phase(c) = "idle" -> {Req("BEGIN", c, NoValue, NoValue, 0)}
    [] Phase(c) = "active" ->
         {Req("GET", c, k, NoValue, 0) : k \in Keys}
         \cup {Req("PUT", c, k, v, 0) : k \in Keys, v \in Values}
         \cup {Req("PREPARE", c, NoValue, NoValue, 0)}
    [] Phase(c) = "prepared" ->
         {Req("ABORT", c, NoValue, NoValue, 0)}
         \cup IF tss < MaxTs THEN {Req("COMMIT", c, NoValue, NoValue, tss + 1)} ELSE {}

-----------------------------------------------------------------------------

(***************************************************************************)
(* The server is built with one of the store classes (server.h's two     *)
(* constructors), and the run starts either from a fresh server or, when  *)
(* LoadKeys of that class is not empty, right after some client's         *)
(* transaction BEGIN, PUT k (k in LoadKeys), PREPARE, COMMIT at timestamp *)
(* 1 was executed and declared stable by CommitUpcall: a state the server *)
(* reaches that gives GET something to read.                              *)
(***************************************************************************)
LoadTxn(c) ==
  <<Req("BEGIN", c, NoValue, NoValue, 0)>>
  \o [i \in 1..Cardinality(LoadKeys[backend]) |->
        Req("PUT", c, SetToSeq(LoadKeys[backend])[i], CHOOSE v \in Values : TRUE, 0)]
  \o <<Req("PREPARE", c, NoValue, NoValue, 0), Req("COMMIT", c, NoValue, NoValue, 1)>>

\* Executes reqs one after the other, appending to r's log and history.
RECURSIVE Replay(_, _)
Replay(r, reqs) ==
  IF reqs = <<>> THEN r
  ELSE LET x == Execute(r.engine, Head(reqs), Len(r.log) + 1)
       IN Replay([engine |-> x.engine,
                  log |-> Append(r.log, [req |-> Head(reqs), status |-> x.status,
                                          value |-> x.value]),
                  hist |-> Append(r.hist, x.engine)], Tail(reqs))

Init ==
  /\ backend \in Backends
  /\ \E c \in Clients :
      LET load == IF LoadKeys[backend] = {} THEN <<>> ELSE LoadTxn(c)
          r == Replay([engine |-> InitEngine, log |-> <<>>, hist |-> <<>>], load)
      IN /\ log = r.log
         /\ committed = Len(load)
         /\ engine = StoreSpecCommit(r.engine, Len(load))
         /\ tss = IF load = <<>> THEN 0 ELSE 1
         /\ hist = [i \in DOMAIN r.hist |-> StoreSpecCommit(r.hist[i], Len(load))]

ReplicaUpcall ==
  /\ ~engine.fault
  /\ Len(log) < MaxOps[backend]
  /\ \E c \in Clients : \E req \in ClientRequests(c) :
       LET r == Execute(engine, req, Len(log) + 1)
       IN /\ engine' = r.engine
          /\ log' = Append(log, [req |-> req, status |-> r.status, value |-> r.value])
          /\ hist' = Append(hist, r.engine)
          /\ tss' = IF req.op = "COMMIT" THEN req.ts ELSE tss
          /\ UNCHANGED <<committed, backend>>

RollbackUpcall ==
  /\ ~engine.fault
  /\ \E to \in committed..(Len(log) - 1) :
       /\ engine' = UndoDownTo(engine, log, to)
       /\ log' = SubSeq(log, 1, to)
       /\ hist' = SubSeq(hist, 1, to)
       /\ UNCHANGED <<committed, tss, backend>>

CommitUpcall ==
  /\ ~engine.fault
  /\ \E op \in (committed + 1)..Len(log) :
       /\ committed' = op
       /\ engine' = StoreSpecCommit(engine, op)
       /\ hist' = [i \in DOMAIN hist |-> StoreSpecCommit(hist[i], op)]
       /\ UNCHANGED <<log, tss, backend>>

Next == ReplicaUpcall \/ RollbackUpcall \/ CommitUpcall

Spec == Init /\ [][Next]_vars

-----------------------------------------------------------------------------
(***************************************************************************)
(* Properties                                                              *)
(***************************************************************************)

TxnOK(t) ==
  /\ DOMAIN t.readSet \subseteq Keys
  /\ \A k \in DOMAIN t.readSet :
       IF backend = "LockStore" THEN t.readSet[k] \in 1..MaxOps[backend]
       ELSE t.readSet[k].ts \in 0..MaxTs /\ t.readSet[k].count \in 1..MaxOps[backend]
  /\ DOMAIN t.writeSet \subseteq Keys
  /\ \A k \in DOMAIN t.writeSet : t.writeSet[k] \in Seq(Values)

StoreTypeOK ==
  /\ DOMAIN engine.running \subseteq Clients
  /\ DOMAIN engine.prepared \subseteq Clients
  /\ \A t \in DOMAIN engine.running : TxnOK(engine.running[t])
  /\ \A t \in DOMAIN engine.prepared : TxnOK(engine.prepared[t])
  /\ DOMAIN engine.store \subseteq Keys
  /\ \A r \in Range(engine.retired) :
       \* after an ASSERT the undo loop stops half way: opnums may be stale
       r.op \in 1..(IF engine.fault THEN MaxOps[backend] ELSE Len(log)) /\ r.id \in Clients /\ r.state \in OCC!RetiredStates
  /\ backend = "LockStore" =>
       \A k \in DOMAIN engine.locks :
         k \in Keys /\ engine.locks[k].readers \subseteq Clients
         /\ engine.locks[k].writer \in Clients \cup {NoValue}

TypeOK ==
  /\ log \in Seq([req : Requests, status : {NoValue, 0, -1, -2},
                  value : Values \cup {Garbage, NoValue} \cup 1..MaxOps[backend]])
  /\ Len(log) <= MaxOps[backend]
  /\ committed \in 0..Len(log)
  /\ tss \in 0..MaxTs
  /\ backend \in Backends
  /\ Len(hist) = Len(log)
  /\ engine.fault \in BOOLEAN
  /\ IF backend = "TimeStampServer" THEN engine.ts \in Nat ELSE StoreTypeOK

\* The engine state with every empty write stack and empty version list
\* dropped (what the spec calls the externally observable state).
NonEmpty(s) == s # <<>>
NormTxn(t) == [t EXCEPT !.writeSet = RestrictValues(@, NonEmpty)]
Normalize(e) ==
  [e EXCEPT !.store = RestrictValues(@, NonEmpty),
            !.running = [t \in DOMAIN e.running |-> NormTxn(e.running[t])],
            !.prepared = [t \in DOMAIN e.prepared |-> NormTxn(e.prepared[t])],
            !.retired = [i \in DOMAIN e.retired |-> [e.retired[i] EXCEPT !.txn = NormTxn(@)]]]

\* The engine state the log says the shard should be in.
Expected == IF hist = <<>> THEN InitEngine ELSE Last(hist)

\* An ASSERT that fires aborts the replica process: the properties below
\* speak of a live replica's state, and of a store (not the timestamp
\* server).
Live == ~engine.fault /\ backend # "TimeStampServer"

\* Do/undo symmetry (RollbackUpcall and every un* method of the engine):
\* after any mix of executions, rollbacks to an uncommitted opnum and
\* commit upcalls, the engine equals the state it had right after the last
\* op still in the log, up to empty write stacks and version lists.
RollbackRestores == Live => Normalize(engine) = Normalize(Expected)

\* Do/undo symmetry, exactly, for the transactions: rollback leaves no
\* empty write stack behind (spec: "every un* must exactly reverse its
\* counterpart").
RollbackRestoresTxns ==
  Live => engine.running = Expected.running /\ engine.prepared = Expected.prepared

\* Which transactions the engine holds as running and as prepared agrees
\* with what the clients were told: a client whose last request on this
\* shard was BEGIN, GET or PUT has a running transaction, one whose PREPARE
\* was answered yes has a prepared one, and no other client has either,
\* through prepare's aborts, rollbacks (unbegin, unprepare, uncommit,
\* unabort) and the reuse of a client's txnid for its next transaction.
TxnStatusMatchesLog ==
  Live =>
    /\ DOMAIN engine.running = {c \in Clients : Phase(c) = "active"}
    /\ DOMAIN engine.prepared = {c \in Clients : Phase(c) = "prepared"}

\* The requests of client c's current transaction on this shard: those
\* logged after its last BEGIN.
TxnOps(c) ==
  LET mine == {i \in DOMAIN log : log[i].req.txnid = c}
      start == Max({0} \cup {i \in mine : log[i].req.op = "BEGIN"})
  IN {log[i] : i \in {j \in mine : j > start}}
WroteKeys(c) ==
  {x.req.arg0 : x \in {y \in TxnOps(c) : y.req.op = "PUT" /\ y.status = 0}}
ReadKeys(c) ==
  {x.req.arg0 : x \in {y \in TxnOps(c) : y.req.op = "GET" /\ y.status = 0}}

\* The votes the shard has given are serializable: two clients that both
\* hold a yes to PREPARE (and have neither committed nor aborted) never
\* have one of them PUT a key the other read or wrote, judged from the
\* replies the clients received rather than from the engine's read and
\* write sets.
VotesSerializable ==
  Live =>
    \A c1, c2 \in {c \in Clients : Phase(c) = "prepared"} :
      c1 # c2 => WroteKeys(c1) \cap (ReadKeys(c2) \cup WroteKeys(c2)) = {}

\* The transaction a client holds on the shard, running or prepared.
Held(e) == [t \in DOMAIN e.running \cup DOMAIN e.prepared |->
              IF t \in DOMAIN e.running THEN e.running[t] ELSE e.prepared[t]]
Writer(k) == LCK!LS!LockOf(engine.locks, k).writer
Readers(k) == LCK!LS!LockOf(engine.locks, k).readers

\* The locks cover what the transactions hold, through get/put, commit and
\* abort (dropLocks), rollback (unget, unput, and getLocks in uncommit and
\* unabort) and the reuse of txnids: the read locks are exactly the keys in
\* the read sets of held transactions, and every key with buffered writes
\* is write-locked by its transaction.
LocksCoverTxns ==
  Live /\ backend = "LockStore" =>
    LET h == Held(engine)
    IN \A k \in Keys :
         /\ Readers(k) = {t \in DOMAIN h : k \in DOMAIN h[t].readSet}
         /\ \A t \in DOMAIN h :
              k \in DOMAIN h[t].writeSet /\ h[t].writeSet[k] # <<>> => Writer(k) = t

\* No write lock is leaked: a write lock belongs to a held transaction that
\* has the key in its write set (otherwise nobody will ever release it).
NoLeakedWriteLock ==
  Live /\ backend = "LockStore" =>
    \A k \in Keys :
      Writer(k) # NoValue =>
        Writer(k) \in DOMAIN Held(engine) /\ k \in DOMAIN Held(engine)[Writer(k)].writeSet

\* OCC prepare validation: no prepared transaction writes a key that
\* another prepared transaction reads or writes.
PreparedNoConflict ==
  Live /\ backend = "OCCStore" =>
    \A t1, t2 \in DOMAIN engine.prepared :
      t1 # t2 =>
        DOMAIN engine.prepared[t1].writeSet
          \cap (DOMAIN engine.prepared[t2].readSet \cup DOMAIN engine.prepared[t2].writeSet) = {}

\* Every key a prepared transaction has in its read set still has, as its
\* newest version, the version the transaction read: no commit, and no
\* rollback of one, changed a key under a prepared reader.
PreparedReadsCurrent ==
  Live /\ backend = "OCCStore" =>
    \A t \in DOMAIN engine.prepared :
      \A k \in DOMAIN engine.prepared[t].readSet :
        KV!get(engine.store, k).ts = engine.prepared[t].readSet[k].ts

\* The retired list is exactly the undo record of the log's uncommitted
\* suffix: one entry per COMMIT, ABORT and failed PREPARE above the commit
\* point, in opnum order, tagged with the state it retired from.  This is
\* what the getRetiredTxn/unabort assertions rely on during a rollback.
RetiredState(x) ==
  CASE x.req.op = "COMMIT" -> "COMMITTED"
    [] x.req.op = "ABORT"  -> "ABORTED_PREPARED"
    [] OTHER               -> "ABORTED_RUNNING"
Retires(x) ==
  x.req.op \in {"COMMIT", "ABORT"} \/ (x.req.op = "PREPARE" /\ x.status = -1)
RetiredMatchesLog ==
  Live =>
    /\ {[op |-> r.op, id |-> r.id, state |-> r.state] : r \in Range(engine.retired)}
         = {[op |-> i, id |-> log[i].req.txnid, state |-> RetiredState(log[i])] :
              i \in {j \in (committed + 1)..Len(log) : Retires(log[j])}}
    /\ \A i \in 1..(Len(engine.retired) - 1) : engine.retired[i].op < engine.retired[i + 1].op

\* The timestamp server under speculation (timeserver.cc:37-45): each
\* RollbackUpcall takes back exactly the timestamps of the ops it undoes.
\* The counter always equals the number of ops in the log, and the op at
\* opnum i was answered i.  So after any mix of upcalls, rollbacks and
\* commit upcalls the next timestamp is one no op still in the log holds,
\* and a rolled-back op's timestamp is the only kind ever handed out again.
TimestampsMatchLog ==
  backend = "TimeStampServer" =>
    /\ engine.ts = Len(log)
    /\ \A i \in DOMAIN log : log[i].value = i

\* No ASSERT or NOT_REACHABLE of the engine fires under the client protocol.
NoFault == ~engine.fault

=============================================================================
