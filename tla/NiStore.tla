------------------------------- MODULE NiStore -------------------------------
(***************************************************************************)
(* The whole store: clients running the 2PC coordinator of                 *)
(* nistore/client.cc, shards executing their requests with the OCCStore    *)
(* or LockStore engine (Backend) through Server::ReplicaUpcall, and the    *)
(* timestamp server of timeserver/timeserver.cc.                          *)
(*                                                                         *)
(* A client has two threads sharing one mutex and one condition variable: *)
(* the API thread (Begin/Get/Put/Commit/Abort) posts a request and waits   *)
(* on the condition; the transport thread runs the reply callbacks, which  *)
(* update the reply state and notify.  Every step below holds the mutex    *)
(* for its whole length, as the code does.  A notify only wakes a thread   *)
(* that is waiting (signalled); the thread then resumes in a later step,   *)
(* after reacquiring the mutex, so callbacks may run in between.  With     *)
(* Spurious, cv.wait may also return without a notify, as the C++          *)
(* standard allows.                                                        *)
(*                                                                         *)
(* The shards and the timestamp server are reached through their RSM       *)
(* clients, which resend until a reply comes: every request is executed    *)
(* once and answered once, in any order (net is a bag).  The RSMs are run  *)
(* in their non-speculative mode here (the timestamp server always is: the *)
(* client builds a VRClient for it); speculation and rollback of a shard   *)
(* are the subject of Server.                                              *)
(***************************************************************************)
EXTENDS Integers, SequencesExt, BagsExt

CONSTANTS
  Clients,   \* client ids, used as txnids
  Shards,
  Keys,
  Values,
  Garbage,
  NoValue,
  KeyShard,  \* key_to_shard, as a function from Keys to Shards
  Script,    \* the Get/Put calls of each client's transactions, in order
  MaxTxns,   \* bound on the transactions each client runs, per client
  Spurious,  \* whether cv.wait may return without a notify
  Backend    \* the class of every shard's store

ASSUME KeyShard \in [Keys -> Shards] /\ MaxTxns \in [Clients -> Nat]
ASSUME Script \in [Clients -> Seq([op : {"GET", "PUT"}, key : Keys])]
ASSUME Spurious \in BOOLEAN /\ Backend \in {"OCCStore", "LockStore"}

\* Each transaction asks the timestamp server at most once.
MaxTimestamp == FoldFunction(+, 0, MaxTxns)

OCC == INSTANCE OCCStore
SV == INSTANCE Server WITH Backends <- {Backend}, backend <- Backend,
                           MaxOps <- [b \in {Backend} |-> 1],
                           LoadKeys <- [b \in {Backend} |-> {}], MaxTs <- MaxTimestamp,
                           log <- <<>>, committed <- 0, engine <- OCC!InitEngine, tss <- 0,
                           hist <- <<>>

VARIABLES
  pc,         \* where each client's API thread is
  pend,       \* the GET/PUT a Get/Put sends once its BEGIN is answered
  allP,       \* all_participants
  yesP,       \* yes_participants
  nreplies,   \* nreplies
  status,     \* status
  reply,      \* replica_reply
  signalled,  \* the API thread was woken by a notify and has not resumed
  ret,        \* what the last Commit returned (NoValue before it returns)
  txn,        \* transactions begun so far (also tags the requests)
  nops,       \* operations issued in the current transaction
  net,        \* bag of requests and replies in flight
  eng,        \* each shard's engine
  slog,       \* each shard's executed requests, slog[i][n] has opnum n
  tsc         \* TimeStampServer::ts

vars == <<pc, pend, allP, yesP, nreplies, status, reply, signalled, ret, txn, nops,
          net, eng, slog, tsc>>
client == <<pc, pend, allP, yesP, nreplies, status, reply, signalled, ret, txn, nops>>

Waits == {"wait_begin", "wait_op", "wait_prepare", "wait_tss", "wait_commit", "wait_abort"}

Msg(kind, i, c, req, st, val, n) ==
  [kind |-> kind, shard |-> i, client |-> c, req |-> req, status |-> st, value |-> val,
   txn |-> n]
ToShard(i, c, req) == Msg("req", i, c, req, NoValue, NoValue, txn[c])
Send(c, i, op) == BagAdd(net, ToShard(i, c, SV!Req(op, c, NoValue, NoValue, 0)))
SendEach(c, S, req) ==
  FoldSet(LAMBDA i, b : BagAdd(b, ToShard(i, c, req)), net, S)

\* The API thread blocks in cv.wait(lk); the callbacks' notify has not
\* happened yet.
Wait(c, where) ==
  /\ pc' = [pc EXCEPT ![c] = where]
  /\ signalled' = [signalled EXCEPT ![c] = FALSE]

\* cv.wait(lk) has returned.
Woken(c) == signalled[c] \/ Spurious

-----------------------------------------------------------------------------
(* The API thread *)

\* Mutant: Begin clears all_participants but not yes_participants.
BeginKeepsYes(c) ==
  /\ pc[c] = "idle" /\ txn[c] < MaxTxns[c]
  /\ pc' = [pc EXCEPT ![c] = "ready"]
  /\ allP' = [allP EXCEPT ![c] = {}]
  /\ txn' = [txn EXCEPT ![c] = @ + 1]
  /\ nops' = [nops EXCEPT ![c] = 0]
  /\ ret' = [ret EXCEPT ![c] = NoValue]
  /\ UNCHANGED <<pend, yesP, nreplies, status, reply, signalled, net, eng, slog, tsc>>

\* Client::Begin: a new transaction, with no participants yet.
Begin(c) ==
  /\ pc[c] = "idle" /\ txn[c] < MaxTxns[c]
  /\ pc' = [pc EXCEPT ![c] = "ready"]
  /\ allP' = [allP EXCEPT ![c] = {}]
  /\ yesP' = [yesP EXCEPT ![c] = {}]
  /\ txn' = [txn EXCEPT ![c] = @ + 1]
  /\ nops' = [nops EXCEPT ![c] = 0]
  /\ ret' = [ret EXCEPT ![c] = NoValue]
  /\ UNCHANGED <<pend, nreplies, status, reply, signalled, net, eng, slog, tsc>>

TxnLen(c) == Len(Script[c])

\* Client::Get / Client::Put, the script's next call, up to the first
\* wait: a shard not yet in the transaction joins it and is sent BEGIN
\* first.
Access(c, v) ==
  LET s == Script[c][nops[c] + 1]
      req == SV!Req(s.op, c, s.key, IF s.op = "PUT" THEN v ELSE NoValue, 0)
      i == KeyShard[s.key]
  IN /\ pc[c] = "ready" /\ nops[c] < TxnLen(c)
     /\ nops' = [nops EXCEPT ![c] = @ + 1]
     /\ IF i \notin allP[c]
        THEN /\ allP' = [allP EXCEPT ![c] = @ \cup {i}]
             /\ net' = Send(c, i, "BEGIN")
             /\ pend' = [pend EXCEPT ![c] = req]
             /\ Wait(c, "wait_begin")
        ELSE /\ net' = BagAdd(net, ToShard(i, c, req))
             /\ Wait(c, "wait_op")
             /\ UNCHANGED <<allP, pend>>
     /\ UNCHANGED <<yesP, nreplies, status, reply, ret, txn, eng, slog, tsc>>

\* Get/Put after the BEGIN wait: send the operation and wait again.
SendPending(c) ==
  /\ pc[c] = "wait_begin" /\ Woken(c)
  /\ net' = BagAdd(net, ToShard(KeyShard[pend[c].arg0], c, pend[c]))
  /\ Wait(c, "wait_op")
  /\ UNCHANGED <<pend, allP, yesP, nreplies, status, reply, ret, txn, nops, eng, slog, tsc>>

\* Get/Put return (Get's result is status and replica_reply).
ReturnOp(c) ==
  /\ pc[c] = "wait_op" /\ Woken(c)
  /\ pc' = [pc EXCEPT ![c] = "ready"]
  /\ signalled' = [signalled EXCEPT ![c] = FALSE]
  /\ UNCHANGED <<pend, allP, yesP, nreplies, status, reply, ret, txn, nops, net, eng, slog, tsc>>

\* Client::Commit, phase 1: PREPARE to every participant, then wait.
Commit(c) ==
  /\ pc[c] = "ready" /\ nops[c] = TxnLen(c)
  /\ nreplies' = [nreplies EXCEPT ![c] = 0]
  /\ status' = [status EXCEPT ![c] = TRUE]
  /\ net' = SendEach(c, allP[c], SV!Req("PREPARE", c, NoValue, NoValue, 0))
  /\ Wait(c, "wait_prepare")
  /\ UNCHANGED <<pend, allP, yesP, reply, ret, txn, nops, eng, slog, tsc>>

\* The first scope of Commit ends: the mutex is released.
PrepareWoken(c) ==
  /\ pc[c] = "wait_prepare" /\ Woken(c)
  /\ pc' = [pc EXCEPT ![c] = "decide"]
  /\ signalled' = [signalled EXCEPT ![c] = FALSE]
  /\ UNCHANGED <<pend, allP, yesP, nreplies, status, reply, ret, txn, nops, net, eng, slog, tsc>>

\* `if (nreplies == all_participants.size() && status == true)`, read
\* without the mutex, then either ask the timestamp server or Abort().
\* Mutant: the decision ignores the votes.
DecisionIgnoresStatus(c) == nreplies[c] = Cardinality(allP[c])

Decision(c) == nreplies[c] = Cardinality(allP[c]) /\ status[c]

Decide(c) ==
  /\ pc[c] = "decide"
  /\ IF Decision(c)
     THEN /\ net' = BagAdd(net, Msg("tssreq", NoValue, c, NoValue, NoValue, NoValue, txn[c]))
          /\ Wait(c, "wait_tss")
     ELSE /\ pc' = [pc EXCEPT ![c] = "abort"]
          /\ UNCHANGED <<net, signalled>>
  /\ UNCHANGED <<pend, allP, yesP, nreplies, status, reply, ret, txn, nops, eng, slog, tsc>>

\* ts = stol(replica_reply), then COMMIT(ts) to every participant.  stol
\* of a string that is not a number throws, and nothing catches it.
TssWoken(c) ==
  /\ pc[c] = "wait_tss" /\ Woken(c)
  /\ IF reply[c] \in Nat
     THEN /\ nreplies' = [nreplies EXCEPT ![c] = 0]
          /\ net' = SendEach(c, allP[c], SV!Req("COMMIT", c, NoValue, NoValue, reply[c]))
          /\ Wait(c, "wait_commit")
     ELSE /\ pc' = [pc EXCEPT ![c] = "crashed"]
          /\ UNCHANGED <<nreplies, net, signalled>>
  /\ UNCHANGED <<pend, allP, yesP, status, reply, ret, txn, nops, eng, slog, tsc>>

\* Commit returns true.
CommitWoken(c) ==
  /\ pc[c] = "wait_commit" /\ Woken(c)
  /\ pc' = [pc EXCEPT ![c] = "idle"]
  /\ ret' = [ret EXCEPT ![c] = TRUE]
  /\ signalled' = [signalled EXCEPT ![c] = FALSE]
  /\ UNCHANGED <<pend, allP, yesP, nreplies, status, reply, txn, nops, net, eng, slog, tsc>>

\* Client::Abort, called by Commit: ABORT only to the yes voters; with
\* none, return at once.
Abort(c) ==
  LET S == allP[c] \cap yesP[c]
  IN /\ pc[c] = "abort"
     /\ nreplies' = [nreplies EXCEPT ![c] = 0]
     /\ net' = SendEach(c, S, SV!Req("ABORT", c, NoValue, NoValue, 0))
     /\ IF S = {}
        THEN /\ pc' = [pc EXCEPT ![c] = "idle"]
             /\ ret' = [ret EXCEPT ![c] = FALSE]
             /\ UNCHANGED signalled
        ELSE /\ Wait(c, "wait_abort")
             /\ UNCHANGED ret
     /\ UNCHANGED <<pend, allP, yesP, status, reply, txn, nops, eng, slog, tsc>>

\* Abort returns, and Commit returns false.
AbortWoken(c) ==
  /\ pc[c] = "wait_abort" /\ Woken(c)
  /\ pc' = [pc EXCEPT ![c] = "idle"]
  /\ ret' = [ret EXCEPT ![c] = FALSE]
  /\ signalled' = [signalled EXCEPT ![c] = FALSE]
  /\ UNCHANGED <<pend, allP, yesP, nreplies, status, reply, txn, nops, net, eng, slog, tsc>>

-----------------------------------------------------------------------------
(* The transport thread: the reply callbacks *)

\* notify_all wakes the API thread if it is waiting; otherwise it is lost.
Notify(c, cond) ==
  signalled' = [signalled EXCEPT ![c] = @ \/ (cond /\ pc[c] \in Waits)]

Replies == {m \in BagToSet(net) : m.kind = "rep"}

\* Mutant: prepareCallback and commitCallback wake the thread one reply
\* early.
AllRepliedEarly(c, n) == n = Cardinality(allP[c]) - 1

\* `nreplies == all_participants.size()`
AllReplied(c, n) == n = Cardinality(allP[c])

\* Mutant: abortCallback counts against all participants.
AllAbortedAll(c, n) == n = Cardinality(allP[c])

\* `nreplies == yes_participants.size()`
AllAborted(c, n) == n = Cardinality(yesP[c])

\* beginCallback, getCallback, putCallback, prepareCallback,
\* commitCallback and abortCallback, on a reply from shard m.shard.
ShardCallback(m) ==
  LET c == m.client
      op == m.req.op
      n == nreplies[c] + 1
  IN /\ net' = BagRemove(net, m)
     /\ CASE op \in {"BEGIN", "PUT"} ->
               Notify(c, TRUE) /\ UNCHANGED <<status, reply, yesP, nreplies>>
          [] op = "GET" ->
               /\ status' = [status EXCEPT ![c] = m.status >= 0]
               /\ reply' = IF m.status >= 0 THEN [reply EXCEPT ![c] = m.value] ELSE reply
               /\ Notify(c, TRUE)
               /\ UNCHANGED <<yesP, nreplies>>
          [] op = "PREPARE" ->
               /\ IF m.status < 0
                  THEN status' = [status EXCEPT ![c] = FALSE] /\ UNCHANGED yesP
                  ELSE yesP' = [yesP EXCEPT ![c] = @ \cup {m.shard}] /\ UNCHANGED status
               /\ nreplies' = [nreplies EXCEPT ![c] = n]
               /\ Notify(c, AllReplied(c, n))
               /\ UNCHANGED reply
          [] op = "COMMIT" ->
               /\ nreplies' = [nreplies EXCEPT ![c] = n]
               /\ Notify(c, AllReplied(c, n))
               /\ UNCHANGED <<status, reply, yesP>>
          [] op = "ABORT" ->
               /\ nreplies' = [nreplies EXCEPT ![c] = n]
               /\ Notify(c, AllAborted(c, n))
               /\ UNCHANGED <<status, reply, yesP>>
     /\ UNCHANGED <<pc, pend, allP, ret, txn, nops, eng, slog, tsc>>

\* tssCallback: the timestamp, as a string, goes to replica_reply.
TssCallback(m) ==
  LET c == m.client
  IN /\ m.kind = "tssrep"
     /\ net' = BagRemove(net, m)
     /\ reply' = [reply EXCEPT ![c] = m.value]
     /\ Notify(c, TRUE)
     /\ UNCHANGED <<pc, pend, allP, yesP, nreplies, status, ret, txn, nops, eng, slog, tsc>>

-----------------------------------------------------------------------------
(* The shards and the timestamp server *)

\* Server::ReplicaUpcall at shard i, opnum Len(slog[i]) + 1, and the reply
\* it sends back.  A shard whose engine has failed an ASSERT is gone.
ShardExecute(m) ==
  LET i == m.shard
      x == SV!Execute(eng[i], m.req, Len(slog[i]) + 1)
  IN /\ m.kind = "req" /\ ~eng[i].fault
     /\ eng' = [eng EXCEPT ![i] = x.engine]
     /\ slog' = [slog EXCEPT ![i] = Append(@, [req |-> m.req, txn |-> m.txn])]
     /\ net' = IF x.engine.fault THEN BagRemove(net, m)
               ELSE BagAdd(BagRemove(net, m),
                           Msg("rep", i, m.client, m.req, x.status, x.value, m.txn))
     /\ UNCHANGED <<client, tsc>>

\* Mutant: newTimeStamp forgets to increment ts.
newTimeStampNoIncrement(t) == [ts |-> t, ret |-> t]

\* TimeStampServer::newTimeStamp: ++ts, returned as a decimal string.
newTimeStamp(t) == [ts |-> t + 1, ret |-> t + 1]

\* TimeStampServer::ReplicaUpcall: the reply is newTimeStamp().
TssExecute(m) ==
  LET x == newTimeStamp(tsc)
  IN /\ m.kind = "tssreq"
     /\ tsc' = x.ts
     /\ net' = BagAdd(BagRemove(net, m),
                      Msg("tssrep", NoValue, m.client, NoValue, NoValue, x.ret, m.txn))
     /\ UNCHANGED <<client, eng, slog>>

-----------------------------------------------------------------------------

Init ==
  /\ pc = [c \in Clients |-> "idle"]
  /\ pend = [c \in Clients |-> NoValue]
  /\ allP = [c \in Clients |-> {}]
  /\ yesP = [c \in Clients |-> {}]
  /\ nreplies = [c \in Clients |-> 0]
  /\ status = [c \in Clients |-> TRUE]
  /\ reply = [c \in Clients |-> NoValue]
  /\ signalled = [c \in Clients |-> FALSE]
  /\ ret = [c \in Clients |-> NoValue]
  /\ txn = [c \in Clients |-> 0]
  /\ nops = [c \in Clients |-> 0]
  /\ net = EmptyBag
  /\ eng = [i \in Shards |-> SV!InitEngine]
  /\ slog = [i \in Shards |-> <<>>]
  /\ tsc = 0

\* Every client has run its MaxTxns transactions: the run is over.
Finished ==
  /\ \A c \in Clients : pc[c] = "idle" /\ txn[c] = MaxTxns[c]
  /\ UNCHANGED vars

Ops == [op : {"GET"}, txnid : Clients, arg0 : Keys, arg1 : {NoValue}, ts : {0}]
       \cup [op : {"PUT"}, txnid : Clients, arg0 : Keys, arg1 : Values, ts : {0}]

\* The continuations of an API call, once the thread may run again.
Resume(c) ==
  \/ SendPending(c) \/ ReturnOp(c) \/ PrepareWoken(c) \/ Decide(c)
  \/ TssWoken(c) \/ CommitWoken(c) \/ Abort(c) \/ AbortWoken(c)

Next ==
  \/ \E c \in Clients :
       \/ Begin(c) \/ Commit(c) \/ Resume(c)
       \/ \E v \in Values : Access(c, v)
  \/ Finished
  \/ \E m \in BagToSet(net) :
       \/ m \in Replies /\ ShardCallback(m)
       \/ TssCallback(m) \/ ShardExecute(m) \/ TssExecute(m)

(***************************************************************************)
(* Fairness.  The RSM clients resend a request until it is answered, so a  *)
(* shard eventually executes each request and the timestamp server each of *)
(* its requests; the transport thread runs every callback; an API thread   *)
(* that may resume reacquires the mutex.  The application's own calls      *)
(* (Begin, Get/Put, Commit) are not forced.                                *)
(***************************************************************************)
Fairness ==
  /\ \A c \in Clients :
       /\ WF_vars(Resume(c))
       /\ WF_vars(\E m \in Replies : m.client = c /\ ShardCallback(m))
       /\ WF_vars(\E m \in BagToSet(net) : m.client = c /\ TssCallback(m))
       /\ WF_vars(\E m \in BagToSet(net) : m.client = c /\ TssExecute(m))
       /\ \A i \in Shards :
            WF_vars(\E m \in BagToSet(net) : m.client = c /\ m.shard = i /\ ShardExecute(m))

Spec == Init /\ [][Next]_vars /\ Fairness

-----------------------------------------------------------------------------
(* Properties *)

PCs == Waits \cup {"idle", "ready", "decide", "abort", "crashed"}

TypeOK ==
  /\ pc \in [Clients -> PCs]
  /\ pend \in [Clients -> Ops \cup {NoValue}]
  /\ allP \in [Clients -> SUBSET Shards] /\ yesP \in [Clients -> SUBSET Shards]
  /\ \A c \in Clients : yesP[c] \subseteq allP[c]
  /\ nreplies \in [Clients -> 0..Cardinality(Shards)]
  /\ status \in [Clients -> BOOLEAN] /\ signalled \in [Clients -> BOOLEAN]
  /\ reply \in [Clients -> Values \cup {Garbage, NoValue} \cup 1..MaxTimestamp]
  /\ ret \in [Clients -> BOOLEAN \cup {NoValue}]
  /\ \A c \in Clients : txn[c] \in 0..MaxTxns[c] /\ nops[c] \in 0..TxnLen(c)
  /\ IsABag(net)
  /\ slog \in [Shards -> Seq([req : Ops \cup SV!Requests, txn : Nat])]

\* The requests client c sent shard i in its current transaction, in the
\* order the shard executed them.
Mine(c, i) == SelectSeq(slog[i], LAMBDA x : x.req.txnid = c /\ x.txn = txn[c])

\* Where shard i stands in client c's current transaction.
RM(c, i) ==
  CASE c \in DOMAIN eng[i].prepared -> "prepared"
    [] c \in DOMAIN eng[i].running  -> "working"
    [] Mine(c, i) = <<>>            -> "none"
    [] Last(Mine(c, i)).req.op = "COMMIT" -> "committed"
    [] OTHER                        -> "aborted"

\* Coordinator atomicity (spec.md 6), as the program carries it out: when
\* Client::Commit has returned true every participant has committed the
\* transaction, and when it has returned false every participant has
\* aborted it (none is left prepared, holding its OCC reservations).
CoordinatorAtomicity ==
  \A c \in Clients :
    pc[c] = "idle" /\ ret[c] # NoValue =>
      \A i \in allP[c] : RM(c, i) = IF ret[c] THEN "committed" ELSE "aborted"

\* The keys client c's transaction n wrote at shard i before opnum j.
WrittenBefore(i, c, n, j) ==
  {slog[i][h].req.arg0 : h \in {h \in 1..j : slog[i][h].req.op = "PUT" /\
                                 slog[i][h].req.txnid = c /\ slog[i][h].txn = n}}

\* The opnums of the COMMITs at shard i of transactions that wrote k.
CommitsOf(i, k) ==
  {j \in DOMAIN slog[i] : slog[i][j].req.op = "COMMIT" /\
                          k \in WrittenBefore(i, slog[i][j].req.txnid, slog[i][j].txn, j)}

\* Committed writes are durable (spec.md 6): at every shard each key's
\* list of values holds exactly one entry per committed transaction that
\* called Put on the key, so a Commit that returned true lost no Put.
\* Under OCC the list is also in version order: newest first with
\* distinct timestamps, one at each such commit's timestamp.  The
\* timestamp server's ts only grows and OCC never lets two writers of a
\* key be prepared together, so VersionedKVStore::put never meets an
\* older or equal version and never drops a write.
CommittedWritesStored ==
  \A i \in Shards : \A k \in Keys :
    LET vs == IF k \in DOMAIN eng[i].store THEN eng[i].store[k] ELSE << >>
    IN /\ Len(vs) = Cardinality(CommitsOf(i, k))
       /\ Backend = "OCCStore" =>
            /\ \A j \in 1..Len(vs) - 1 : vs[j].ts > vs[j + 1].ts
            /\ \A j \in CommitsOf(i, k) : \E v \in ToSet(vs) : v.ts = slog[i][j].req.ts

\* Every Commit the application calls returns (true or false), and so do
\* Get and Put: no API thread is left blocked in cv.wait.
CallsReturn ==
  \A c \in Clients : pc[c] \notin {"idle", "ready", "crashed"} ~> pc[c] \in {"idle", "ready"}

\* The shards and clients together implement AtomicCommit.
AC == INSTANCE AtomicCommit WITH rm <- [c \in Clients |-> [i \in Shards |-> RM(c, i)]]

ImplementsAtomicCommit == AC!Spec

=============================================================================
