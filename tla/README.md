# TLA+ models of NiStore (specpaxos `src/nistore`, `src/timeserver`)

NiStore is a sharded transactional key-value store. It runs cross-shard
two-phase commit (2PC) on top of a replicated state machine (RSM) that may
execute operations speculatively and later roll them back. This directory
holds TLA+ models of the code and TLC configurations that check them.

## 1. The system, as the code builds it

| Part | Source | State | Operations |
|---|---|---|---|
| VersionedKVStore | `nistore/versionedKVStore.{h,cc}` | `unordered_map<key, list<(ts, value)>>`, newest first | `get`, `get(ts)`, `put(ts)`, `remove` |
| OCCStore | `nistore/occstore.{h,cc}` | `store`; `running` and `prepared`: `txnid -> Transaction{readSet: key -> (ts, count), writeSet: key -> stack}`; `retired`: list of `(opnum, RetiredTxn{txn, state})` | `begin/get/put/prepare/commit/abortTxn`, their `un*` inverses, `specCommit` |
| LockStore | `nistore/lockstore.cc` (header absent) | lock table, KVStore, running, prepared, retired | the same do/undo interface, strict 2PL, `-2` when a lock is held |
| LockServer, KVStore | `lockserver.h`, `kvstore.h` (no `.cc`) | lock table; plain map | lock/unlock; get/put/remove |
| TxnStore | `nistore/txnstore.{h,cc}` | none | virtual methods whose base versions only log and return 0 |
| Server (replica shim) | `nistore/server.{h,cc}` | a `TxnStore store` member | `ReplicaUpcall`, `RollbackUpcall`, `CommitUpcall` |
| Client (2PC coordinator) | `nistore/client.{h,cc}` | participants, yes-votes, `nreplies`, `status`, one `cv` | `Begin/Get/Put/Commit/Abort`, one callback per reply, `key_to_shard` |
| Timestamp server | `timeserver/timeserver.cc` | `ts` | upcall `ts++`; rollback `ts--` per undone op; commit no-op |
| benchClient, unreplicated/ | | | workload driver; the non-speculative RSM |

How the parts interact:
- A client sends each shard the requests `BEGIN`, `GET`/`PUT`, `PREPARE`, then
  `COMMIT(ts)` or `ABORT`. Every request uses txnid = client_id.
- The shard's RSM delivers each request as `ReplicaUpcall(opnum)`.
  - It can later undo a suffix of ops with `RollbackUpcall`, newest first.
  - It declares a prefix stable with `CommitUpcall`.
- The shim (Server) turns each upcall into one engine method or its `un*`.
- The engine keeps what it needs for undo:
  - per transaction: read counts and write stacks;
  - in the store: versions;
  - for commits and aborts: a `retired` list tagged with opnum and state.
- The client gets commit timestamps from the timestamp server, which is itself
  an RSM application.

Behaviours that make this hard, and that the models explore:
- the interleaving of several clients' requests on a shard;
- rollbacks of any uncommitted suffix, at any point, interleaved with new
  requests and with `CommitUpcall` trimming the undo list;
- reuse of the txnid across a client's transactions;
- undefined reads of empty `std::list`s;
- ASSERTs that abort the process.

## 2. Modules

| Module | Models | Notes |
|---|---|---|
| `VersionedKVStore` | `versionedKVStore.cc` | A store is a function from the keys in the map to a sequence, newest first. `remove` of the last version keeps the key with `<<>>`, as the code does. `front()` of an empty list is the version `[ts |-> 0, val |-> Garbage]`: the libstdc++ header node's size field is read as the timestamp. |
| `OCCStore` | `occstore.cc` | Each method is an operator from an engine record `[store, running, prepared, retired, fault]` to the next record, or to `[engine, status, value]` for the methods that reply. Because the methods are pure, one `RollbackUpcall` step can fold a whole reversed run of `un*` calls. A failing `ASSERT`/`NOT_REACHABLE` sets `fault`: the process aborts. The operators whose names start with a lower-case verb keep the C++ names. The operators placed just before some of them (`ungetKeepsEntry`, `prepareNoWW`, `unprepareNoRestore`, `uncommitKeepsStore`, `DropBelow`) are mutants: plausible bugs used to show that each property can fail. |
| `Server` | `server.cc`, `txnstore.cc`, `timeserver.cc`'s upcalls, client request order | One RSM application: a shard, or the timestamp server. Its variables are `log` (the requests executed, with their replies; `log[i]` has opnum i), `committed`, `engine`, `tss` and `hist`. `tss` is the last timestamp issued. `hist` is a history variable: `hist[i]` is the engine state right after op i. The actions are `ReplicaUpcall` (any request a client may send next, given the log), `RollbackUpcall` (to any opnum in `committed..Len(log)-1`) and `CommitUpcall`. The variable `backend`, chosen in `Init` from the constant set `Backends`, is the class the constructors of `server.h` build: `"OCCStore"` (`Server()`), `"LockStore"` (`Server(true)`), or `"TxnStore"` (what the by-value member really runs, see finding 4). The fourth class, `"TimeStampServer"`, is the timestamp server's application behind the same upcalls. Its engine is the counter `ts`: `TssReplicaUpcall` is `++ts`, `TssUndo` is one `ts--` per undone op, and `TssCommitUpcall` does nothing. Clients send it the empty request, modelled as `TIMESTAMP`. `timeserver.cc`'s `main` runs it under a SpecReplica with `-m spec`, and that replica rolls back. The log bound `MaxOps` and the keys `LoadKeys` are given per class. `LoadKeys` optionally starts the run after a stably committed loading transaction that wrote those keys, so GETs have something to read. |
| `TxnStore` | `txnstore.h`, shared parts of `occstore.h` | What both backends share: the engine-record helpers (`Set`, `Erase`, `Fail`, `Reply`), the `RetiredState` enum, retired entries, and `Top` (`list::back()`, garbage on an empty list). |
| `LockStore` | `lockstore.cc` | Same shape as `OCCStore`, over `[store, locks, running, prepared, retired, fault]`. A read set maps key to a read count. `get`/`put` take locks and answer `-2` when refused; `commit`/`abortTxn` call `dropLocks`; `uncommit`/`unabort` call `getLocks`, whose `ASSERT`s set `fault`. Its mutants are `ungetKeepsEntry`, `abortTxnKeepsLocks`, `unabortToRunning` and `DropBelow`. |
| `LockServer` | `lockserver.h` (no `.cc`) | A lock table is a partial function key to `[readers, writer]`. `LockState` is derived from it. The grant rules come from spec.md 4.2 (several readers or one writer; a sole reader may upgrade; a holder re-enters). The waiter queue and its timeout only add refusals, which the model already allows. |
| `KVStore` | `kvstore.h` (no `.cc`) | A key maps to a list of values, newest first. `remove` erases the key when its list empties, as spec.md 4.1 asks. |
| `MCServer` | | Model values and symmetry for TLC. |
| `NiStore` | `client.{h,cc}`, `timeserver.cc`, `server.cc`, the benchClient loop | The whole store: clients, shards running `OCCStore` or `LockStore` (the constant `Backend`) through `Server!Execute`, and the timestamp server. See below. |
| `AtomicCommit` | spec.md 4.6 and 6 | The abstract promise of 2PC: per client and shard, `none -> working -> prepared -> committed | aborted`; commit only when every shard of the transaction voted yes, abort only while none committed, a new transaction only when every shard decided. |
| `KeyToShard` | `Client::key_to_shard` | The hash over a 64-bit `unsigned long`, kept as its 8 bytes (TLC integers are 32 bits), with `char` signed or unsigned as a build may choose; `SpecShard` is spec.md's byte hash with unbounded integers. |
| `MCNiStore` | | Model values and the clients' scripts. |

How `Server`'s actions follow the code:
- `ReplicaUpcall` is `Server::ReplicaUpcall`: one engine method per request.
  - `COMMIT` carries the timestamp; `stol(to_string(ts))` is the identity on
    these values.
  - `BEGIN`'s reply status is the uninitialized local, modelled as `NoValue`;
    no client reads it.
- `RollbackUpcall` is `Server::RollbackUpcall`: `opMap` holds the ops above `to`,
  and the `un*` calls run from the newest down (`UndoDownTo`).
- `CommitUpcall` calls `specCommit`. It also applies `specCommit` to every
  `hist` entry, so that `hist` compacts the same way.

The client side is read off the log. `Phase(c)` is idle, active or prepared
(a yes vote was received). `ClientRequests(c)` is what `Client::Get/Put/Commit/Abort`
can send next:
- `ABORT` only after a yes vote, as `Abort()` sends it only to
  `yes_participants`;
- `COMMIT` with the next timestamp of the timestamp server.

A rollback lets clients re-send any request that fits the shortened log. That
over-approximates the RSM's reordering: every order the RSM can produce is
included.

How `NiStore` follows the client (`client.cc`):
- A client has an API thread and a transport thread that share the mutex
  `cv_m` and the condition variable `cv`. Each action holds the mutex for its
  whole length, as the code's scopes do.
- The API thread's actions:
  - `Begin`;
  - `Access`: `Get`/`Put` up to the first `cv.wait`; a new participant is
    sent `BEGIN` first and the operation waits in `pend`;
  - `SendPending` and `ReturnOp`: the rest of `Get`/`Put`;
  - `Commit`: PREPARE to `all_participants`;
  - `PrepareWoken`, then `Decide`: line 267, read without the mutex, so it
    is a separate step;
  - `TssWoken`: `stol` of `replica_reply`, then COMMIT(ts); a non-numeric
    reply throws and the client is `crashed`;
  - `CommitWoken`;
  - `Abort`: ABORT to the yes voters only, returning at once when there are
    none;
  - `AbortWoken`.
- The transport thread's actions are `ShardCallback` (the six shard
  callbacks) and `TssCallback`.
- `notify_all` wakes the API thread only if it is already waiting
  (`signalled`); a notify sent earlier is lost, as with a real condition
  variable. With `Spurious = TRUE`, `cv.wait` may also return with no
  notify.
- The network is a bag: replies come back in any order.
- `ShardExecute` is `Server::ReplicaUpcall` with the `Backend` engine, one shard
  per element of `Shards`. Its `slog` tags each request with the client's
  transaction number.
- `TssExecute` is the timestamp server's `ReplicaUpcall`, i.e. `++ts`.
- The shards' RSMs are taken as non-speculative here. Rollback on a shard
  is `Server`'s subject. The timestamp server always is non-speculative: the
  client builds a `VRClient` for it (`client.cc:38`).
- The application is a per-client `Script` of Get/Put calls, repeated for
  each of the client's `MaxTxns` transactions. This is benchClient's loop
  with its random key choice fixed. `Finished` is the stutter once every
  client has run all its transactions.
- The refinement mapping `RM(c, i)` reads shard i's engine and log:
  - `prepared` or `working` if the engine holds c in `prepared` or `running`;
  - `none` if shard i has executed no request of c's current transaction;
  - otherwise `committed` or `aborted`, by the last such request.

## 3. Runs

| Run | cfg | Expect | Properties | Shows |
|---|---|---|---|---|
| `server` | `MCServer.cfg` | pass | `TypeOK`, `TxnStatusMatchesLog`, `PreparedNoConflict`, `PreparedReadsCurrent`, `RetiredMatchesLog`, `VotesSerializable`, `LocksCoverTxns`, `TimestampsMatchLog` | The application is the nistore server over OCCStore or LockStore, or the timestamp server. Under every interleaving of two clients' requests, rollbacks and commit upcalls, the engine's running/prepared sets match what clients were told, and the retired list is exactly the undo record of the uncommitted suffix. With OCC, prepared transactions stay conflict-free and their reads current. With LockStore, the lock table matches the transactions' read and write sets through commit, abort, rollback and txnid reuse. The timestamp server's counter stays equal to the log length through rollbacks. |
| `occ_unget_self_read` | `MCServer_Unget.cfg` | violation | `RollbackRestores` | Finding 1 |
| `occ_unput_residue` | `MCServer_Unput.cfg` | violation | `RollbackRestoresTxns` | Finding 2 |
| `occ_empty_version_list` | `MCServer_Fault.cfg` | violation | `NoFault` | Finding 3 |
| `server_sliced_store` | `MCServer_Sliced.cfg` | violation | `VotesSerializable` | Finding 4 |
| `lock_leaked_write_lock` | `MCServer_LockLeak.cfg` | violation | `NoLeakedWriteLock` | Finding 5 |
| `lock_unput_refused_put` | `MCServer_LockFault.cfg` | violation | `NoFault` | Finding 6 |
| `key_to_shard_char_sign` | `MCKeyToShard.cfg` | violation | `KeyToShardMatchesSpec` | Finding 7 |
| `nistore` | `MCNiStore.cfg` | pass | `TypeOK`, `CoordinatorAtomicity`, `CommittedWritesStored`, `ImplementsAtomicCommit`, `CallsReturn` | Two clients run conflicting transactions over two OCC shards and the timestamp server. When Commit returns, its result matches every participant. Each key's version list holds exactly the committed writes. The composition implements `AtomicCommit`. Every API call returns. |
| `nistore_empty_commit` | `MCNiStore_EmptyCommit.cfg` | violation | `CallsReturn` | Finding 8 |
| `nistore_spurious_wakeup` | `MCNiStore_Spurious.cfg` | violation | `CoordinatorAtomicity` | Finding 9 |
| `nistore_lock_refused_put` | `MCNiStore_Lock.cfg` | violation | `CommittedWritesStored` | Finding 10 |

The properties, all guarded by `Live` (an aborted process has no state to speak of):
- `TxnStatusMatchesLog`: the domains of `running` and `prepared` are exactly the
  clients whose last request was BEGIN/GET/PUT, and those holding a yes vote.
  It breaks if any `un*`, or prepare's abort path, loses or invents a
  transaction.
- `PreparedNoConflict`: no prepared transaction writes a key that another
  prepared one reads or writes.
- `VotesSerializable`: the same statement, made from the replies in the log
  rather than the engine's sets.
- `PreparedReadsCurrent`: every key in a prepared transaction's read set still
  has the version it read.
- `RetiredMatchesLog`: `retired` equals the set of COMMIT, ABORT and failed
  PREPARE ops above `committed`, with the right state tags and in order.
- `RollbackRestores` and `RollbackRestoresTxns` are the do/undo symmetry of
  spec.md.
  - `RollbackRestores`: the engine equals `hist`'s last state, with empty
    stacks and lists ignored.
  - `RollbackRestoresTxns`: the transactions match exactly.
- `NoFault`: no ASSERT fires.
- `LocksCoverTxns`: the read locks of each key are exactly the held
  transactions that have it in their read set, and each key with a non-empty
  write stack is write-locked by its transaction.
- `NoLeakedWriteLock`: every write lock belongs to a held transaction that
  has the key in its write set.
- `CoordinatorAtomicity` (NiStore): once `Commit` has returned, every
  participant has committed if it returned true, and aborted if it returned
  false. It breaks if the API thread is woken before all replies are in.
- `CommittedWritesStored` (NiStore): at every shard, each key's list of values
  has one entry per committed transaction that called `Put` on it. Under OCC
  the versions are also strictly newest first, one at each commit
  timestamp. This catches `VersionedKVStore::put` silently dropping a write
  (`versionedKVStore.cc:82`) whenever timestamps repeat or arrive out of order,
  and a Put lost before commit (finding 10).
- `ImplementsAtomicCommit` (NiStore): `AtomicCommit!Spec` under `RM`.
- `CallsReturn` (NiStore, liveness): an API thread that waits in `cv.wait`
  eventually returns to the application.
- `TimestampsMatchLog`: for the timestamp server, `ts` equals the number of
  ops in the log, and the op at opnum i was answered i. A `RollbackUpcall`
  that took back too few or too many timestamps (for example the
  "Ignore for now" stub its comment describes) would let the counter drift. It
  would then re-issue a timestamp that an op still in the log holds, or skip
  timestamps. Only a rolled-back op's timestamp is ever issued again.
- `KeyToShardMatchesSpec`: `key_to_shard` equals spec.md's hash of the key's
  bytes.

Each pass-run property has a mutant in `PROJECT.json`: a one-operator change of
the code that TLC shows breaks it.

### Findings

1. **`unget` of a self-read drops an earlier read** (`occstore.cc:156`).
   - Trace: `BEGIN, PUT k, PREPARE, COMMIT@1` (k now has a version), then
     `BEGIN, GET k, PUT k, GET k`, then a rollback of the last two ops.
   - The last GET was answered from the write set. Its `unget` still finds k in
     the read set and erases the first GET's entry.
   - The transaction can then prepare without validating its read of k.
2. **`unput` leaves an empty stack** (`occstore.cc:183`).
   - Trace: `BEGIN, PUT k`, then a rollback of the PUT. `writeSet` keeps
     `k -> <<>>`.
   - A later GET of k returns `back()` of an empty list, and a commit writes it.
3. **An emptied version list crashes the replica** (`versionedKVStore.cc:97`;
   spec.md: "empty list after remove must leave the key absent").
   - Trace: `BEGIN, PUT k, PREPARE, COMMIT@1`, then a rollback to 0.
     `k -> <<>>` stays in the store.
   - Then `BEGIN, GET k` records version 0, read from the list header.
   - The next `GET k` finds no version at ts 0, and `ASSERT(ret)` at
     `occstore.cc:124` aborts.
4. **The server runs no backend at all** (`server.h:40`).
   - `TxnStore store;` is a value, so `store = OCCStore()` slices the engine.
   - Every call runs the base-class logging stubs. Two clients, one reading and
     one writing k1, both get a yes vote.

5. **A rolled-back PUT leaves a write lock nobody releases**
   (`lockstore.cc:194`, with `getLocks` at `lockstore.cc:78`).
   - Trace, after the loading transaction: `BEGIN t1, PUT t1 k1`, then a
     rollback of the PUT. `unput` releases the lock but keeps `k1 -> <<>>`.
   - Then `PREPARE t1, COMMIT t1@2` (writing the garbage `back()`), and a
     rollback to the loading transaction.
   - `uncommit`'s `getLocks` write-locks k1 again. `unprepare` and `unbegin`
     then erase t1, and the lock stays held by no transaction: every later
     GET and PUT of k1 by another client answers `-2`.
6. **Undoing a refused PUT aborts the replica** (`lockstore.cc:202`).
   - Trace: `BEGIN t2, BEGIN t1, GET t1 k1` (read lock), then `PUT t2 k1`,
     answered `-2`, then a rollback.
   - `RollbackUpcall` undoes every logged PUT whatever its reply. t2's write
     set has no k1, so `unput` reaches `NOT_REACHABLE`.

7. **`key_to_shard` depends on the signedness of `char`** (`client.cc:493`).
   - `hash << 1 ^ str[i]` converts a `char` to `unsigned long`.
   - Where `char` is signed (x86-64), a byte >= 0x80 is sign-extended.
   - With 3 shards, the key `<<0x80, 0x00>>` goes to shard 0. spec.md's byte
     hash, and an unsigned-char build (ARM), send it to shard 1.
   - spec.md 4.6 requires routing to be identical across clients.
8. **`Commit` of an empty transaction never returns** (`client.cc:262`).
   - A transaction with no participants sends no PREPARE, so nothing
     notifies the waiting `cv.wait`.
   - `Abort` handles the same case at line 354.
   - benchClient never commits an empty transaction (`-l` must be positive),
     but the `Client` API allows it.
9. **A spurious wakeup strands prepared participants** (`client.cc:262`).
   - No `cv.wait` has a predicate.
   - After an early return, `Commit` decides on partial votes and calls
     `Abort`, which skips the shards that have not voted yet.
   - It returns false, and the late PREPAREs then leave the transaction
     prepared at those shards, with no decision ever sent.
10. **A Put refused by LockStore is lost, and the transaction commits**
    (`client.cc:401`, `lockstore.cc:176`).
    - `putCallback` never reads the reply status. Its comment says "PUTs
      always returns success", which holds for OCCStore only.
    - Trace (NiStore over LockStore): c2 `Get(k2)` finds nothing; c1
      `Put(k2)` takes k2's write lock; c2 `Put(k2)` is answered `-2`
      and not recorded; c2 prepares (LockStore's prepare checks nothing)
      and commits at ts 1.
    - k2 has no value, though c2's Commit goes on to return true.
      spec.md section 7 says a negative status on Put is a client-visible error.

The empty stack of finding 5 also makes `unabort`'s `getLocks` fail its
ASSERT (`lockstore.cc:81`) when another client has read-locked the key
meanwhile. TLC reaches this at `MaxOps = 9`; `NoFault` at `MaxOps = 8`
reports the shorter trace of finding 6 first. After an ASSERT the undo loop
stops half way, so `TypeOK` allows the retired list to keep opnums above the
log's end once `fault` is set.

Not checked by a run: `main` in `server.cc` (lines 219 and 230) tests the
enum constants `PROTO_VR_LOCKING` and `PROTO_SPEC_LOCKING` instead of
`proto`. Both are non-zero, so `-m vr-occ` and `-m spec-occ` build
`Server(true)`, a LockStore server, and `-m fast-occ` builds `Server(false)`,
whose constructor assigns no store at all. No mode builds OCCStore, against
spec.md section 6 ("vr-l/spec-l select LockStore, the others select
OCCStore"). This is a fixed mapping from a flag to a constructor, with no
state or interleaving, so it is recorded here rather than checked. Finding 4
hides it in the program as built.

## 4. Bounds and why they are enough

`MCServer.cfg` uses:
- three application classes, `Backends = {"OCCStore", "LockStore",
  "TimeStampServer"}`;
- two clients, one key and one value;
- `MaxOps`: the log's length, 6 for OCC, 8 for LockStore (below) and 5 for
  the timestamp server. Five ops allow a rollback of several ops after a
  commit upcall, followed by new upcalls;
- `MaxTs = 2`: the timestamps issued.

The run takes about 110 s (2.1M distinct states).

Symmetry is over clients.

The bounds are enough for these reasons:
- Six ops let both clients begin, access the key and prepare (two conflicting
  yes-votes are possible only if validation is wrong).
- Six ops also let one client commit, have the commit rolled back and start
  again.
- Rollbacks can happen after any op, down to `committed`.
- Two keys multiply the state space beyond the run's time budget (more than
  17M states after 10 minutes). Every property relates transactions through a
  shared key, so one key reaches all the conflicts.
- The violation runs use 4 to 8 ops: the shortest traces above need them.
- The LockStore server uses `MaxOps = 8`, four of them the loading transaction
  on the single key k1. That leaves four ops, enough for two transactions to
  meet on k1's locks, for a commit and its rollback, and for both findings'
  traces. `MaxOps = 9` passes as well, but takes 156 s (3.2M states).

Each bound is named in `Server`.
- `ReplicaUpcall` stops at `MaxOps`.
- `COMMIT` is offered only while `tss < MaxTs`.

Deadlock checking is off. The system legitimately stops when the log bound is
reached with everything committed, and after an ASSERT has aborted the process.

`Server` assumes no fairness. The RSM decides when to roll back or commit,
and clients may stop at any time.

`MCNiStore.cfg` uses:
- two clients and two shards, one key on each;
- c1's script `Put(k1), Put(k2)`, a cross-shard transaction, run twice
  (`MaxTxns`), so the same txnid is reused;
- c2's script `Get(k2), Put(k2)`, which conflicts with c1 on s2.

These bounds reach:
- both orders of the two PREPAREs at s2, so either client can be voted down;
- a no vote at s2 with a yes vote at s1, exercising `Abort` to the yes voters
  only;
- both commit paths, and a second commit of k2 at a later timestamp;
- `Access` on a shard already in the transaction (c2's second call).

Free choice of Get/Put and keys per call reached more than 3M states for one
transaction per client. Checking a third call per transaction takes 4
minutes.

`NiStore`'s fairness is weak fairness, per client, on:
- the continuations of an API call (`Resume`): a thread that may run again
  reacquires the mutex;
- the shard callbacks and the timestamp callback: the transport thread runs
  its event loop;
- execution at each shard and at the timestamp server: the RSM clients
  resend a request until it is answered.

The application's own calls (`Begin`, `Get`/`Put`, `Commit`) get no
fairness.

`nistore_lock_refused_put` runs the same clients and scripts over
LockStore shards. c2's `Get(k2)` then `Put(k2)` and c1's `Put(k2)` are
enough for one Put to find the other's lock.

`nistore_empty_commit` turns deadlock checking off. Its property is the hang
itself.

## 5. Not modelled, and the plan

The modules are planned in this order. Each one is added with its own runs.

1. Done: **LockStore + LockServer + KVStore** as a second store class of
   `Server`.
2. Done: the **client**, the **timestamp server**'s upcall, and
   **`key_to_shard`** (`NiStore`, `AtomicCommit`, `KeyToShard`).
3. Done: `NiStore` over the LockStore backend, where `put` can answer `-2`
   and `putCallback` ignores it (finding 10).
4. Next: a shard RSM that rolls back under `NiStore`, composing it with
   `Server`'s `RollbackUpcall`.

These parts are left out:
- rollback of the timestamp server inside `NiStore`: the client always
  reaches it through a `VRClient` (`client.cc:38`). Its rollback is checked
  on its own in `Server`;
- benchClient's statistics and random choices (its loop is `Script`);
- the unreplicated RSM: no program in `src/` builds an `UnreplicatedReplica`.
  Its `HandleRequest` executes each request at opnum 0 and replies, with no
  state of its own, and its client's `.cc` is not in the repository;
- transports, protobuf encoding and `main()` argument parsing: I/O (see the
  note on `server.cc`'s mode switch above).
