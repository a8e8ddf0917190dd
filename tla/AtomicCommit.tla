---------------------------- MODULE AtomicCommit ----------------------------
(***************************************************************************)
(* What NiStore's cross-shard commit promises (spec.md 4.6 and 6,          *)
(* "coordinator atomicity"), with no messages, threads or engines: each    *)
(* client runs one transaction at a time, and each shard it touches moves  *)
(* none -> working -> prepared -> committed | aborted.  A shard commits    *)
(* only when every shard of the transaction has voted yes; a shard aborts  *)
(* only while no shard has committed; the next transaction starts only     *)
(* when every shard of the last one has decided.                           *)
(***************************************************************************)
CONSTANTS Clients, Shards

VARIABLE rm   \* rm[c][i]: state of client c's current transaction at shard i

States == {"none", "working", "prepared", "committed", "aborted"}

TypeOK == rm \in [Clients -> [Shards -> States]]

Init == rm = [c \in Clients |-> [i \in Shards |-> "none"]]

Set(c, i, s) == rm' = [rm EXCEPT ![c][i] = s]

\* No shard of the transaction has voted or decided yet.
Open(c) == \A j \in Shards : rm[c][j] \in {"none", "working"}
NoneCommitted(c) == \A j \in Shards : rm[c][j] # "committed"

Join(c, i) == rm[c][i] = "none" /\ Open(c) /\ Set(c, i, "working")

Prepare(c, i) == rm[c][i] = "working" /\ Set(c, i, "prepared")

\* A shard that votes no aborts its part at once.
Refuse(c, i) == rm[c][i] = "working" /\ NoneCommitted(c) /\ Set(c, i, "aborted")

Commit(c, i) ==
  /\ rm[c][i] = "prepared"
  /\ \A j \in Shards : rm[c][j] \in {"none", "prepared", "committed"}
  /\ Set(c, i, "committed")

Abort(c, i) == rm[c][i] = "prepared" /\ NoneCommitted(c) /\ Set(c, i, "aborted")

NewTxn(c) ==
  /\ \A j \in Shards : rm[c][j] \in {"none", "committed", "aborted"}
  /\ rm' = [rm EXCEPT ![c] = [i \in Shards |-> "none"]]

Next ==
  \E c \in Clients :
    \/ NewTxn(c)
    \/ \E i \in Shards :
         Join(c, i) \/ Prepare(c, i) \/ Refuse(c, i) \/ Commit(c, i) \/ Abort(c, i)

Spec == Init /\ [][Next]_rm

=============================================================================
