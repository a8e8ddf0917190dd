----------------------------- MODULE MCNiStore -----------------------------
EXTENDS NiStore, TLC

CONSTANTS c1, c2, s1, s2, k1, k2, v1

MCClients == {c1, c2}
MCOneClient == {c1}
MCShards == {s1, s2}
MCKeys == {k1, k2}
MCValues == {v1}
\* c1 runs a second transaction under the same txnid after its first
MCMaxTxns == (c1 :> 2) @@ (c2 :> 1)
\* one key on each shard, so that a two-key transaction spans both
MCKeyShard == (k1 :> s1) @@ (k2 :> s2)

Put(k) == [op |-> "PUT", key |-> k]
Get(k) == [op |-> "GET", key |-> k]

\* c1 writes a key on each shard; c2 reads and then writes c1's key on s2,
\* so either may vote the other down there, and a no vote on s2 leaves
\* c1's yes vote on s1 to be aborted.
MCScript == (c1 :> <<Put(k1), Put(k2)>>) @@ (c2 :> <<Get(k2), Put(k2)>>)

\* c1 calls Commit right after Begin, with no Get or Put in between.
MCEmptyScript == (c1 :> << >>) @@ (c2 :> <<Put(k1)>>)

=============================================================================
