------------------------------ MODULE MCServer ------------------------------
EXTENDS Server, TLC

CONSTANTS t1, t2, k1, v1

MCClients == {t1, t2}
MCOneKey == {k1}
MCValues == {v1}

\* Per store class: the log bound and the keys loaded before the run.  A
\* LockStore GET needs a committed version to read, so its runs start
\* from one; OCC and TxnStore start from an empty store.  The timestamp
\* server's log of 5 ops is long enough for upcalls, rollbacks and commit
\* upcalls to interleave several times.
MCMaxOps == ("OCCStore" :> 6) @@ ("LockStore" :> 8) @@ ("TxnStore" :> 6)
            @@ ("TimeStampServer" :> 5)
MCLoadKeys == ("OCCStore" :> {}) @@ ("LockStore" :> MCOneKey) @@ ("TxnStore" :> {})
              @@ ("TimeStampServer" :> {})
\* Longer and shorter logs for the OCC counterexamples.
MCMaxOps8 == [b \in {"OCCStore"} |-> 8]
MCMaxOps4 == [b \in {"OCCStore"} |-> 4]

\* Clients are interchangeable: nothing in the server depends on a txnid's
\* value.
Symmetry == Permutations(MCClients)

=============================================================================
