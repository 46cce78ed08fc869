-------------------------- MODULE MCDistributedWrite --------------------------
(* The instances of DistributedWrite that TLC checks. *)
EXTENDS DistributedWrite

CONSTANTS p1, p2, job

NoTxns == [p \in Plan |-> NoTxn]

\* Two runs of one job share a txn.
SameTxn == [p \in Plan |-> job]

\* An append whose files are kept and a guarded overwrite, committed, committed
\* again, aborted and cancelled.
Calls ==
    {[managed |-> m, cap |-> 1, catalog |-> Plan, lastWriterWins |-> {}, empty |-> {},
      keep |-> {p1}, txn |-> NoTxns,
      faults |-> {"applied", "crash", "delete", "cleaned", "detail", "catalog", "publish",
                  "schema", "cancel"}] : m \in BOOLEAN}

\* Requests that take effect after their sender stopped waiting, of two runs of
\* one job, on a table whose catalog never demands a publish.
Late ==
    [managed |-> TRUE, cap |-> 100, catalog |-> {p1}, lastWriterWins |-> {p2}, empty |-> {p1},
     keep |-> {}, txn |-> SameTxn, faults |-> {"late", "crash", "schema", "cancel"}]

\* An append without a txn, the default, whose requests take effect late, beside a
\* guarded overwrite; the catalog demands a publish after two commits.
LateAppends ==
    {[managed |-> m, cap |-> 2, catalog |-> Plan, lastWriterWins |-> {}, empty |-> {},
      keep |-> {}, txn |-> NoTxns, faults |-> {"late", "catalog", "cancel"}] : m \in BOOLEAN}

MCSettings == Calls \cup {Late} \cup LateAppends

\* One such append on a catalog-managed table.
MCLateBackfill == {s \in LateAppends : s.managed}

=============================================================================
