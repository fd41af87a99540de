------------------------------- MODULE Ledger -------------------------------
(***************************************************************************)
(* The hash-chained audit ledger (data/sql/03_ledger_triggers.sql).        *)
(* Every transaction that changes state calls audit.append_event once or   *)
(* more (services/ledger_service.py) before it commits, and every such     *)
(* transaction runs beside the others.  An INSERT sees the rows committed  *)
(* when the statement starts and the rows of its own transaction; a number *)
(* of the BIGSERIAL is never given back; the advisory lock is held to the  *)
(* end of the transaction.                                                 *)
(***************************************************************************)
EXTENDS Naturals, FiniteSets, Sequences

CONSTANTS
    Sessions,   \* database sessions that write, one transaction each at a time
    Events,     \* what an entry says: event type, actor and payload
    MaxAppends, \* bound: entries of one transaction
    MaxSeq,     \* bound: numbers drawn in all
    None        \* no session, no verification

VARIABLES
    rows,       \* committed rows of audit.action_ledger
    nextSeq,    \* the BIGSERIAL sequence, which no rollback winds back
    lock,       \* the session that holds pg_advisory_xact_lock('audit_ledger')
    tx,         \* the transaction of each session
    check       \* the run of verify_ledger in progress or finished last

vars == <<rows, nextSeq, lock, tx, check>>

----------------------------------------------------------------------------
\* digest(seq || event || prev_hash) is taken to be injective: a hash stands for the
\* entries that went into it.
Hash == Seq(Nat \X Events)
Digest(seq, event, prevHash) == Append(prevHash, <<seq, event>>)

LedgerRow == [seq: Nat \ {0}, event: Events, prevSeq: Nat, prevHash: Hash, hash: Hash]

Row(seq, event, prev) ==
    [seq |-> seq, event |-> event, prevSeq |-> prev.seq, prevHash |-> prev.hash,
     hash |-> Digest(seq, event, prev.hash)]

\* prev_seq 0 and the 64 zeros that the first row is chained to
Genesis == [seq |-> 0, hash |-> <<>>]

\* SELECT seq, hash ... ORDER BY seq DESC LIMIT 1, Genesis when there is no row
Newest(S) == {r \in S \cup {Genesis} : \A q \in S : q.seq <= r.seq}

Below(S, r) == {q \in S : q.seq < r.seq}

\* The test verify_ledger makes of a row: its predecessor is the row before it in
\* seq order, and its hash is that of its content.
Linked(S, r) == \E p \in Newest(Below(S, r)) : r = Row(r.seq, r.event, p)

Phase == {"idle", "asking", "holding", "inserting", "open"}

\* mine: rows inserted and not yet committed; snap: what the INSERT sees of the others
Transaction == [phase: Phase, mine: SUBSET LedgerRow, snap: SUBSET LedgerRow, seq: Nat]

NoTx == [phase |-> "idle", mine |-> {}, snap |-> {}, seq |-> 0]

Verification == [snap: SUBSET LedgerRow, verified: SUBSET LedgerRow, total: Nat,
                 broken: BOOLEAN, done: BOOLEAN]

(***************************************************************************)
(* None is a value of its own and the bounds are numbers.                  *)
(***************************************************************************)
ASSUME LedgerAssumption ==
    /\ None \notin Sessions
    /\ None \notin Verification
    /\ MaxAppends \in Nat
    /\ MaxSeq \in Nat
----------------------------------------------------------------------------
Init ==
    /\ rows = {}
    /\ nextSeq = 1
    /\ lock = None
    /\ tx = [s \in Sessions |-> NoTx]
    /\ check = None

Asking == {s \in Sessions : tx[s].phase \in {"asking", "holding"}}

\* append_event is called, by a new transaction or by one that appended already.
CallAppend(s) ==
    /\ tx[s].phase \in {"idle", "open"}
    /\ Cardinality(tx[s].mine) < MaxAppends
    /\ nextSeq + Cardinality(Asking) <= MaxSeq
    /\ tx' = [tx EXCEPT ![s].phase = "asking"]
    /\ UNCHANGED <<rows, nextSeq, lock, check>>

\* PERFORM pg_advisory_xact_lock: at once if this transaction holds it already.
TakeLock(s) ==
    /\ tx[s].phase = "asking"
    /\ lock \in {None, s}
    /\ lock' = s
    /\ tx' = [tx EXCEPT ![s].phase = "holding"]
    /\ UNCHANGED <<rows, nextSeq, check>>

\* MUTANT of StartInsert: the application INSERTs directly, as tests/integration/
\* test_ledger.py does, and leaves the lock to the trigger.
StartInsertUnlocked(s) ==
    /\ tx[s].phase \in {"asking", "holding"}
    /\ tx' = [tx EXCEPT ![s].phase = "inserting", ![s].snap = rows, ![s].seq = nextSeq]
    /\ nextSeq' = nextSeq + 1
    /\ UNCHANGED <<rows, lock, check>>

\* MUTANT of StartInsert: the number is read off the sequence but not drawn.
StartInsertCurrval(s) ==
    /\ tx[s].phase = "holding"
    /\ tx' = [tx EXCEPT ![s].phase = "inserting", ![s].snap = rows, ![s].seq = nextSeq]
    /\ UNCHANGED <<rows, nextSeq, lock, check>>

\* The INSERT statement starts: its snapshot is fixed and its number drawn.
StartInsert(s) ==
    /\ tx[s].phase = "holding"
    /\ tx' = [tx EXCEPT ![s].phase = "inserting", ![s].snap = rows, ![s].seq = nextSeq]
    /\ nextSeq' = nextSeq + 1
    /\ UNCHANGED <<rows, lock, check>>

\* fn_seal_ledger_entry: the trigger takes the lock, again or for the first time, and
\* chains the row to the newest one that its statement sees.
Seal(s) ==
    /\ tx[s].phase = "inserting"
    /\ lock \in {None, s}
    /\ lock' = s
    /\ \E e \in Events, p \in Newest(tx[s].snap \cup tx[s].mine) :
         tx' = [tx EXCEPT ![s].phase = "open",
                          ![s].mine = @ \cup {Row(tx[s].seq, e, p)}]
    /\ UNCHANGED <<rows, nextSeq, check>>

\* MUTANT of Release: pg_advisory_lock in place of pg_advisory_xact_lock.
KeepLock(s) == UNCHANGED lock

\* The transaction ends, and with it its hold on the lock.
Release(s) == lock' = IF lock = s THEN None ELSE lock

Commit(s) ==
    /\ tx[s].phase = "open"
    /\ rows' = rows \cup tx[s].mine
    /\ tx' = [tx EXCEPT ![s] = NoTx]
    /\ Release(s)
    /\ UNCHANGED <<nextSeq, check>>

\* An error, a refusal after the append, or the loss of the connection, at any point.
Rollback(s) ==
    /\ tx[s].phase # "idle"
    /\ tx' = [tx EXCEPT ![s] = NoTx]
    /\ Release(s)
    /\ UNCHANGED <<rows, nextSeq, check>>
----------------------------------------------------------------------------
\* GET /ledger/verify begins: SET TRANSACTION ISOLATION LEVEL REPEATABLE READ, and the
\* first query fixes the snapshot that all others read.
VerifyBegin ==
    /\ check # None => check.done
    /\ check' = [snap |-> rows, verified |-> {}, total |-> 0, broken |-> FALSE, done |-> FALSE]
    /\ UNCHANGED <<rows, nextSeq, lock, tx>>

\* MUTANT of Seen: each query of the pass reads what is committed by then.
SeenLive == rows

\* What a query of verify_ledger sees.
Seen == check.snap

\* FOR r IN SELECT ... ORDER BY seq: the next row is compared with its predecessor.
VerifyRow ==
    /\ check # None
    /\ ~check.done /\ ~check.broken
    /\ \E r \in check.snap \ check.verified :
         /\ \A q \in check.snap \ check.verified : r.seq <= q.seq
         /\ check' = IF \E p \in Newest(check.verified) : r = Row(r.seq, r.event, p)
                     THEN [check EXCEPT !.verified = @ \cup {r}]
                     ELSE [check EXCEPT !.broken = TRUE]
    /\ UNCHANGED <<rows, nextSeq, lock, tx>>

\* The loop is over, and the total is counted.
VerifyEnd ==
    /\ check # None
    /\ ~check.done
    /\ check.broken \/ check.verified = check.snap
    /\ check' = [check EXCEPT !.total = Cardinality(Seen), !.done = TRUE]
    /\ UNCHANGED <<rows, nextSeq, lock, tx>>

SessionStep(s) == CallAppend(s) \/ TakeLock(s) \/ StartInsert(s) \/ Seal(s) \/ Commit(s) \/ Rollback(s)

VerifyStep == VerifyBegin \/ VerifyRow \/ VerifyEnd

Next == (\E s \in Sessions : SessionStep(s)) \/ VerifyStep

Spec == Init /\ [][Next]_vars

(***************************************************************************)
(* A transaction that holds the lock runs to its end, and the database     *)
(* grants the lock to those who queue for it.                              *)
(***************************************************************************)
FairSpec ==
    /\ Spec
    /\ \A s \in Sessions : /\ SF_vars(TakeLock(s))
                           /\ WF_vars(StartInsert(s))
                           /\ WF_vars(Seal(s))
                           /\ WF_vars(Commit(s))
----------------------------------------------------------------------------
\* The table, the sequence, the lock, the transactions and the verification have the
\* shape the SQL gives them, and no number is used that was not drawn.
TypeOK ==
    /\ rows \subseteq LedgerRow
    /\ nextSeq \in Nat \ {0}
    /\ lock \in Sessions \cup {None}
    /\ tx \in [Sessions -> Transaction]
    /\ \A s \in Sessions : tx[s].seq < nextSeq
    /\ check = None \/ check \in Verification

\* At every moment the committed rows form one unforked chain: verify_ledger would
\* accept every one of them, whatever transactions ran side by side and whichever of
\* them rolled back (DB-001, 03_ledger_triggers.sql:61-69).
ChainIntact == \A r \in rows : Linked(rows, r)

\* A verification that ran while others appended reports an intact chain and as many
\* rows verified as it counted (API-002, verifier.py:1-3).
VerifierAgrees ==
    check # None /\ check.done
    => ~check.broken /\ check.total = Cardinality(check.verified)

Log == INSTANCE AuditLog WITH log <- {[seq |-> r.seq, event |-> r.event] : r \in rows}

\* The table is an append-only log: a commit adds behind every row a reader may have
\* seen, never between two of them (FR-022, 03_ledger_triggers.sql:70-81).
AppendOnly == Log!Spec

\* Whoever waits for the ledger lock gets it, or gives up: no transaction keeps it
\* beyond its end (ledger_service.py:14-18).
WriterIsServed ==
    \A s \in Sessions : tx[s].phase = "asking" ~> tx[s].phase # "asking"
============================================================================
