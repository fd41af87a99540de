---------------------------- MODULE Ledger_proofs ----------------------------
(***************************************************************************)
(* For any number of sessions, events and entries: the committed ledger is *)
(* one intact chain, a verification beside the writers accepts it, and the *)
(* ledger implements AuditLog.                                             *)
(*                                                                         *)
(* The argument: only the holder of the advisory lock has uncommitted rows *)
(* or a number in hand (LockHeld).  Its INSERT statement started under the *)
(* lock, so its snapshot is still the whole table and its number is above  *)
(* every row (Drawn); the row it seals therefore extends the chain.        *)
(***************************************************************************)
EXTENDS Ledger, FiniteSetTheorems, TLAPS

Chained(S) == \A r \in S : Linked(S, r)

\* Uncommitted rows and numbers in hand belong to the holder of the lock alone.
LockHeld ==
    \A s \in Sessions :
        tx[s].mine # {} \/ tx[s].phase \in {"holding", "inserting", "open"} => lock = s

\* An INSERT under way sees the whole table, and its number is above every row.
Drawn ==
    \A s \in Sessions :
        tx[s].phase = "inserting"
        => /\ tx[s].snap = rows
           /\ tx[s].seq # 0
           /\ \A r \in rows \cup tx[s].mine : r.seq < tx[s].seq

\* What a transaction would commit is a chain, numbered below the sequence, and its own
\* rows come after every committed one.
MineExtends ==
    \A s \in Sessions :
        /\ Chained(rows \cup tx[s].mine)
        /\ \A r \in rows \cup tx[s].mine : r.seq < nextSeq
        /\ \A q \in rows, r \in tx[s].mine : q.seq < r.seq
        /\ \A q, r \in rows \cup tx[s].mine : q.seq = r.seq => q = r

RowsChained ==
    /\ Chained(rows)
    /\ \A r \in rows : r.seq < nextSeq
    /\ \A q, r \in rows : q.seq = r.seq => q = r

\* A verification has gone through a lower part of a chain and found nothing broken.
CheckSound ==
    check # None =>
        /\ Chained(check.snap)
        /\ IsFiniteSet(check.snap)
        /\ \A q, r \in check.snap : q.seq = r.seq => q = r
        /\ check.verified \subseteq check.snap
        /\ \A q \in check.verified, r \in check.snap \ check.verified : q.seq < r.seq
        /\ check.broken = FALSE
        /\ check.done => check.verified = check.snap /\ check.total = Cardinality(check.snap)

Finite == IsFiniteSet(rows) /\ \A s \in Sessions : IsFiniteSet(tx[s].mine)

IInv == TypeOK /\ Finite /\ LockHeld /\ Drawn /\ MineExtends /\ RowsChained /\ CheckSound
----------------------------------------------------------------------------
(***************************************************************************)
(* Lemmas about chains.                                                    *)
(***************************************************************************)

\* A row is sealed on a predecessor that is a row of the table or Genesis.
LEMMA NewestType ==
    ASSUME NEW S \in SUBSET LedgerRow, NEW p \in Newest(S)
    PROVE  p.seq \in Nat /\ p.hash \in Hash
<1>1. p \in S \/ p = Genesis
    BY DEF Newest
<1>2. CASE p \in S
    <2>1. p \in LedgerRow
        BY <1>2
    <2> QED
        BY <2>1 DEF LedgerRow
<1>3. CASE p = Genesis
    <2>1. << >> \in Hash
        BY DEF Hash
    <2> QED
        BY <1>3, <2>1 DEF Genesis
<1> QED
    BY <1>1, <1>2, <1>3

\* A sealed row is a row of the table.
LEMMA RowType ==
    ASSUME NEW S \in SUBSET LedgerRow, NEW p \in Newest(S),
           NEW n \in Nat \ {0}, NEW e \in Events
    PROVE  Row(n, e, p) \in LedgerRow /\ Row(n, e, p).seq = n /\ Row(n, e, p).event = e
<1>1. p.seq \in Nat /\ p.hash \in Hash
    BY NewestType
<1>2. Append(p.hash, <<n, e>>) \in Hash
    BY <1>1 DEF Hash
<1> QED
    BY <1>1, <1>2 DEF Row, Digest, LedgerRow

\* A row above all others of a chain, sealed on its newest one, extends the chain.
LEMMA SealExtends ==
    ASSUME NEW S \in SUBSET LedgerRow, Chained(S), NEW p \in Newest(S),
           NEW n \in Nat \ {0}, NEW e \in Events, \A q \in S : q.seq < n
    PROVE  Chained(S \cup {Row(n, e, p)})
<1> DEFINE r == Row(n, e, p)
           T == S \cup {r}
<1>1. r \in LedgerRow /\ r.seq = n /\ r.event = e
    BY RowType
<1>2. \A q \in S : q.seq \in Nat
    BY DEF LedgerRow
<1>3. Below(T, r) = S
    BY <1>1, <1>2 DEF Below
<1>4. Linked(T, r)
    BY <1>1, <1>3 DEF Linked
<1>5. ASSUME NEW q \in S PROVE Linked(T, q)
    <2>1. Below(T, q) = Below(S, q)
        BY <1>1, <1>2 DEF Below
    <2> QED
        BY <2>1 DEF Chained, Linked
<1> QED
    BY <1>4, <1>5 DEF Chained
----------------------------------------------------------------------------
(***************************************************************************)
(* The inductive invariant.                                                *)
(***************************************************************************)

LEMMA InitInv == Init => IInv
<1> SUFFICES ASSUME Init PROVE IInv
    OBVIOUS
<1> USE DEF Init
<1>1. TypeOK
    BY LedgerAssumption DEF TypeOK, NoTx, Transaction, Phase
<1>2. Finite
    BY FS_EmptySet DEF Finite, NoTx
<1>3. LockHeld /\ Drawn
    BY DEF LockHeld, Drawn, NoTx
<1>4. MineExtends /\ RowsChained
    BY DEF MineExtends, RowsChained, Chained, NoTx
<1>5. CheckSound
    BY DEF CheckSound
<1> QED
    BY <1>1, <1>2, <1>3, <1>4, <1>5 DEF IInv

\* The numbers of rows are numbers.
LEMMA RowSeq == \A r \in LedgerRow : r.seq \in Nat \ {0}
BY DEF LedgerRow

\* What a transaction sees or would commit is a set of rows.
LEMMA MineType ==
    ASSUME TypeOK, NEW s \in Sessions
    PROVE  tx[s] \in Transaction /\ tx[s].snap \subseteq LedgerRow
           /\ tx[s].mine \subseteq LedgerRow /\ rows \cup tx[s].mine \subseteq LedgerRow
BY DEF TypeOK, Transaction

\* A step that only changes the phase of a transaction, or takes the lock for it.
LEMMA PhaseStep ==
    ASSUME IInv, NEW s \in Sessions, CallAppend(s) \/ TakeLock(s)
    PROVE  IInv'
<1> USE DEF IInv
<1>1. TypeOK'
    BY DEF CallAppend, TakeLock, TypeOK, Transaction, Phase
<1>2. \A t \in Sessions : tx'[t].mine = tx[t].mine /\ tx'[t].snap = tx[t].snap /\ tx'[t].seq = tx[t].seq
    BY DEF CallAppend, TakeLock, TypeOK, Transaction
<1>3. \A t \in Sessions : tx'[t].phase = "inserting" => tx[t].phase = "inserting"
    BY DEF CallAppend, TakeLock, TypeOK, Transaction
<1>4. rows' = rows /\ nextSeq' = nextSeq /\ check' = check
    BY DEF CallAppend, TakeLock
<1>5. Finite'
    BY <1>2, <1>4 DEF Finite
<1>6. LockHeld'
    BY LedgerAssumption DEF CallAppend, TakeLock, TypeOK, Transaction, LockHeld
<1>7. Drawn'
    BY <1>2, <1>3, <1>4 DEF Drawn
<1>8. MineExtends' /\ RowsChained'
    BY <1>2, <1>4 DEF MineExtends, RowsChained
<1>9. CheckSound'
    BY <1>4 DEF CheckSound, Chained
<1> QED
    BY <1>1, <1>5, <1>6, <1>7, <1>8, <1>9

\* The INSERT statement starts under the lock: nothing is committed behind its back.
LEMMA StartStep ==
    ASSUME IInv, NEW s \in Sessions, StartInsert(s)
    PROVE  IInv'
<1> USE DEF IInv
<1>1. TypeOK'
    BY DEF StartInsert, TypeOK, Transaction, Phase
<1>2. \A t \in Sessions : tx'[t].mine = tx[t].mine
    BY DEF StartInsert, TypeOK, Transaction
<1>3. rows' = rows /\ nextSeq' = nextSeq + 1 /\ lock' = lock /\ check' = check
    BY DEF StartInsert
<1>4. Finite'
    BY <1>2, <1>3 DEF Finite
<1>5. LockHeld'
    BY DEF StartInsert, TypeOK, Transaction, LockHeld
<1>6. Drawn'
    <2> SUFFICES ASSUME NEW t \in Sessions, tx'[t].phase = "inserting"
                 PROVE  /\ tx'[t].snap = rows
                        /\ tx'[t].seq # 0
                        /\ \A r \in rows \cup tx[t].mine : r.seq < tx'[t].seq
        BY <1>2, <1>3 DEF Drawn
    <2>1. CASE t = s
        BY <2>1 DEF StartInsert, TypeOK, Transaction, MineExtends
    <2>2. CASE t # s
        BY <2>2 DEF StartInsert, TypeOK, Transaction, Drawn
    <2> QED
        BY <2>1, <2>2
<1>7. MineExtends' /\ RowsChained'
    <2>1. \A t \in Sessions : \A r \in rows \cup tx[t].mine : r.seq \in Nat
        <3> TAKE t \in Sessions
        <3>1. rows \cup tx[t].mine \subseteq LedgerRow
            BY MineType
        <3> QED
            BY <3>1, RowSeq
    <2>2. \A t \in Sessions : \A r \in rows \cup tx[t].mine : r.seq < nextSeq + 1
        <3>1. nextSeq \in Nat
            BY DEF TypeOK
        <3>2. \A t \in Sessions : \A r \in rows \cup tx[t].mine : r.seq < nextSeq
            BY DEF MineExtends
        <3> QED
            BY <2>1, <3>1, <3>2
    <2>3. \A r \in rows : r.seq < nextSeq + 1
        BY DEF RowsChained, TypeOK, LedgerRow
    <2> QED
        BY <1>2, <1>3, <2>2, <2>3 DEF MineExtends, RowsChained
<1>8. CheckSound'
    BY <1>3 DEF CheckSound, Chained
<1> QED
    BY <1>1, <1>4, <1>5, <1>6, <1>7, <1>8

\* The sealed row extends the chain of everything its transaction can see.
LEMMA SealStep ==
    ASSUME IInv, NEW s \in Sessions, Seal(s)
    PROVE  IInv'
<1> USE DEF IInv
<1> DEFINE T == rows \cup tx[s].mine
           n == tx[s].seq
<1>1. /\ tx[s].snap = rows
      /\ n \in Nat \ {0}
      /\ \A r \in T : r.seq < n
    BY MineType DEF Seal, Drawn, Transaction
<1>2. T \subseteq LedgerRow
    BY MineType
<1>3. PICK e \in Events, p \in Newest(T) :
        tx' = [tx EXCEPT ![s].phase = "open", ![s].mine = @ \cup {Row(n, e, p)}]
    BY <1>1 DEF Seal
<1> DEFINE r == Row(n, e, p)
<1>4. r \in LedgerRow /\ r.seq = n /\ r.event = e
    BY <1>1, <1>2, RowType
<1> HIDE DEF r
<1>5. tx \in [Sessions -> Transaction]
    BY DEF TypeOK
<1>6. /\ tx'[s].mine = tx[s].mine \cup {r}
      /\ tx'[s].phase = "open"
      /\ \A t \in Sessions : tx'[t].snap = tx[t].snap /\ tx'[t].seq = tx[t].seq
      /\ \A t \in Sessions \ {s} : tx'[t] = tx[t]
    BY <1>3, <1>5 DEF Transaction, r
<1>7. tx' \in [Sessions -> Transaction]
    BY <1>3, <1>4, <1>5 DEF Transaction, Phase, r
<1>8. rows' = rows /\ nextSeq' = nextSeq /\ check' = check /\ lock' = s /\ lock \in {None, s}
    BY DEF Seal
<1>9. TypeOK'
    BY <1>6, <1>7, <1>8 DEF TypeOK
<1>10. Finite'
    BY <1>6, <1>8, FS_AddElement DEF Finite
<1>11. \A t \in Sessions \ {s} : tx[t].mine = {} /\ tx[t].phase \notin {"holding", "inserting", "open"}
    BY <1>8, LedgerAssumption DEF LockHeld
<1>12. LockHeld'
    BY <1>6, <1>8, <1>11 DEF LockHeld
<1>13. Drawn'
    BY <1>6, <1>8, <1>11 DEF Drawn
<1>14. RowsChained'
    BY <1>8 DEF RowsChained
<1>15. MineExtends'
    <2> SUFFICES ASSUME NEW t \in Sessions
                 PROVE  /\ Chained(rows \cup tx'[t].mine)
                        /\ \A q \in rows \cup tx'[t].mine : q.seq < nextSeq
                        /\ \A q \in rows, o \in tx'[t].mine : q.seq < o.seq
                        /\ \A q, o \in rows \cup tx'[t].mine : q.seq = o.seq => q = o
        BY <1>8 DEF MineExtends
    <2>1. CASE t # s
        BY <2>1, <1>6 DEF MineExtends
    <2>2. CASE t = s
        <3>1. rows \cup tx'[t].mine = T \cup {r}
            BY <2>2, <1>6
        <3>2. Chained(T) /\ \A q \in T : q.seq < nextSeq
            BY DEF MineExtends
        <3>3. Chained(T \cup {r})
            BY <3>2, <1>1, <1>2, SealExtends DEF r
        <3>4. n < nextSeq
            BY DEF TypeOK
        <3>5. \A q \in T \cup {r} : q.seq < nextSeq
            BY <3>2, <3>4, <1>4
        <3>6. \A q \in rows, o \in tx'[t].mine : q.seq < o.seq
            BY <2>2, <1>1, <1>4, <1>6 DEF MineExtends
        <3>7. \A q \in T : q.seq \in Nat
            BY <1>2, RowSeq
        <3>8. \A q, o \in T \cup {r} : q.seq = o.seq => q = o
            <4>1. \A q, o \in T : q.seq = o.seq => q = o
                BY DEF MineExtends
            <4>2. \A q \in T : q.seq # r.seq
                BY <3>7, <1>1, <1>4
            <4> QED
                BY <4>1, <4>2
        <3> QED
            BY <3>1, <3>3, <3>5, <3>6, <3>8
    <2> QED
        BY <2>1, <2>2
<1>16. CheckSound'
    BY <1>8 DEF CheckSound
<1> QED
    BY <1>9, <1>10, <1>12, <1>13, <1>14, <1>15, <1>16

\* Commit and rollback: the other sessions have no row in hand, for they lack the lock.
LEMMA EndStep ==
    ASSUME IInv, NEW s \in Sessions, Commit(s) \/ Rollback(s)
    PROVE  IInv'
<1> USE DEF IInv
<1>1. tx \in [Sessions -> Transaction] /\ tx' = [tx EXCEPT ![s] = NoTx]
    BY DEF Commit, Rollback, TypeOK
<1>2. /\ tx'[s] = NoTx
      /\ \A t \in Sessions \ {s} : tx'[t] = tx[t]
    BY <1>1
<1>3. /\ rows' = rows \/ rows' = rows \cup tx[s].mine
      /\ nextSeq' = nextSeq /\ check' = check
      /\ lock' = IF lock = s THEN None ELSE lock
    BY DEF Commit, Rollback, Release
<1>4. CASE rows' = rows
    <2>1. TypeOK'
        BY <1>1, <1>2, <1>3, <1>4, LedgerAssumption DEF TypeOK, NoTx, Transaction, Phase
    <2>2. Finite'
        BY <1>2, <1>4, FS_EmptySet DEF Finite, NoTx
    <2>3. LockHeld'
        BY <1>2, <1>3 DEF LockHeld, NoTx
    <2>4. Drawn'
        BY <1>2, <1>4 DEF Drawn, NoTx
    <2>5. RowsChained'
        BY <1>3, <1>4 DEF RowsChained
    <2>6. MineExtends'
        <3> SUFFICES ASSUME NEW t \in Sessions
                     PROVE  /\ Chained(rows \cup tx'[t].mine)
                            /\ \A q \in rows \cup tx'[t].mine : q.seq < nextSeq
                            /\ \A q \in rows, o \in tx'[t].mine : q.seq < o.seq
                            /\ \A q, o \in rows \cup tx'[t].mine : q.seq = o.seq => q = o
            BY <1>3, <1>4 DEF MineExtends
        <3>1. CASE t # s
            BY <3>1, <1>2 DEF MineExtends
        <3>2. CASE t = s
            <4>1. tx'[t].mine = {}
                BY <3>2, <1>2 DEF NoTx
            <4>2. rows \cup tx'[t].mine = rows
                BY <4>1
            <4> QED
                BY <4>1, <4>2 DEF RowsChained
        <3> QED
            BY <3>1, <3>2
    <2>7. CheckSound'
        BY <1>3 DEF CheckSound
    <2> QED
        BY <2>1, <2>2, <2>3, <2>4, <2>5, <2>6, <2>7
<1>5. CASE Commit(s)
    <2> DEFINE T == rows \cup tx[s].mine
    <2>1. rows' = T /\ tx[s].phase = "open"
        BY <1>5 DEF Commit
    <2>2. lock = s
        BY <2>1 DEF LockHeld
    <2>3. \A t \in Sessions \ {s} : tx[t].mine = {} /\ tx[t].phase \notin {"holding", "inserting", "open"}
        BY <2>2 DEF LockHeld
    <2>4. \A t \in Sessions : tx'[t].mine = {} /\ tx'[t].phase \notin {"holding", "inserting", "open"}
        BY <2>3, <1>2 DEF NoTx
    <2>5. TypeOK'
        <3>1. T \subseteq LedgerRow
            BY MineType
        <3>2. tx' \in [Sessions -> Transaction]
            BY <1>1 DEF NoTx, Transaction, Phase
        <3>3. \A t \in Sessions : tx'[t].seq < nextSeq
            BY <1>2 DEF TypeOK, NoTx
        <3> QED
            BY <3>1, <3>2, <3>3, <2>1, <1>3 DEF TypeOK
    <2>6. Finite'
        BY <2>1, <2>4, FS_EmptySet, FS_Union DEF Finite
    <2>7. LockHeld' /\ Drawn'
        BY <2>4 DEF LockHeld, Drawn
    <2>8. RowsChained'
        BY <2>1, <1>3 DEF RowsChained, MineExtends
    <2>9. MineExtends'
        <3>1. T \cup {} = T
            OBVIOUS
        <3> QED
            BY <2>1, <2>4, <1>3, <3>1 DEF MineExtends
    <2>10. CheckSound'
        BY <1>3 DEF CheckSound
    <2> QED
        BY <2>5, <2>6, <2>7, <2>8, <2>9, <2>10
<1> QED
    BY <1>4, <1>5 DEF Commit, Rollback

\* A verification begins on the committed rows, which are a chain.
LEMMA VerifyBeginStep ==
    ASSUME IInv, VerifyBegin
    PROVE  IInv'
<1> USE DEF IInv
<1>1. rows' = rows /\ nextSeq' = nextSeq /\ lock' = lock /\ tx' = tx
    BY DEF VerifyBegin
<1>2. check' = [snap |-> rows, verified |-> {}, total |-> 0, broken |-> FALSE, done |-> FALSE]
    BY DEF VerifyBegin
<1>3. TypeOK'
    BY <1>1, <1>2 DEF TypeOK, Verification
<1>4. Finite' /\ LockHeld' /\ Drawn' /\ MineExtends' /\ RowsChained'
    BY <1>1 DEF Finite, LockHeld, Drawn, MineExtends, RowsChained
<1>5. CheckSound'
    BY <1>2 DEF CheckSound, RowsChained, Finite
<1> QED
    BY <1>3, <1>4, <1>5

\* The next row of a chain is linked to the newest of the rows verified before it.
LEMMA VerifyRowStep ==
    ASSUME IInv, VerifyRow
    PROVE  IInv'
<1> USE DEF IInv
<1>1. rows' = rows /\ nextSeq' = nextSeq /\ lock' = lock /\ tx' = tx
    BY DEF VerifyRow
<1>2. check # None /\ check \in Verification /\ check.done = FALSE
    BY DEF VerifyRow, TypeOK, Verification
<1> DEFINE snap == check.snap
           seen == check.verified
<1>3. PICK r \in snap \ seen :
        /\ \A q \in snap \ seen : r.seq <= q.seq
        /\ check' = IF \E p \in Newest(seen) : r = Row(r.seq, r.event, p)
                    THEN [check EXCEPT !.verified = @ \cup {r}]
                    ELSE [check EXCEPT !.broken = TRUE]
    BY DEF VerifyRow
<1>4. snap \subseteq LedgerRow /\ \A q \in snap : q.seq \in Nat
    BY <1>2, RowSeq DEF Verification
<1>5. /\ Chained(snap) /\ IsFiniteSet(snap)
      /\ \A q, o \in snap : q.seq = o.seq => q = o
      /\ seen \subseteq snap
      /\ \A q \in seen, o \in snap \ seen : q.seq < o.seq
      /\ check.broken = FALSE
    BY <1>2 DEF CheckSound
<1>6. Below(snap, r) = seen
    BY <1>3, <1>4, <1>5 DEF Below
<1>7. \E p \in Newest(seen) : r = Row(r.seq, r.event, p)
    BY <1>3, <1>5, <1>6 DEF Chained, Linked
<1>8. check' = [check EXCEPT !.verified = @ \cup {r}]
    BY <1>3, <1>7
<1>9. /\ check' \in Verification
      /\ check'.snap = snap /\ check'.verified = seen \cup {r}
      /\ check'.broken = FALSE /\ check'.done = FALSE
    BY <1>2, <1>3, <1>4, <1>5, <1>8 DEF Verification
<1>10. \A q \in seen \cup {r}, o \in snap \ (seen \cup {r}) : q.seq < o.seq
    <2> SUFFICES ASSUME NEW o \in snap \ (seen \cup {r})
                 PROVE  r.seq < o.seq
        BY <1>5
    <2>1. r.seq <= o.seq /\ r.seq # o.seq
        BY <1>3, <1>5
    <2> QED
        BY <2>1, <1>3, <1>4
<1>11. TypeOK'
    BY <1>1, <1>9 DEF TypeOK
<1>12. Finite' /\ LockHeld' /\ Drawn' /\ MineExtends' /\ RowsChained'
    BY <1>1 DEF Finite, LockHeld, Drawn, MineExtends, RowsChained
<1>13. CheckSound'
    <2>1. seen \cup {r} \subseteq snap
        BY <1>3, <1>5
    <2> QED
        BY <1>5, <1>9, <1>10, <2>1 DEF CheckSound
<1> QED
    BY <1>11, <1>12, <1>13

\* A verification ends when it has seen its whole snapshot.
LEMMA VerifyEndStep ==
    ASSUME IInv, VerifyEnd
    PROVE  IInv'
<1> USE DEF IInv
<1>1. rows' = rows /\ nextSeq' = nextSeq /\ lock' = lock /\ tx' = tx
    BY DEF VerifyEnd
<1>2. check # None /\ check \in Verification /\ check.verified = check.snap
    BY DEF VerifyEnd, TypeOK, CheckSound
<1>3. Cardinality(check.snap) \in Nat
    BY <1>2, FS_CardinalityType DEF CheckSound
<1>4. check' = [check EXCEPT !.total = Cardinality(check.snap), !.done = TRUE]
    BY DEF VerifyEnd, Seen
<1>5. /\ check' \in Verification
      /\ check'.snap = check.snap /\ check'.verified = check.snap
      /\ check'.broken = check.broken
      /\ check'.total = Cardinality(check.snap)
    BY <1>2, <1>3, <1>4 DEF Verification
<1>6. TypeOK'
    BY <1>1, <1>5 DEF TypeOK
<1>7. Finite' /\ LockHeld' /\ Drawn' /\ MineExtends' /\ RowsChained'
    BY <1>1 DEF Finite, LockHeld, Drawn, MineExtends, RowsChained
<1>8. CheckSound'
    BY <1>2, <1>5 DEF CheckSound
<1> QED
    BY <1>6, <1>7, <1>8

LEMMA StepInv == IInv /\ [Next]_vars => IInv'
<1> SUFFICES ASSUME IInv, [Next]_vars PROVE IInv'
    OBVIOUS
<1>1. ASSUME NEW s \in Sessions, SessionStep(s) PROVE IInv'
    BY <1>1, PhaseStep, StartStep, SealStep, EndStep DEF SessionStep
<1>2. CASE VerifyStep
    BY <1>2, VerifyBeginStep, VerifyRowStep, VerifyEndStep DEF VerifyStep
<1>3. CASE UNCHANGED vars
    BY <1>3 DEF vars, IInv, TypeOK, Finite, LockHeld, Drawn, MineExtends, RowsChained, CheckSound
<1> QED
    BY <1>1, <1>2, <1>3 DEF Next

LEMMA Inductive == Spec => []IInv
BY InitInv, StepInv, PTL DEF Spec
----------------------------------------------------------------------------
(***************************************************************************)
(* The results.                                                            *)
(***************************************************************************)

\* The tables, the transactions and the verification keep their shape.
THEOREM LedgerTypeOK == Spec => []TypeOK
<1>1. IInv => TypeOK
    BY DEF IInv
<1> QED
    BY <1>1, Inductive, PTL

\* The committed ledger is one unforked chain at every moment, however many sessions
\* append beside each other and whichever of them roll back (03_ledger_triggers.sql).
THEOREM LedgerChainIntact == Spec => []ChainIntact
<1>1. IInv => ChainIntact
    BY DEF IInv, RowsChained, Chained, ChainIntact
<1> QED
    BY <1>1, Inductive, PTL

\* A verification beside the writers finds the chain intact and counts what it verified
\* (verifier.py, verify_ledger).
THEOREM LedgerVerifierAgrees == Spec => []VerifierAgrees
<1>1. IInv => VerifierAgrees
    BY DEF IInv, CheckSound, VerifierAgrees
<1> QED
    BY <1>1, Inductive, PTL

\* From its first append to its end a transaction runs alone among those that append: no
\* two have entries to commit, and while one has, no other draws a number or seals a row
\* (pg_advisory_xact_lock, 03_ledger_triggers.sql:75).  PlanLifecycle rests on it where it
\* takes what follows the first append of a handler for one step.
THEOREM LedgerOneWriter ==
    Spec => [][\A s, t \in Sessions :
                 s # t /\ tx[s].mine # {}
                 => /\ tx[t].mine = {} /\ tx'[t].mine = {}
                    /\ tx[t].phase # "inserting"
                    /\ ~Commit(t)]_vars
<1> DEFINE Alone ==
       \A s, t \in Sessions :
         s # t /\ tx[s].mine # {}
         => /\ tx[t].mine = {} /\ tx'[t].mine = {}
            /\ tx[t].phase # "inserting"
            /\ ~Commit(t)
<1>1. IInv /\ [Next]_vars => Alone
    <2> SUFFICES ASSUME IInv, [Next]_vars, NEW s \in Sessions, NEW t \in Sessions,
                        s # t, tx[s].mine # {}
                 PROVE  /\ tx[t].mine = {} /\ tx'[t].mine = {}
                        /\ tx[t].phase # "inserting"
                        /\ ~Commit(t)
        OBVIOUS
    <2>1. lock = s
        BY DEF IInv, LockHeld
    <2>2. tx[t].mine = {} /\ tx[t].phase \notin {"inserting", "open"}
        BY <2>1 DEF IInv, LockHeld
    <2>3. tx \in [Sessions -> Transaction]
        BY DEF IInv, TypeOK
    <2>4. ASSUME NEW u \in Sessions, SessionStep(u) PROVE tx'[t].mine = {}
        <3>1. CASE u # t
            <4>1. tx'[t] = tx[t]
                BY <2>3, <2>4, <3>1 DEF SessionStep, CallAppend, TakeLock, StartInsert, Seal, Commit,
                                        Rollback
            <4> QED
                BY <2>2, <4>1
        <3>2. CASE u = t
            <4>1. ~Seal(t) /\ ~Commit(t)
                BY <2>2 DEF Seal, Commit
            <4>2. tx[t] \in Transaction
                BY <2>3
            <4>3. CASE Rollback(t)
                BY <2>3, <4>3 DEF Rollback, NoTx
            <4>4. CASE CallAppend(t) \/ TakeLock(t) \/ StartInsert(t)
                <5>1. tx'[t].mine = tx[t].mine
                    BY <2>3, <4>2, <4>4 DEF CallAppend, TakeLock, StartInsert, Transaction
                <5> QED
                    BY <2>2, <5>1
            <4> QED
                BY <2>4, <3>2, <4>1, <4>3, <4>4 DEF SessionStep
        <3> QED
            BY <3>1, <3>2
    <2>5. ASSUME UNCHANGED tx PROVE tx'[t].mine = {}
        BY <2>2, <2>5
    <2>6. ASSUME VerifyStep PROVE tx'[t].mine = {}
        <3>1. UNCHANGED tx
            BY <2>6 DEF VerifyStep, VerifyBegin, VerifyRow, VerifyEnd
        <3> QED
            BY <3>1, <2>5
    <2>7. tx'[t].mine = {}
        BY <2>4, <2>5, <2>6 DEF Next, vars
    <2>8. ~Commit(t)
        BY <2>2 DEF Commit
    <2> QED
        BY <2>2, <2>7, <2>8
<1> QED
    BY <1>1, Inductive, PTL DEF Spec

\* The ledger implements AuditLog: a commit adds entries behind all those that a reader
\* may have seen, and a rollback adds none.
THEOREM LedgerAppendOnly == Spec => AppendOnly
<1> DEFINE Entries(S) == {[seq |-> r.seq, event |-> r.event] : r \in S}
<1>1. Init => Log!Init
    BY DEF Init, Log!Init
<1>2. IInv /\ [Next]_vars => [Log!Append]_(Entries(rows))
    <2> SUFFICES ASSUME IInv, [Next]_vars PROVE [Log!Append]_(Entries(rows))
        OBVIOUS
    <2>1. CASE rows' = rows
        BY <2>1
    <2>2. ASSUME NEW s \in Sessions, Commit(s) PROVE Log!Append
        <3>1. rows' = rows \cup tx[s].mine
            BY <2>2 DEF Commit
        <3>2. Entries(rows) \subseteq Entries(rows')
            BY <3>1
        <3>3. \A e \in Entries(rows') \ Entries(rows), f \in Entries(rows) : f.seq < e.seq
            <4> SUFFICES ASSUME NEW e \in Entries(rows') \ Entries(rows), NEW f \in Entries(rows)
                         PROVE  f.seq < e.seq
                OBVIOUS
            <4>1. PICK r \in rows' : e = [seq |-> r.seq, event |-> r.event]
                OBVIOUS
            <4>2. PICK q \in rows : f = [seq |-> q.seq, event |-> q.event]
                OBVIOUS
            <4>3. r \in tx[s].mine
                BY <4>1, <3>1
            <4>4. q.seq < r.seq
                BY <4>3 DEF IInv, MineExtends
            <4> QED
                BY <4>1, <4>2, <4>4
        <3>4. \A e, f \in Entries(rows') : e.seq = f.seq => e = f
            <4> SUFFICES ASSUME NEW e \in Entries(rows'), NEW f \in Entries(rows'), e.seq = f.seq
                         PROVE  e = f
                OBVIOUS
            <4>1. PICK r \in rows' : e = [seq |-> r.seq, event |-> r.event]
                OBVIOUS
            <4>2. PICK q \in rows' : f = [seq |-> q.seq, event |-> q.event]
                OBVIOUS
            <4>3. r.seq = q.seq
                BY <4>1, <4>2
            <4>4. r = q
                BY <4>3, <3>1 DEF IInv, MineExtends
            <4> QED
                BY <4>1, <4>2, <4>4
        <3> QED
            BY <3>2, <3>3, <3>4 DEF Log!Append, Log!Numbered
    <2>3. rows' = rows \/ \E s \in Sessions : Commit(s)
        BY DEF Next, SessionStep, VerifyStep, CallAppend, TakeLock, StartInsert, Seal, Rollback,
               VerifyBegin, VerifyRow, VerifyEnd, vars
    <2> QED
        BY <2>1, <2>2, <2>3
<1> QED
    BY <1>1, <1>2, Inductive, PTL DEF Spec, AppendOnly, Log!Spec
============================================================================
