------------------------------ MODULE AuditLog ------------------------------
(***************************************************************************)
(* What the audit ledger promises to a reader: a numbered log to which     *)
(* entries are added behind the last one, a transaction's entries at once, *)
(* and from which nothing is taken away.  Numbers may be skipped.          *)
(***************************************************************************)
EXTENDS Naturals

VARIABLE log    \* the committed entries, each with its number

Numbered == \A e, f \in log : e.seq = f.seq => e = f

Init == log = {}

Append ==
    /\ log \subseteq log'
    /\ \A e \in log' \ log, f \in log : f.seq < e.seq
    /\ Numbered'

Spec == Init /\ [][Append]_log
============================================================================
