------------------------------- MODULE Ledger -------------------------------
(***************************************************************************)
(* What the database promises its readers: "The database keeps every raw   *)
(* row" (export.py).  Rows are appended one at a time, at most one for     *)
(* each run, and a row that is there is never changed or removed.          *)
(***************************************************************************)
EXTENDS Naturals, Sequences

CONSTANTS Runs, Counts
VARIABLE rows

OfRun(r) == {i \in DOMAIN rows : rows[i].run = r}

(* Whatever rows there were before the first run                           *)
LedgerInit == \A r \in Runs : OfRun(r) = {}

Record(r) ==
    /\ OfRun(r) = {}
    /\ \E total, active \in Counts :
         rows' = Append(rows, [run |-> r, total |-> total, active |-> active])

LedgerSpec == LedgerInit /\ [][\E r \in Runs : Record(r)]_rows
=============================================================================
