----------------------------- MODULE MCTracker -----------------------------
(* Instances of Tracker for TLC *)
EXTENDS Tracker

OldRow(total, active) == [run |-> NoRun, total |-> total, active |-> active]
File(table, active, rows) ==
    [table |-> table, active |-> active, spare |-> FALSE, rows |-> rows]

AnyFile == {File("none", FALSE, <<>>), File("strict", FALSE, <<OldRow("known", "null")>>),
            File("nullable", FALSE, <<OldRow("null", "null")>>),
            File("nullable", TRUE, <<OldRow("known", "known")>>)}
NoFile  == {File("none", FALSE, <<>>)}
=============================================================================
