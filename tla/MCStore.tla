------------------------------ MODULE MCStore ------------------------------
(* Instances of Store for TLC: the database files of every earlier schema. *)
EXTENDS Store

OldRow(total, active) == [run |-> NoRun, total |-> total, active |-> active]
File(table, active, rows) ==
    [table |-> table, active |-> active, spare |-> FALSE, rows |-> rows]

Missing  == File("none", FALSE, <<>>)
(* total and the classes NOT NULL, no active column *)
Strict   == File("strict", FALSE, <<OldRow("known", "null"), OldRow("known", "null")>>)
(* nullable, still without active *)
Nullable == File("nullable", FALSE, <<OldRow("known", "null"), OldRow("null", "null")>>)
Current  == File("nullable", TRUE, <<OldRow("known", "null"), OldRow("known", "known")>>)

AnyFile    == {Missing, Strict, Nullable, Current}
StrictFile == {Strict}
=============================================================================
