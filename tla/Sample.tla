------------------------------- MODULE Sample -------------------------------
(***************************************************************************)
(* PopulationSample of src/population_tracker/storage.py: what is counted  *)
(* of a country list.  Names are of ASCII characters; those of cp949 with  *)
(* two bytes are left out.                                                 *)
(***************************************************************************)
EXTENDS Integers, Sequences, FiniteSets

CONSTANT NULL

ASSUME NullAssumption == NULL \notin Nat

Count == Nat \cup {NULL}

(* BaseClass; the class of an entry has three bits, and 6 and 7 are        *)
(* "unknown".                                                              *)
Columns == <<"peasant", "warrior", "rogue", "wizard", "priest", "monk">>
ClassName(class) == IF class < 6 THEN Columns[class + 1] ELSE "unknown"

AFK == {2, 5}

ClassFields == {Columns[i] : i \in 1 .. 6}
Fields == {"total", "active"} \cup ClassFields

Casefold(name) ==
    [i \in DOMAIN name |-> IF name[i] \in 65 .. 90 THEN name[i] + 32 ELSE name[i]]

IsProbeExactly(name, probe) == name = probe \* mutant
IsProbe(name, probe) == Casefold(name) = Casefold(probe)

(* Which entries are of others                                             *)
Without(members, probe) == {i \in DOMAIN members : ~IsProbe(members[i].name, probe)}

(* The server counts the tracker's own character.                          *)
OneLess(count) == count - 1 \* mutant
Others(count) == IF count > 0 THEN count - 1 ELSE 0

FromWorldList(list, probe) ==
    LET members == list.members
        others  == IF probe = <<>> THEN DOMAIN members ELSE Without(members, probe)
        total   == IF probe = <<>> THEN list.count ELSE Others(list.count)
    IN  [f \in Fields |->
           CASE f = "total"  -> total
             [] f = "active" -> Cardinality({i \in others : members[i].status \notin AFK})
             [] OTHER        -> Cardinality({i \in others : ClassName(members[i].class) = f})]

Failed == [f \in Fields |-> NULL]
=============================================================================
