------------------------------ MODULE MCClient ------------------------------
(* Instances of Client for TLC: what the environment may do in each run.   *)
EXTENDS ClientInv

(* Everything that can go wrong on the way to one world server             *)
AllFaults == Faults \ {"handoff"}

(* World servers that send the client on, a server table that may be       *)
(* empty, and a timer that may interfere                                   *)
SeveralWorlds == {"handoff", "emptyTable", "timeout"}

TimerOnly == {"timeout"}
=============================================================================
