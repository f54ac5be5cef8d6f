------------------------------- MODULE Fetch -------------------------------
(***************************************************************************)
(* What one call of DarkAgesClient.fetch promises its caller, told without *)
(* packets, tasks or ciphers: "Runs one full login, returns the country    *)
(* list, and logs off.  Raises on failure."                                *)
(***************************************************************************)
EXTENDS Naturals

VARIABLES
    phase,   \* "idle", "running", "over"
    place,   \* the server the client is connected to, or "nowhere"
    reached, \* the farthest server the run has been connected to
    verdict  \* "none" while running, then what fetch returned or raised

fetchVars == <<phase, place, reached, verdict>>

Places == <<"lobby", "login", "world">>
Failures == {"login", "oserror", "valueerror", "timeout", "interrupt", "crash"}

FetchInit ==
    /\ phase = "idle" /\ place = "nowhere" /\ reached = 0 /\ verdict = "none"

Begin ==
    /\ phase = "idle"
    /\ phase' = "running"
    /\ UNCHANGED <<place, reached, verdict>>

(* The servers are entered one after the other, never skipping one and     *)
(* never going back; a world can lead to another world.                    *)
Enter(i) ==
    /\ phase = "running" /\ place = "nowhere"
    /\ i = reached + 1 \/ (i = 3 /\ reached = 3)
    /\ place' = Places[i] /\ reached' = i
    /\ UNCHANGED <<phase, verdict>>

Leave ==
    /\ phase = "running" /\ place # "nowhere"
    /\ place' = "nowhere"
    /\ UNCHANGED <<phase, reached, verdict>>

(* A verdict is given with no server left connected, but for a crash of    *)
(* the read loop, which leaves the connection to the operating system; a   *)
(* list can only come from a world.                                        *)
End(v) ==
    /\ phase = "running"
    /\ v = "crash" \/ place = "nowhere"
    /\ v = "list" => reached = 3
    /\ phase' = "over" /\ verdict' = v
    /\ UNCHANGED <<place, reached>>

FetchNext ==
    \/ Begin \/ Leave
    \/ \E i \in 1 .. 3 : Enter(i)
    \/ \E v \in Failures \cup {"list"} : End(v)

FetchSpec == FetchInit /\ [][FetchNext]_fetchVars

(* Every fetch that begins ends. *)
FetchEnds == phase = "running" ~> phase = "over"
=============================================================================
