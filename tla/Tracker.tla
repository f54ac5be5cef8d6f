------------------------------ MODULE Tracker ------------------------------
(***************************************************************************)
(* One process per run, src/population_tracker/__main__.py: resolve the    *)
(* version, fetch the list, record a sample, exit.  It composes Store with *)
(* Fetch, the abstract client that module Client implements.  Runs do not  *)
(* overlap (the schedule, the workflow's concurrency group).               *)
(***************************************************************************)
EXTENDS Store

VARIABLES
    stage,       \* stage[r]: how far run r has come in main
    exit,        \* exit[r]: its exit status
    interrupted, \* interrupted[r]: Ctrl-C came when nothing could be cancelled any more
    phase, place, reached, verdict, \* the fetch of the run under way
    fetched      \* fetched[r]: the verdict of the fetch of r, once it has one

fetchState == <<phase, place, reached, verdict, fetched>>
runState   == <<stage, exit, interrupted>>
trackerVars == <<storeVars, runState, fetchState>>

Fetching == INSTANCE Fetch

ASSUME SerialAssumption == ~Overlap

TrackerInit ==
    /\ StoreInit
    /\ stage = [r \in Runs |-> "off"]
    /\ exit = [r \in Runs |-> "none"]
    /\ interrupted = [r \in Runs |-> FALSE]
    /\ Fetching!FetchInit
    /\ fetched = [r \in Runs |-> "none"]

ExitWith(r, status) ==
    /\ stage' = [stage EXCEPT ![r] = "exited"]
    /\ exit' = [exit EXCEPT ![r] = status]

(* main, up to _resolve_version *)
Launch(r) ==
    /\ stage[r] = "off"
    /\ \A q \in Runs : stage[q] \in {"off", "exited"}
    /\ stage' = [stage EXCEPT ![r] = "resolving"]
    /\ UNCHANGED <<storeVars, fetchState, exit, interrupted>>

(* The version was given, was read from the patch server, or is the        *)
(* fallback: in any case a new client is made.                             *)
ResolveVersion(r) ==
    /\ stage[r] = "resolving"
    /\ stage' = [stage EXCEPT ![r] = "fetching"]
    /\ phase' = "idle" /\ place' = "nowhere" /\ reached' = 0 /\ verdict' = "none"
    /\ UNCHANGED <<storeVars, exit, interrupted, fetched>>

(* An exception resolve_client_version does not catch (a truncated HTTP    *)
(* reply) or Ctrl-C, outside any try block: a traceback.                   *)
ResolveRaises(r) ==
    /\ stage[r] = "resolving"
    /\ ExitWith(r, "error")
    /\ UNCHANGED <<storeVars, fetchState, interrupted>>

Fetch(r, step) ==
    /\ stage[r] = "fetching"
    /\ step
    /\ fetched' = [fetched EXCEPT ![r] = verdict']
    /\ UNCHANGED <<storeVars, runState>>

BeginFetch(r)  == Fetch(r, Fetching!Begin)
DuringFetch(r) == Fetch(r, Fetching!Leave \/ \E i \in 1 .. 3 : Fetching!Enter(i))
EndFetch(r)    == Fetch(r, \E v \in Fetching!Failures \cup {"list"} : Fetching!End(v))

(* OSError, asyncio.TimeoutError and RuntimeError (LoginError)             *)
CaughtButTimeout == {"oserror", "login"} \* mutant
CaughtEveryException == Fetching!Failures \ {"interrupt"} \* mutant
Caught == {"oserror", "timeout", "login"}

SampleAlwaysRead(v) == "read" \* mutant
SampleOfVerdict(v) == v \* mutant
SampleOf(v) == IF v = "list" THEN "read" ELSE "failed"

(* The list, or a failure that _run catches, becomes a sample.             *)
OpenStore(r) ==
    /\ stage[r] = "fetching" /\ phase = "over"
    /\ verdict \in {"list"} \cup Caught
    /\ Open(r, SampleOf(verdict))
    /\ stage' = [stage EXCEPT ![r] = "storing"]
    /\ UNCHANGED <<exit, interrupted, fetchState>>

(* Any other exception leaves _run, and with it the process.               *)
Escape(r) ==
    /\ stage[r] = "fetching" /\ phase = "over"
    /\ verdict \notin {"list"} \cup Caught
    /\ ExitWith(r, IF verdict = "interrupt" THEN "130" ELSE "error")
    /\ UNCHANGED <<storeVars, interrupted, fetchState>>

Storing(r) ==
    /\ stage[r] = "storing"
    /\ Step(r)
    /\ UNCHANGED <<runState, fetchState>>

(* A commit may fail, and the exception reaches main.                      *)
StoringFails(r) ==
    /\ stage[r] = "storing"
    /\ CommitFails(r)
    /\ UNCHANGED <<runState, fetchState>>

(* Nothing is awaited after fetch: the cancellation that Ctrl-C asks for   *)
(* is only delivered when _run returns.                                    *)
InterruptStoring(r) ==
    /\ stage[r] = "storing" /\ ~interrupted[r]
    /\ interrupted' = [interrupted EXCEPT ![r] = TRUE]
    /\ UNCHANGED <<storeVars, stage, exit, fetchState>>

ExitZero(r) == "0" \* mutant
ExitStatus(r) == IF pc[r] = "raised" THEN "error"
                 ELSE IF interrupted[r] THEN "130" ELSE "0"

(* sys.exit, or the traceback of a sqlite3 error                           *)
Exit(r) ==
    /\ stage[r] = "storing" /\ pc[r] \in {"closed", "raised"}
    /\ ExitWith(r, ExitStatus(r))
    /\ UNCHANGED <<storeVars, interrupted, fetchState>>

(* The process is killed, before or while it has the store open.           *)
KillRun(r) ==
    \/ /\ stage[r] = "storing"
       /\ Kill(r) /\ ExitWith(r, "killed")
       /\ UNCHANGED <<interrupted, fetchState>>
    \/ /\ stage[r] \in {"resolving", "fetching"} /\ kills < MaxKills
       /\ kills' = kills + 1 /\ ExitWith(r, "killed")
       /\ UNCHANGED <<pc, needs, sample, db, work, holder, interrupted, fetchState>>

Advance(r) == ResolveVersion(r) \/ ResolveRaises(r) \/ BeginFetch(r) \/ EndFetch(r)
              \/ OpenStore(r) \/ Escape(r) \/ Storing(r) \/ Exit(r)

TrackerNext ==
    \E r \in Runs : \/ Launch(r) \/ Advance(r) \/ DuringFetch(r)
                    \/ StoringFails(r) \/ InterruptStoring(r) \/ KillRun(r)

TrackerSpec == TrackerInit /\ [][TrackerNext]_trackerVars

(* The process goes on, and fetch ends (Client, Terminates).               *)
TrackerFairSpec ==
    TrackerSpec /\ \A r \in Runs : WF_trackerVars(Advance(r))
-----------------------------------------------------------------------------
(* Type invariant *)
TrackerTypeOK ==
    /\ StoreTypeOK
    /\ stage \in [Runs -> {"off", "resolving", "fetching", "storing", "exited"}]
    /\ exit \in [Runs -> {"none", "0", "130", "error", "killed"}]
    /\ interrupted \in [Runs -> BOOLEAN]
    /\ phase \in {"idle", "running", "over"}
    /\ place \in {"nowhere", "lobby", "login", "world"}
    /\ reached \in 0 .. 3
    /\ verdict \in Fetching!Failures \cup {"none", "list"}
    /\ fetched \in [Runs -> Fetching!Failures \cup {"none", "list"}]

(* The exit status tells whether the run is in the database: 0 with a row, *)
(* a traceback without one.  (Ctrl-C can be either.)                       *)
ExitTellsRecorded ==
    \A r \in Runs : /\ exit[r] = "0" => RowsOf(r) # {}
                    /\ exit[r] = "error" => RowsOf(r) = {}

NamedFailures == {"oserror", "login", "timeout"}

(* A row with counts comes from a run whose fetch returned the list, and a *)
(* row of NULLs from one whose fetch failed.                               *)
RowTellsVerdict ==
    \A r \in Runs : \A i \in RowsOf(r) :
        /\ fetched[r] \in {"list"} \cup NamedFailures
        /\ db.rows[i].total = "known" <=> fetched[r] = "list"

(* The character is logged off before the database is touched.             *)
OfflineBeforeStore ==
    (\E r \in Runs : stage[r] = "storing") => place = "nowhere"

(* A failure of the kinds the README names, "server down, bad login,       *)
(* timeout", leads to a row, whatever the file's schema, if no run is      *)
(* killed.                                                                 *)
NamedFailureRecorded ==
    \A r \in Runs : fetched[r] \in NamedFailures ~> (RowsOf(r) # {} \/ kills > 0)

(* "a run that cannot read the list ... still records a row for that run": *)
(* no run ends of its own accord without one once its fetch has begun.     *)
EveryRunRecords ==
    \A r \in Runs : (/\ stage[r] = "exited" /\ exit[r] # "killed"
                      /\ fetched[r] \notin {"none", "interrupt"})
                     => RowsOf(r) # {}
=============================================================================
