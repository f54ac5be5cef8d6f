---------------------------- MODULE TrackerProofs ----------------------------
(***************************************************************************)
(* Proofs about Tracker, for any number of runs and of kills and any file  *)
(* of an earlier version.                                                  *)
(*                                                                         *)
(* Every step of main is a step of the store or leaves it alone, so what   *)
(* StoreProofs knows of the rows of a run still holds; InMain says what    *)
(* main adds: how far the store of a run can be for each stage, and that   *)
(* its sample is what its own fetch made of it, since no other run can     *)
(* have touched the fetch in the meantime.                                 *)
(***************************************************************************)
EXTENDS Tracker, StoreProofs

Stages   == {"off", "resolving", "fetching", "storing", "exited"}
Exits    == {"none", "0", "130", "error", "killed"}
Verdicts == Fetching!Failures \cup {"none", "list"}

MainType ==
    /\ stage \in [Runs -> Stages]
    /\ exit \in [Runs -> Exits]
    /\ interrupted \in [Runs -> BOOLEAN]
    /\ fetched \in [Runs -> Verdicts]

FetchType ==
    /\ phase \in {"idle", "running", "over"}
    /\ place \in {"nowhere", "lobby", "login", "world"}
    /\ reached \in 0 .. 3
    /\ verdict \in Verdicts

UnderWay(r) == stage[r] \notin {"off", "exited"}

(* Runs do not overlap.                                                    *)
OneRun == \A q, r \in Runs : UnderWay(q) /\ UnderWay(r) => q = r

InMain(r) ==
    /\ stage[r] \in {"off", "resolving"} => fetched[r] = "none"
    /\ stage[r] = "fetching" => fetched[r] = verdict
    /\ stage[r] = "storing" => pc[r] # "off" /\ place = "nowhere"
    /\ stage[r] \in {"off", "resolving", "fetching"} => pc[r] = "off"
    /\ stage[r] # "exited" => exit[r] = "none"
    /\ exit[r] = "0" => pc[r] = "closed"
    /\ exit[r] = "error" => pc[r] # "closed"
    /\ pc[r] # "off" => /\ fetched[r] \in {"list"} \cup Caught
                        /\ sample[r] = SampleOf(fetched[r])

(* A fetch that is over is connected to nothing, unless it crashed.        *)
HungUp ==
    /\ phase = "idle" => place = "nowhere"
    /\ phase = "over" => place = "nowhere" \/ verdict = "crash"

MainInv ==
    /\ MainType /\ FetchType /\ OneRun /\ HungUp
    /\ \A r \in Runs : InMain(r)

TrackerInv == StoreInv /\ MainInv
-----------------------------------------------------------------------------
LEMMA TrackerInitInv == TrackerInit => TrackerInv
<1> SUFFICES ASSUME TrackerInit PROVE TrackerInv
  OBVIOUS
<1>1. StoreInv
  BY StoreInitInv DEF TrackerInit
<1>2. MainType
  BY DEF TrackerInit, MainType, Stages, Exits, Verdicts
<1>3. FetchType /\ HungUp
  BY DEF TrackerInit, FetchType, HungUp, Verdicts, Fetching!FetchInit
<1>4. OneRun
  BY DEF TrackerInit, OneRun, UnderWay
<1>5. \A r \in Runs : InMain(r)
  BY DEF TrackerInit, InMain, StoreInit
<1> QED BY <1>1, <1>2, <1>3, <1>4, <1>5 DEF TrackerInv, MainInv

(* Every step of main is a step of the store, or a kill it does not notice.*)
LEMMA StorePart ==
    ASSUME StoreInv, NEW r \in Runs,
           \/ Launch(r) \/ Advance(r) \/ DuringFetch(r)
           \/ StoringFails(r) \/ InterruptStoring(r) \/ KillRun(r)
    PROVE  StoreInv'
<1>1. CASE UNCHANGED storeVars
  BY <1>1, StoreNextInv
<1>2. CASE OpenStore(r)
  <2>1. SampleOf(verdict) \in Samples
    BY DEF SampleOf, Samples
  <2>2. StoreNext
    BY <1>2, <2>1 DEF OpenStore, StoreNext
  <2> QED BY <2>2, StoreNextInv
<1>3. CASE Storing(r)
  <2>1. StoreNext
    BY <1>3 DEF Storing, StoreNext
  <2> QED BY <2>1, StoreNextInv
<1>4. CASE CommitFails(r) \/ Kill(r)
  BY <1>4, AbortStep
<1>5. CASE /\ kills < MaxKills /\ kills' = kills + 1
           /\ UNCHANGED <<pc, needs, sample, db, work, holder>>
  <2>1. kills' \in 0 .. MaxKills
    BY <1>5, KillsAssumption DEF StoreInv, StoreTypeOK
  <2>2. StoreTypeOK' /\ LockInStep' /\ TableThere'
    BY <1>5, <2>1 DEF StoreInv, StoreTypeOK, LockInStep, TableThere
  <2>3. \A q \in Runs : Recorded(q)' /\ Pending(q)'
    BY <1>5 DEF StoreInv, Recorded, Pending, RowsOf, Total, Row
  <2> QED BY <2>2, <2>3 DEF StoreInv
<1> QED BY <1>1, <1>2, <1>3, <1>4, <1>5
       DEF Launch, Advance, DuringFetch, StoringFails, InterruptStoring, KillRun, ResolveVersion,
           ResolveRaises, BeginFetch, EndFetch, Fetch, Escape, Exit

(* A statement of r moves r on, and changes nobody's sample.               *)
LEMMA StepFrame ==
    ASSUME StoreInv, NEW r \in Runs, Step(r)
    PROVE  /\ pc[r] # "off" /\ pc'[r] # "off"
           /\ \A q \in Runs \ {r} : pc'[q] = pc[q]
           /\ sample' = sample
<1>1. pc \in [Runs -> Places]
  BY DEF StoreInv, StoreTypeOK, Places
<1>2. sample' = sample /\ pc[r] # "off"
  BY DEF Step, Migrate, CreateTable, CheckNotNull, CreateNew, CreateNewFails, Rebuild,
         CommitRebuild, CheckActive, AddActive, AddActiveFails, Insert, InsertFails, CommitRow
<1>3. \E next \in Places \ {"off"} : Goto(r, next)
  BY DEF Step, Migrate, CreateTable, CheckNotNull, CreateNew, CreateNewFails, Rebuild,
         CommitRebuild, CheckActive, AddActive, AddActiveFails, Insert, InsertFails, CommitRow,
         Places, Ended
<1> QED BY <1>1, <1>2, <1>3 DEF Goto

(* What r does is nothing to the others: if it touches the fetch or the    *)
(* connection, it is under way and no other is.                            *)
LEMMA OtherRuns ==
    ASSUME TrackerInv, NEW r \in Runs, UnderWay(r) \/ UNCHANGED <<place, verdict>>,
           \A q \in Runs \ {r} :
               /\ pc'[q] = pc[q] /\ sample'[q] = sample[q] /\ stage'[q] = stage[q]
               /\ exit'[q] = exit[q] /\ fetched'[q] = fetched[q]
    PROVE  \A q \in Runs \ {r} : InMain(q)'
<1> SUFFICES ASSUME NEW q \in Runs \ {r} PROVE InMain(q)'
  OBVIOUS
<1>1. InMain(q)
  BY DEF TrackerInv, MainInv
<1>2. UNCHANGED <<place, verdict>> \/ stage[q] \notin {"fetching", "storing"}
  BY DEF TrackerInv, MainInv, OneRun, UnderWay
<1> QED BY <1>1, <1>2 DEF InMain

(* A run that is under way is still the only one.                          *)
LEMMA StillOneRun ==
    ASSUME TrackerInv, NEW r \in Runs, UnderWay(r), NEW s \in Stages,
           stage' = [stage EXCEPT ![r] = s]
    PROVE  OneRun'
<1>1. \A q \in Runs \ {r} : stage'[q] = stage[q] /\ ~UnderWay(q)
  BY DEF TrackerInv, MainInv, OneRun, MainType
<1> QED BY <1>1 DEF OneRun, UnderWay
-----------------------------------------------------------------------------
(* One lemma per group of actions *)

LEMMA LaunchStep ==
    ASSUME TrackerInv, NEW r \in Runs, Launch(r)
    PROVE  MainInv'
<1> USE DEF TrackerInv, MainInv
<1>1. /\ stage[r] = "off" /\ \A q \in Runs : stage[q] \in {"off", "exited"}
      /\ stage' = [stage EXCEPT ![r] = "resolving"]
      /\ UNCHANGED <<pc, sample, exit, interrupted, phase, place, reached, verdict, fetched>>
  BY DEF Launch, storeVars, fetchState
<1>2. stage' \in [Runs -> Stages] /\ stage'[r] = "resolving"
      /\ \A q \in Runs \ {r} : stage'[q] = stage[q]
  BY <1>1 DEF MainType, Stages
<1>3. MainType' /\ FetchType' /\ HungUp'
  BY <1>1, <1>2 DEF MainType, FetchType, HungUp
<1>4. OneRun'
  BY <1>1, <1>2 DEF OneRun, UnderWay
<1>5. InMain(r)'
  BY <1>1, <1>2 DEF InMain
<1>6. \A q \in Runs \ {r} : InMain(q)'
  BY <1>1, <1>2, OtherRuns
<1> QED BY <1>3, <1>4, <1>5, <1>6

LEMMA ResolveStep ==
    ASSUME TrackerInv, NEW r \in Runs, ResolveVersion(r)
    PROVE  MainInv'
<1> USE DEF TrackerInv, MainInv
<1>1. /\ stage[r] = "resolving" /\ stage' = [stage EXCEPT ![r] = "fetching"]
      /\ phase' = "idle" /\ place' = "nowhere" /\ reached' = 0 /\ verdict' = "none"
      /\ UNCHANGED <<pc, sample, exit, interrupted, fetched>>
  BY DEF ResolveVersion, storeVars
<1>2. stage' \in [Runs -> Stages] /\ stage'[r] = "fetching" /\ UnderWay(r)
      /\ \A q \in Runs \ {r} : stage'[q] = stage[q]
  BY <1>1 DEF MainType, Stages, UnderWay
<1>3. MainType' /\ FetchType' /\ HungUp'
  BY <1>1, <1>2 DEF MainType, FetchType, HungUp, Verdicts
<1>4. OneRun'
  BY <1>1, <1>2, StillOneRun DEF Stages
<1>5. InMain(r)'
  BY <1>1, <1>2 DEF InMain
<1>6. \A q \in Runs \ {r} : InMain(q)'
  BY <1>1, <1>2, OtherRuns
<1> QED BY <1>3, <1>4, <1>5, <1>6

(* One step of the abstract client: what HungUp needs of it                *)
LEMMA FetchStep ==
    ASSUME FetchType, HungUp, Fetching!FetchNext
    PROVE  FetchType' /\ HungUp'
<1>1. CASE Fetching!Begin
  BY <1>1 DEF FetchType, HungUp, Fetching!Begin
<1>2. CASE Fetching!Leave
  BY <1>2 DEF FetchType, HungUp, Fetching!Leave
<1>3. ASSUME NEW i \in 1 .. 3, Fetching!Enter(i) PROVE FetchType' /\ HungUp'
  <2>1. Fetching!Places[i] \in {"lobby", "login", "world"}
    BY DEF Fetching!Places
  <2>2. /\ phase = "running" /\ place' = Fetching!Places[i] /\ reached' = i
        /\ UNCHANGED <<phase, verdict>>
    BY <1>3 DEF Fetching!Enter
  <2> QED BY <2>1, <2>2 DEF FetchType, HungUp
<1>4. ASSUME NEW v \in Fetching!Failures \cup {"list"}, Fetching!End(v)
      PROVE  FetchType' /\ HungUp'
  BY <1>4 DEF FetchType, HungUp, Verdicts, Fetching!End
<1> QED BY <1>1, <1>2, <1>3, <1>4 DEF Fetching!FetchNext

LEMMA FetchSteps ==
    ASSUME TrackerInv, NEW r \in Runs, BeginFetch(r) \/ DuringFetch(r) \/ EndFetch(r)
    PROVE  MainInv'
<1> USE DEF TrackerInv, MainInv
<1>1. /\ stage[r] = "fetching" /\ fetched' = [fetched EXCEPT ![r] = verdict']
      /\ UNCHANGED <<pc, sample, stage, exit, interrupted>>
  BY DEF BeginFetch, DuringFetch, EndFetch, Fetch, storeVars, runState
<1>2. Fetching!FetchNext
  BY DEF BeginFetch, DuringFetch, EndFetch, Fetch, Fetching!FetchNext
<1>3. FetchType' /\ HungUp'
  BY <1>2, FetchStep
<1>4. /\ fetched' \in [Runs -> Verdicts] /\ fetched'[r] = verdict'
      /\ \A q \in Runs \ {r} : fetched'[q] = fetched[q]
  BY <1>1, <1>3 DEF MainType, FetchType
<1>5. MainType' /\ OneRun'
  BY <1>1, <1>4 DEF MainType, OneRun, UnderWay
<1>6. InMain(r)'
  BY <1>1, <1>4 DEF InMain
<1>7. \A q \in Runs \ {r} : InMain(q)'
  BY <1>1, <1>4, OtherRuns DEF UnderWay
<1> QED BY <1>3, <1>5, <1>6, <1>7

(* The steps by which a run leaves main                                    *)
LEMMA ExitStep ==
    ASSUME TrackerInv, NEW r \in Runs, NEW status \in Exits, UnderWay(r),
           ExitWith(r, status),
           status = "0" => pc'[r] = "closed", status = "error" => pc'[r] # "closed",
           pc'[r] # "off" => pc[r] # "off", \A q \in Runs \ {r} : pc'[q] = pc[q],
           UNCHANGED <<sample, interrupted, fetchState>>
    PROVE  MainInv'
<1> USE DEF TrackerInv, MainInv
<1>1. /\ stage' \in [Runs -> Stages] /\ stage'[r] = "exited"
      /\ exit' \in [Runs -> Exits] /\ exit'[r] = status
      /\ \A q \in Runs \ {r} : stage'[q] = stage[q] /\ exit'[q] = exit[q]
  BY DEF ExitWith, MainType, Stages
<1>2. MainType' /\ FetchType' /\ HungUp'
  BY <1>1 DEF MainType, FetchType, HungUp, fetchState
<1>3. OneRun'
  BY <1>1, StillOneRun DEF ExitWith, Stages
<1>4. InMain(r)'
  BY <1>1 DEF InMain, fetchState
<1>5. \A q \in Runs \ {r} : InMain(q)'
  BY <1>1, OtherRuns DEF fetchState
<1> QED BY <1>2, <1>3, <1>4, <1>5

LEMMA ExitSteps ==
    ASSUME TrackerInv, NEW r \in Runs,
           ResolveRaises(r) \/ Escape(r) \/ Exit(r) \/ KillRun(r)
    PROVE  MainInv'
<1> USE DEF TrackerInv, MainInv
<1>1. InMain(r) /\ pc \in [Runs -> Places]
  BY DEF StoreInv, StoreTypeOK, Places
<1>2. CASE ResolveRaises(r)
  <2>1. /\ stage[r] = "resolving" /\ ExitWith(r, "error")
        /\ UNCHANGED <<pc, sample, interrupted, fetchState>>
    BY <1>2 DEF ResolveRaises, storeVars
  <2>2. UnderWay(r) /\ pc[r] = "off" /\ "error" \in Exits
    BY <1>1, <2>1 DEF UnderWay, InMain, Exits
  <2> QED BY <2>1, <2>2, ExitStep
<1>3. CASE Escape(r)
  <2>1. PICK status \in {"130", "error"} : ExitWith(r, status)
    BY <1>3 DEF Escape
  <2>2. stage[r] = "fetching" /\ UNCHANGED <<pc, sample, interrupted, fetchState>>
    BY <1>3 DEF Escape, storeVars
  <2>3. UnderWay(r) /\ pc[r] = "off" /\ status \in Exits
    BY <1>1, <2>1, <2>2 DEF UnderWay, InMain, Exits
  <2> QED BY <2>1, <2>2, <2>3, ExitStep
<1>4. CASE Exit(r)
  <2>1. /\ stage[r] = "storing" /\ pc[r] \in {"closed", "raised"}
        /\ ExitWith(r, ExitStatus(r)) /\ UNCHANGED <<pc, sample, interrupted, fetchState>>
    BY <1>4 DEF Exit, storeVars
  <2>2. /\ ExitStatus(r) \in Exits
        /\ ExitStatus(r) = "0" => pc[r] = "closed"
        /\ ExitStatus(r) = "error" => pc[r] # "closed"
    BY <2>1 DEF ExitStatus, Exits
  <2>3. UnderWay(r)
    BY <2>1 DEF UnderWay
  <2> HIDE DEF TrackerInv, MainInv
  <2> QED BY <2>1, <2>2, <2>3, ExitStep
<1>5. CASE KillRun(r)
  <2>1. "killed" \in Exits
    BY DEF Exits
  <2>2. CASE stage[r] = "storing" /\ Kill(r)
    <3>1. /\ ExitWith(r, "killed") /\ UNCHANGED <<sample, interrupted, fetchState>>
          /\ Goto(r, "killed")
      BY <1>5, <2>2 DEF KillRun, Kill
    <3>2. pc[r] # "off" /\ \A q \in Runs \ {r} : pc'[q] = pc[q]
      BY <1>1, <2>2, <3>1 DEF Kill, Goto
    <3> QED BY <2>1, <2>2, <3>1, <3>2, ExitStep DEF UnderWay
  <2>3. CASE stage[r] \in {"resolving", "fetching"}
    <3>1. ExitWith(r, "killed") /\ UNCHANGED <<pc, sample, interrupted, fetchState>>
      BY <1>5, <2>3 DEF KillRun
    <3> QED BY <2>1, <2>3, <3>1, ExitStep DEF UnderWay
  <2> QED BY <1>5, <2>2, <2>3 DEF KillRun
<1> QED BY <1>2, <1>3, <1>4, <1>5

(* The steps with the store open                                           *)
LEMMA OpenStoreStep ==
    ASSUME TrackerInv, NEW r \in Runs, OpenStore(r)
    PROVE  MainInv'
<1> USE DEF TrackerInv, MainInv
<1>1. /\ stage[r] = "fetching" /\ phase = "over" /\ verdict \in {"list"} \cup Caught
      /\ stage' = [stage EXCEPT ![r] = "storing"]
      /\ UNCHANGED <<exit, interrupted, phase, place, reached, verdict, fetched>>
  BY DEF OpenStore, fetchState
<1>2. /\ sample' = [sample EXCEPT ![r] = SampleOf(verdict)]
      /\ pc' = [pc EXCEPT ![r] = "create"]
  BY DEF OpenStore, Open, Goto
<1>3. pc \in [Runs -> Places] /\ sample \in [Runs -> Samples]
  BY DEF StoreInv, StoreTypeOK, Places
<1>4. /\ stage' \in [Runs -> Stages] /\ stage'[r] = "storing"
      /\ pc'[r] = "create" /\ sample'[r] = SampleOf(verdict)
      /\ \A q \in Runs \ {r} : stage'[q] = stage[q] /\ pc'[q] = pc[q] /\ sample'[q] = sample[q]
  BY <1>1, <1>2, <1>3 DEF MainType, Stages
<1>5. MainType' /\ FetchType' /\ HungUp'
  BY <1>1, <1>4 DEF MainType, FetchType, HungUp
<1>6. OneRun' /\ UnderWay(r)
  BY <1>1, StillOneRun DEF UnderWay, Stages
<1>7. place = "nowhere"
  BY <1>1 DEF HungUp, Caught
<1>8. InMain(r)'
  <2>1. fetched[r] = verdict /\ exit[r] = "none"
    BY <1>1 DEF InMain
  <2>2. SampleOf(verdict)' = SampleOf(verdict)
    BY <1>1 DEF SampleOf
  <2> QED BY <1>1, <1>4, <1>7, <2>1, <2>2 DEF InMain, SampleOf
<1>9. \A q \in Runs \ {r} : InMain(q)'
  BY <1>1, <1>4, OtherRuns
<1> QED BY <1>5, <1>6, <1>8, <1>9

LEMMA StoringSteps ==
    ASSUME TrackerInv, NEW r \in Runs,
           Storing(r) \/ StoringFails(r) \/ InterruptStoring(r)
    PROVE  MainInv'
<1> USE DEF TrackerInv, MainInv
<1>1. /\ stage[r] = "storing" /\ interrupted' \in [Runs -> BOOLEAN]
      /\ UNCHANGED <<stage, exit, phase, place, reached, verdict, fetched>>
  BY DEF Storing, StoringFails, InterruptStoring, runState, fetchState, MainType
<1>2. /\ pc[r] # "off" /\ pc'[r] # "off" /\ sample' = sample
      /\ \A q \in Runs \ {r} : pc'[q] = pc[q]
  <2>1. CASE Storing(r)
    BY <2>1, StepFrame DEF Storing
  <2>2. CASE InterruptStoring(r)
    BY <1>1, <2>2 DEF InterruptStoring, storeVars, InMain
  <2>3. CASE StoringFails(r)
    <3>1. pc \in [Runs -> Places]
      BY DEF StoreInv, StoreTypeOK, Places
    <3>2. pc[r] # "off" /\ Goto(r, "raised") /\ UNCHANGED sample
      BY <2>3 DEF StoringFails, CommitFails
    <3> QED BY <3>1, <3>2 DEF Goto
  <2> QED BY <2>1, <2>2, <2>3
<1>3. MainType' /\ FetchType' /\ HungUp' /\ OneRun'
  BY <1>1 DEF MainType, FetchType, HungUp, OneRun, UnderWay
<1>4. InMain(r)'
  BY <1>1, <1>2 DEF InMain, SampleOf
<1>5. \A q \in Runs \ {r} : InMain(q)'
  BY <1>1, <1>2, OtherRuns
<1> QED BY <1>3, <1>4, <1>5

LEMMA TrackerNextInv == TrackerInv /\ [TrackerNext]_trackerVars => TrackerInv'
<1> SUFFICES ASSUME TrackerInv, [TrackerNext]_trackerVars PROVE TrackerInv'
  OBVIOUS
<1>1. CASE UNCHANGED trackerVars
  <2>1. UNCHANGED storeVars /\ UNCHANGED <<stage, exit, interrupted, phase, place, reached,
                                           verdict, fetched, pc, sample>>
    BY <1>1 DEF trackerVars, storeVars, runState, fetchState
  <2>2. StoreInv'
    BY <2>1, StoreNextInv DEF TrackerInv
  <2>3. MainType' /\ FetchType' /\ OneRun' /\ HungUp'
    BY <2>1 DEF TrackerInv, MainInv, MainType, FetchType, OneRun, UnderWay, HungUp
  <2>4. \A r \in Runs : InMain(r)'
    BY <2>1 DEF TrackerInv, MainInv, InMain, SampleOf
  <2> QED BY <2>2, <2>3, <2>4 DEF TrackerInv, MainInv
<1>2. CASE TrackerNext
  <2> PICK r \in Runs : \/ Launch(r) \/ Advance(r) \/ DuringFetch(r)
                        \/ StoringFails(r) \/ InterruptStoring(r) \/ KillRun(r)
    BY <1>2 DEF TrackerNext
  <2>1. StoreInv'
    BY StorePart DEF TrackerInv
  <2>2. MainInv'
    BY LaunchStep, ResolveStep, FetchSteps, ExitSteps, OpenStoreStep, StoringSteps DEF Advance
  <2> QED BY <2>1, <2>2 DEF TrackerInv
<1> QED BY <1>1, <1>2

LEMMA TrackerAlwaysInv == TrackerSpec => []TrackerInv
BY TrackerInitInv, TrackerNextInv, PTL DEF TrackerSpec
-----------------------------------------------------------------------------
(* Every variable of main, of its fetch and of its store holds a value the *)
(* code can give it.                                                       *)
THEOREM TrackerTypeCorrect == TrackerSpec => []TrackerTypeOK
<1>1. TrackerInv => TrackerTypeOK
  BY DEF TrackerInv, MainInv, StoreInv, MainType, FetchType, TrackerTypeOK,
         Stages, Exits, Verdicts
<1> QED BY TrackerAlwaysInv, <1>1, PTL

(* Exit status 0 is only given with a row in the database, a traceback     *)
(* only without one.                                                       *)
THEOREM ExitAlwaysTellsRecorded == TrackerSpec => []ExitTellsRecorded
<1>1. TrackerInv => ExitTellsRecorded
  BY DEF TrackerInv, MainInv, InMain, StoreInv, Recorded, ExitTellsRecorded
<1> QED BY TrackerAlwaysInv, <1>1, PTL

(* A row has counts if and only if the fetch of its own run returned the   *)
(* list, and otherwise that fetch failed in a way _run catches.            *)
THEOREM RowAlwaysTellsVerdict == TrackerSpec => []RowTellsVerdict
<1>1. TrackerInv => RowTellsVerdict
  <2> SUFFICES ASSUME TrackerInv, NEW r \in Runs, NEW i \in RowsOf(r)
               PROVE  /\ fetched[r] \in {"list"} \cup NamedFailures
                      /\ db.rows[i].total = "known" <=> fetched[r] = "list"
    BY DEF RowTellsVerdict
  <2>1. Recorded(r) /\ InMain(r)
    BY DEF TrackerInv, MainInv, StoreInv
  <2>2. pc[r] = "closed" /\ db.rows[i].total = Total(r)
    BY <2>1 DEF Recorded
  <2>3. fetched[r] \in {"list"} \cup Caught /\ sample[r] = SampleOf(fetched[r])
    BY <2>1, <2>2 DEF InMain
  <2> QED BY <2>2, <2>3 DEF Caught, NamedFailures, SampleOf, Total
<1> QED BY TrackerAlwaysInv, <1>1, PTL

(* The database is not opened before the client has left the server.       *)
THEOREM AlwaysOfflineBeforeStore == TrackerSpec => []OfflineBeforeStore
<1>1. TrackerInv => OfflineBeforeStore
  BY DEF TrackerInv, MainInv, InMain, OfflineBeforeStore
<1> QED BY TrackerAlwaysInv, <1>1, PTL
=============================================================================
