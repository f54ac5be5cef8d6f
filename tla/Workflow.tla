------------------------------ MODULE Workflow ------------------------------
(***************************************************************************)
(* .github/workflows/population.yml and tools/trigger-population.sh: how a *)
(* sample reaches the branch main.                                         *)
(*                                                                         *)
(* A job checks main out, skips if its database has a sample of this hour, *)
(* else runs the tracker, exports the dashboard's data and pushes it all   *)
(* as one root commit, with a lease on the commit it checked out.  People  *)
(* push to main meanwhile, hours pass between any two steps, and any step  *)
(* may fail or hang.  The schedule and the trigger script ask for jobs;    *)
(* GitHub runs one at a time and keeps one more pending.                   *)
(***************************************************************************)
EXTENDS Naturals, Sequences

CONSTANTS
    MaxHour,  \* the last hour of the model
    MaxEdits, \* how often people push to main
    MaxRows,  \* how many rows the database can have
    Retries   \* RETRIES of the trigger script

ASSUME BoundsAssumption ==
    MaxHour \in Nat \ {0} /\ MaxEdits \in Nat /\ MaxRows \in Nat /\ Retries \in Nat \ {0}

VARIABLES
    hour,    \* the hour it is
    main,    \* the tree of the commit main points to
    head,    \* which commit that is: the number of pushes so far
    step,    \* the step the job is about to take, "idle" if none runs
    tree,    \* the job's working tree
    lease,   \* origin/main as the job's checkout fetched it
    skipped, \* the hours a job has skipped
    pending, \* a job waits for the running one to end
    script,  \* the trigger script: "off", "trying", or its exit status
    attempt, \* its attempt
    served   \* a job has started since its last dispatch was accepted

job     == <<step, tree, lease, skipped>>
trigger == <<script, attempt, served>>
workflowVars == <<hour, main, head, job, pending, trigger>>

Hours == 1 .. MaxHour
Steps == {"checkout", "guard", "record", "export", "push"}
Rows  == [hour: Hours, ok: BOOLEAN]

(* A tree: the edits of people it contains, the rows of population.db, and *)
(* the rows docs/population.json was made from.                            *)
Trees == [edits: Nat, rows: Seq(Rows), json: Seq(Rows)]

WorkflowInit ==
    /\ hour = 1
    /\ main = [edits |-> 0, rows |-> <<>>, json |-> <<>>] /\ head = 0
    /\ step = "idle" /\ tree = main /\ lease = 0 /\ skipped = {}
    /\ pending = FALSE
    /\ script = "off" /\ attempt = 0 /\ served = FALSE
-----------------------------------------------------------------------------
(* The steps of a job.                                                     *)

StartJob ==
    /\ pending /\ step = "idle"
    /\ pending' = FALSE /\ step' = "checkout" /\ served' = TRUE
    /\ UNCHANGED <<hour, main, head, tree, lease, skipped, script, attempt>>

Checkout ==
    /\ step = "checkout"
    /\ tree' = main /\ lease' = head /\ step' = "guard"
    /\ UNCHANGED <<hour, main, head, skipped, pending, trigger>>

SampledAt(rows, h) == \E i \in 1 .. Len(rows) : rows[i].hour = h /\ rows[i].ok

AlreadyNever(rows, h) == FALSE \* mutant
AlreadyTried(rows, h) == \E i \in 1 .. Len(rows) : rows[i].hour = h \* mutant
Already(rows, h) == SampledAt(rows, h)

Guard ==
    /\ step = "guard"
    /\ IF Already(tree.rows, hour)
         THEN step' = "idle" /\ skipped' = skipped \cup {hour}
         ELSE step' = "record" /\ UNCHANGED skipped
    /\ UNCHANGED <<hour, main, head, tree, lease, pending, trigger>>

(* The tracker writes a row, of the hour in which it reads the list or     *)
(* fails to.                                                               *)
Record ==
    /\ step = "record" /\ Len(tree.rows) < MaxRows
    /\ \E ok \in BOOLEAN :
         tree' = [tree EXCEPT !.rows = Append(@, [hour |-> hour, ok |-> ok])]
    /\ step' = "export"
    /\ UNCHANGED <<hour, main, head, lease, skipped, pending, trigger>>

ExportedBefore(t) == t.json \* mutant
Exported(t) == t.rows

Export ==
    /\ step = "export"
    /\ tree' = [tree EXCEPT !.json = Exported(tree)]
    /\ step' = "push"
    /\ UNCHANGED <<hour, main, head, lease, skipped, pending, trigger>>

LeaseIgnored == TRUE \* mutant
LeaseHolds == lease = head

Push ==
    /\ step = "push" /\ LeaseHolds
    /\ main' = tree /\ head' = head + 1 /\ step' = "idle"
    /\ UNCHANGED <<hour, tree, lease, skipped, pending, trigger>>

EndJob == step' = "idle" /\ UNCHANGED <<hour, main, head, tree, lease, skipped, pending, trigger>>

(* A step fails, the push because the lease does not hold or otherwise:    *)
(* the job ends, and what it has not pushed is lost.                       *)
StepFails == step \in Steps /\ EndJob

(* timeout-minutes                                                         *)
NoTimeLimit == FALSE /\ EndJob \* mutant
TimeLimit == step \in Steps /\ EndJob
-----------------------------------------------------------------------------
(* What asks for jobs.  A job that is pending already is replaced.         *)

Schedule ==
    /\ pending' = TRUE
    /\ UNCHANGED <<hour, main, head, job, trigger>>

CronStartsScript ==
    /\ script # "trying"
    /\ script' = "trying" /\ attempt' = 1 /\ served' = FALSE
    /\ UNCHANGED <<hour, main, head, job, pending>>

Accepted == pending' = TRUE /\ served' = FALSE
Refused  == UNCHANGED <<pending, served>>

(* The script sees 204.                                                    *)
Dispatched ==
    /\ script = "trying"
    /\ Accepted
    /\ script' = "0"
    /\ UNCHANGED <<hour, main, head, job, attempt>>

(* It does not, because the dispatch is refused or its answer is lost.     *)
OneMoreAttempt == attempt <= Retries \* mutant
AttemptsLeft == attempt < Retries

DispatchFails ==
    /\ script = "trying"
    /\ Accepted \/ Refused
    /\ IF AttemptsLeft
         THEN attempt' = attempt + 1 /\ UNCHANGED script
         ELSE script' = "1" /\ UNCHANGED attempt
    /\ UNCHANGED <<hour, main, head, job>>
-----------------------------------------------------------------------------
(* People push on top of main: what is not a fast-forward is rejected.     *)
ManualPush ==
    /\ main.edits < MaxEdits
    /\ main' = [main EXCEPT !.edits = @ + 1] /\ head' = head + 1
    /\ UNCHANGED <<hour, job, pending, trigger>>

HourPasses ==
    /\ hour < MaxHour
    /\ hour' = hour + 1
    /\ UNCHANGED <<main, head, job, pending, trigger>>

Job == Checkout \/ Guard \/ Record \/ Export \/ Push \/ StepFails \/ TimeLimit
Trigger == Schedule \/ CronStartsScript \/ Dispatched \/ DispatchFails

WorkflowNext == StartJob \/ Job \/ Trigger \/ ManualPush \/ HourPasses

WorkflowSpec == WorkflowInit /\ [][WorkflowNext]_workflowVars

(* GitHub starts a job that can start and ends one that has run too long.  *)
(* That steps end, triggers fire and people push is not assumed.           *)
WorkflowFairSpec == WorkflowSpec /\ WF_workflowVars(StartJob) /\ WF_workflowVars(TimeLimit)
-----------------------------------------------------------------------------
(* Type invariant *)
WorkflowTypeOK ==
    /\ hour \in Hours /\ head \in Nat /\ lease \in 0 .. head
    /\ main \in Trees /\ tree \in Trees
    /\ step \in Steps \cup {"idle"}
    /\ skipped \subseteq Hours
    /\ pending \in BOOLEAN /\ served \in BOOLEAN
    /\ script \in {"off", "trying", "0", "1"} /\ attempt \in 0 .. Retries

(* "you can drive it from a reliable external cron and keep the GitHub     *)
(* schedule as a backup without getting duplicate samples": main never has *)
(* two samples of one hour, however often jobs are asked for, and even     *)
(* when the hour turns between the guard and the sample.                   *)
OneSampleAnHour ==
    \A i, j \in 1 .. Len(main.rows) :
        main.rows[i].ok /\ main.rows[j].ok /\ main.rows[i].hour = main.rows[j].hour => i = j

(* "a failed earlier attempt this hour can still be retried by the backup  *)
(* trigger": an hour that a job skips has a sample on main, and keeps it.  *)
SkippedHourIsSampled == \A h \in skipped : SampledAt(main.rows, h)

(* "--force-with-lease still refuses to clobber a manual push that landed  *)
(* after checkout", and "the database still holds every row" although each *)
(* commit replaces the whole branch.                                       *)
Extends(new, old) ==
    Len(old) <= Len(new) /\ \A i \in 1 .. Len(old) : new[i] = old[i]
PushesKept == [][main'.edits >= main.edits /\ Extends(main'.rows, main.rows)]_workflowVars

(* The dashboard's data on main is of the database on main.                *)
DashboardCurrent == main.json = main.rows

(* "0 on a successful dispatch": a job starts after a script that exits 0  *)
(* dispatched one, although another may hang before it and although lost   *)
(* answers make it dispatch more than one.                                 *)
DispatchRuns == script = "0" ~> served \/ script = "trying"
=============================================================================
