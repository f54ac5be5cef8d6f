--------------------------- MODULE WorkflowProofs ---------------------------
(***************************************************************************)
(* Proofs about Workflow, for any number of hours, of edits, of rows and   *)
(* of attempts.                                                            *)
(***************************************************************************)
EXTENDS Workflow, TLAPS

(* Rows are of this hour or an earlier one.                                *)
Past(rows) == \A i \in 1 .. Len(rows) : rows[i].hour <= hour

OneEach(rows) ==
    \A i, j \in 1 .. Len(rows) :
        rows[i].ok /\ rows[j].ok /\ rows[i].hour = rows[j].hour => i = j

(* What the working tree has to do with main.  Only the edits of people    *)
(* can make main differ from what the job checked out, and the lease tells *)
(* whether there were any.                                                 *)
TreeInStep ==
    /\ step \in {"guard", "record"} => tree.rows = main.rows
    /\ step \in {"export", "push"} => Extends(tree.rows, main.rows)
    /\ step \in Steps \ {"checkout"} /\ lease = head => tree.edits = main.edits
    /\ step = "record" => ~SampledAt(tree.rows, hour)
    /\ step = "push" => tree.json = tree.rows

WorkflowInv ==
    /\ WorkflowTypeOK
    /\ Past(main.rows) /\ Past(tree.rows)
    /\ OneEach(main.rows) /\ OneEach(tree.rows)
    /\ TreeInStep
    /\ SkippedHourIsSampled
    /\ DashboardCurrent

LEMMA WorkflowInitInv == WorkflowInit => WorkflowInv
<1> SUFFICES ASSUME WorkflowInit PROVE WorkflowInv
  OBVIOUS
<1> USE BoundsAssumption DEF WorkflowInit
<1>1. main \in Trees /\ main.rows = <<>> /\ main.json = <<>> /\ tree = main
  BY DEF Trees
<1>2. WorkflowTypeOK
  <2>1. pending \in BOOLEAN /\ served \in BOOLEAN
    OBVIOUS
  <2>2. hour \in Hours /\ attempt \in 0 .. Retries /\ head \in Nat /\ lease \in 0 .. head
    BY DEF Hours
  <2>3. script \in {"off", "trying", "0", "1"} /\ step \in Steps \cup {"idle"} /\ skipped \subseteq Hours
    OBVIOUS
  <2> HIDE DEF WorkflowInit
  <2> QED
    BY <1>1, <2>1, <2>2, <2>3 DEF WorkflowTypeOK
<1>3. Past(main.rows) /\ OneEach(main.rows)
  BY <1>1 DEF Past, OneEach
<1>4. TreeInStep /\ SkippedHourIsSampled /\ DashboardCurrent
  BY <1>1 DEF TreeInStep, Steps, SkippedHourIsSampled, DashboardCurrent
<1> QED
  BY <1>1, <1>2, <1>3, <1>4 DEF WorkflowInv

(* A database with one more row of this hour.                              *)
LEMMA OneMoreRow ==
    ASSUME NEW rows \in Seq(Rows), NEW row \in Rows
    PROVE  /\ Append(rows, row) \in Seq(Rows)
           /\ Len(Append(rows, row)) = Len(rows) + 1 /\ Len(rows) \in Nat
           /\ \A i \in 1 .. Len(rows) : Append(rows, row)[i] = rows[i]
           /\ Append(rows, row)[Len(rows) + 1] = row
  OBVIOUS

LEMMA RowAdded ==
    ASSUME NEW rows \in Seq(Rows), NEW row \in Rows, row.hour = hour, hour \in Nat,
           Past(rows), OneEach(rows), ~SampledAt(rows, hour)
    PROVE  Past(Append(rows, row)) /\ OneEach(Append(rows, row)) /\ Extends(Append(rows, row), rows)
<1> DEFINE new == Append(rows, row)
<1>1. /\ Len(new) = Len(rows) + 1 /\ Len(rows) \in Nat
      /\ \A i \in 1 .. Len(rows) : new[i] = rows[i]
      /\ new[Len(rows) + 1] = row
  BY OneMoreRow
<1>2. \A i \in 1 .. Len(new) : i \in 1 .. Len(rows) \/ i = Len(rows) + 1
  BY <1>1
<1> HIDE DEF new
<1>3. Past(new)
  BY <1>1, <1>2 DEF Past
<1>4. \A i \in 1 .. Len(rows) : ~(new[i].ok /\ new[i].hour = hour)
  BY <1>1 DEF SampledAt
<1>5. OneEach(new)
  BY <1>1, <1>2, <1>4 DEF OneEach
<1>6. Extends(new, rows)
  BY <1>1 DEF Extends
<1> QED
  BY <1>3, <1>5, <1>6 DEF new

LEMMA WorkflowStep == WorkflowInv /\ [WorkflowNext]_workflowVars => WorkflowInv'
<1> SUFFICES ASSUME WorkflowInv, [WorkflowNext]_workflowVars PROVE WorkflowInv'
  OBVIOUS
<1> USE BoundsAssumption DEF WorkflowInv, job, trigger
<1>1. CASE StartJob
  BY <1>1 DEF StartJob, WorkflowTypeOK, Steps, Past, OneEach, TreeInStep,
     SkippedHourIsSampled, SampledAt, DashboardCurrent
<1>2. CASE Checkout
  BY <1>2 DEF Checkout, WorkflowTypeOK, Steps, Past, OneEach, TreeInStep,
     SkippedHourIsSampled, SampledAt, DashboardCurrent
<1>3. CASE Guard
  <2>1. /\ step = "guard" /\ tree.rows = main.rows
        /\ \/ SampledAt(tree.rows, hour) /\ step' = "idle" /\ skipped' = skipped \cup {hour}
           \/ ~SampledAt(tree.rows, hour) /\ step' = "record" /\ skipped' = skipped
        /\ UNCHANGED <<hour, main, head, tree, lease, pending, script, attempt, served>>
    BY <1>3 DEF Guard, Already, TreeInStep
  <2>2. WorkflowTypeOK'
    BY <2>1 DEF WorkflowTypeOK, Steps
  <2>3. TreeInStep'
    BY <2>1 DEF TreeInStep, Steps, SampledAt
  <2>4. SkippedHourIsSampled'
    BY <2>1 DEF SkippedHourIsSampled, SampledAt
  <2> QED
    BY <2>1, <2>2, <2>3, <2>4 DEF Past, OneEach, DashboardCurrent
<1>4. CASE Record
  <2>1. PICK ok \in BOOLEAN :
          tree' = [tree EXCEPT !.rows = Append(@, [hour |-> hour, ok |-> ok])]
    BY <1>4 DEF Record
  <2> DEFINE row == [hour |-> hour, ok |-> ok]
  <2>2. step = "record" /\ step' = "export"
        /\ UNCHANGED <<hour, main, head, lease, skipped, pending, script, attempt, served>>
    BY <1>4 DEF Record
  <2>3. row \in Rows /\ row.hour = hour /\ hour \in Nat /\ tree.rows \in Seq(Rows) /\ tree \in Trees
    BY DEF WorkflowTypeOK, Rows, Trees, Hours
  <2>4. tree.rows = main.rows /\ ~SampledAt(tree.rows, hour)
    BY <2>2 DEF TreeInStep
  <2> HIDE DEF row
  <2>5. /\ Append(tree.rows, row) \in Seq(Rows)
        /\ Past(Append(tree.rows, row)) /\ OneEach(Append(tree.rows, row))
        /\ Extends(Append(tree.rows, row), tree.rows)
    BY <2>3, <2>4, RowAdded, OneMoreRow
  <2>6. tree' = [tree EXCEPT !.rows = Append(tree.rows, row)]
    BY <2>1 DEF row
  <2>7. tree'.rows = Append(tree.rows, row) /\ tree'.edits = tree.edits /\ tree' \in Trees
    BY <2>3, <2>5, <2>6 DEF Trees
  <2>8. WorkflowTypeOK'
    BY <2>2, <2>7 DEF WorkflowTypeOK, Steps
  <2>9. TreeInStep'
    BY <2>2, <2>4, <2>5, <2>7 DEF TreeInStep, Steps, Extends
  <2>10. Past(tree.rows)' /\ OneEach(tree.rows)'
    BY <2>2, <2>5, <2>7 DEF Past, OneEach
  <2> QED
    BY <2>2, <2>8, <2>9, <2>10 DEF Past, OneEach, SkippedHourIsSampled, SampledAt,
       DashboardCurrent
<1>5. CASE Export
  <2>1. /\ step = "export" /\ step' = "push"
        /\ tree' = [tree EXCEPT !.json = tree.rows]
        /\ UNCHANGED <<hour, main, head, lease, skipped, pending, script, attempt, served>>
    BY <1>5 DEF Export, Exported
  <2>2. tree \in Trees /\ tree.rows \in Seq(Rows)
    BY DEF WorkflowTypeOK, Trees
  <2>3. /\ tree' \in Trees /\ tree'.rows = tree.rows /\ tree'.edits = tree.edits
        /\ tree'.json = tree.rows
    BY <2>1, <2>2 DEF Trees
  <2>4. WorkflowTypeOK'
    BY <2>1, <2>3 DEF WorkflowTypeOK, Steps
  <2>5. TreeInStep'
    BY <2>1, <2>3 DEF TreeInStep, Steps, Extends
  <2> QED
    BY <2>1, <2>3, <2>4, <2>5 DEF Past, OneEach, SkippedHourIsSampled, SampledAt,
       DashboardCurrent
<1>6. CASE Push
  <2>1. /\ step = "push" /\ step' = "idle" /\ main' = tree /\ head' = head + 1
        /\ Extends(tree.rows, main.rows) /\ tree.json = tree.rows
        /\ UNCHANGED <<hour, tree, lease, skipped, pending, script, attempt, served>>
    BY <1>6 DEF Push, TreeInStep
  <2>2. WorkflowTypeOK'
    BY <2>1 DEF WorkflowTypeOK, Steps
  <2>3. TreeInStep'
    BY <2>1 DEF TreeInStep, Steps
  <2>4. Len(main.rows) \in Nat /\ Len(tree.rows) \in Nat
    BY DEF WorkflowTypeOK, Trees
  <2>5. SkippedHourIsSampled'
    BY <2>1, <2>4 DEF SkippedHourIsSampled, SampledAt, Extends
  <2> QED
    BY <2>1, <2>2, <2>3, <2>5 DEF Past, OneEach, DashboardCurrent
<1>7. CASE StepFails \/ TimeLimit
  BY <1>7 DEF StepFails, TimeLimit, EndJob, WorkflowTypeOK, Steps, Past, OneEach, TreeInStep,
     SkippedHourIsSampled, SampledAt, DashboardCurrent
<1>8. CASE Trigger
  <2>1. UNCHANGED <<hour, main, head, step, tree, lease, skipped>>
    BY <1>8 DEF Trigger, Schedule, CronStartsScript, Dispatched, DispatchFails
  <2>2. pending \in BOOLEAN /\ served \in BOOLEAN /\ attempt \in 0 .. Retries
        /\ script \in {"off", "trying", "0", "1"}
    BY DEF WorkflowTypeOK
  <2>3. pending' \in {pending, TRUE} /\ served' \in {served, FALSE}
    BY <1>8 DEF Trigger, Schedule, CronStartsScript, Dispatched, DispatchFails, Accepted, Refused
  <2>4. pending' \in BOOLEAN /\ served' \in BOOLEAN
    BY <2>2, <2>3
  <2>5. script' \in {"off", "trying", "0", "1"} /\ attempt' \in 0 .. Retries
    BY <1>8, <2>2 DEF Trigger, Schedule, CronStartsScript, Dispatched, DispatchFails,
       AttemptsLeft
  <2> QED
    BY <2>1, <2>4, <2>5 DEF WorkflowTypeOK, Past, OneEach, TreeInStep, SkippedHourIsSampled,
       SampledAt, DashboardCurrent
<1>9. CASE ManualPush
  <2>1. /\ main' = [main EXCEPT !.edits = main.edits + 1] /\ head' = head + 1
        /\ UNCHANGED <<hour, step, tree, lease, skipped, pending, script, attempt, served>>
    BY <1>9 DEF ManualPush
  <2>2. /\ main' \in Trees /\ main'.rows = main.rows /\ main'.json = main.json
        /\ head \in Nat /\ lease \in 0 .. head
    <3>1. main \in Trees /\ main.edits + 1 \in Nat /\ head \in Nat /\ lease \in 0 .. head
      BY DEF WorkflowTypeOK, Trees
    <3> QED
      BY <2>1, <3>1 DEF Trees
  <2>3. WorkflowTypeOK'
    BY <2>1, <2>2 DEF WorkflowTypeOK
  <2>4. lease' # head'
    BY <2>1, <2>2
  <2>5. TreeInStep'
    BY <2>1, <2>2, <2>4 DEF TreeInStep, SampledAt, Extends
  <2> QED
    BY <2>1, <2>2, <2>3, <2>5 DEF Past, OneEach, SkippedHourIsSampled, SampledAt,
       DashboardCurrent
<1>10. CASE HourPasses
  <2>1. /\ hour < MaxHour /\ hour' = hour + 1
        /\ UNCHANGED <<main, head, step, tree, lease, skipped, pending, script, attempt, served>>
    BY <1>10 DEF HourPasses
  <2>2. /\ hour \in Nat /\ hour' \in Hours
        /\ \A i \in 1 .. Len(main.rows) : main.rows[i].hour \in Nat
        /\ \A i \in 1 .. Len(tree.rows) : tree.rows[i].hour \in Nat
    <3>1. hour \in Hours /\ main.rows \in Seq(Rows) /\ tree.rows \in Seq(Rows)
      BY DEF WorkflowTypeOK, Trees
    <3>2. \A rows \in Seq(Rows) : \A i \in 1 .. Len(rows) : rows[i] \in Rows
      OBVIOUS
    <3>3. \A row \in Rows : row.hour \in Nat
      BY DEF Rows, Hours
    <3> QED
      BY <2>1, <3>1, <3>2, <3>3 DEF Hours
  <2>3. WorkflowTypeOK'
    BY <2>1, <2>2 DEF WorkflowTypeOK
  <2>4. Past(main.rows)' /\ Past(tree.rows)'
    BY <2>1, <2>2 DEF Past
  <2>5. ~SampledAt(tree.rows, hour')
    BY <2>1, <2>2 DEF Past, SampledAt
  <2>6. TreeInStep'
    BY <2>1, <2>5 DEF TreeInStep, SampledAt, Extends
  <2> QED
    BY <2>1, <2>3, <2>4, <2>6 DEF OneEach, SkippedHourIsSampled, SampledAt, DashboardCurrent
<1>11. CASE UNCHANGED workflowVars
  BY <1>11 DEF workflowVars, WorkflowTypeOK, Past, OneEach, TreeInStep, SkippedHourIsSampled,
     SampledAt, DashboardCurrent
<1> QED
  BY <1>1, <1>2, <1>3, <1>4, <1>5, <1>6, <1>7, <1>8, <1>9, <1>10, <1>11 DEF WorkflowNext, Job

LEMMA WorkflowInvHolds == WorkflowSpec => []WorkflowInv
  BY WorkflowInitInv, WorkflowStep, PTL DEF WorkflowSpec

(* Type correctness.                                                       *)
THEOREM WorkflowTypeCorrect == WorkflowSpec => []WorkflowTypeOK
<1>1. WorkflowInv => WorkflowTypeOK
  BY DEF WorkflowInv
<1> QED
  BY <1>1, WorkflowInvHolds, PTL

(* main never has two samples of one hour, however many jobs are asked     *)
(* for and wherever the hour turns.                                        *)
THEOREM HourSampledOnce == WorkflowSpec => []OneSampleAnHour
<1>1. WorkflowInv => OneSampleAnHour
  BY DEF WorkflowInv, OneEach, OneSampleAnHour
<1> QED
  BY <1>1, WorkflowInvHolds, PTL

(* A job skips only an hour that has a sample on main and keeps it.        *)
THEOREM SkippedHourAlwaysSampled == WorkflowSpec => []SkippedHourIsSampled
<1>1. WorkflowInv => SkippedHourIsSampled
  BY DEF WorkflowInv
<1> QED
  BY <1>1, WorkflowInvHolds, PTL

(* The dashboard's data is always of the database beside it.               *)
THEOREM DashboardAlwaysCurrent == WorkflowSpec => []DashboardCurrent
<1>1. WorkflowInv => DashboardCurrent
  BY DEF WorkflowInv
<1> QED
  BY <1>1, WorkflowInvHolds, PTL

(* No push of a job drops an edit or a row that is on main.                *)
THEOREM PushesAlwaysKept == WorkflowSpec => PushesKept
<1> DEFINE Kept == main'.edits >= main.edits /\ Extends(main'.rows, main.rows)
<1>1. WorkflowInv /\ [WorkflowNext]_workflowVars => [Kept]_workflowVars
  <2> SUFFICES ASSUME WorkflowInv, WorkflowNext PROVE Kept
    OBVIOUS
  <2>1. main \in Trees /\ main.edits \in Nat /\ Len(main.rows) \in Nat
    BY DEF WorkflowInv, WorkflowTypeOK, Trees
  <2>2. CASE Push
    <3>1. /\ main' = tree /\ tree.edits = main.edits /\ Extends(tree.rows, main.rows)
      BY <2>2 DEF Push, LeaseHolds, WorkflowInv, TreeInStep, Steps
    <3> QED
      BY <2>1, <3>1
  <2>3. CASE ManualPush
    BY <2>1, <2>3 DEF ManualPush, Trees, Extends
  <2>4. CASE ~Push /\ ~ManualPush
    <3>1. main' = main
      BY <2>4 DEF WorkflowNext, StartJob, Job, Checkout, Guard, Record, Export, StepFails,
         TimeLimit, EndJob, Trigger, Schedule, CronStartsScript, Dispatched, DispatchFails,
         HourPasses
    <3> QED
      BY <2>1, <3>1 DEF Extends
  <2> QED
    BY <2>2, <2>3, <2>4
<1> QED
  BY <1>1, WorkflowInvHolds, PTL DEF WorkflowSpec, PushesKept
=============================================================================
