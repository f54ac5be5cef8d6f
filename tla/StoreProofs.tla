----------------------------- MODULE StoreProofs -----------------------------
(***************************************************************************)
(* Proofs about Store, for any number of runs, overlapping or not, of      *)
(* kills, and any file of an earlier version.                              *)
(*                                                                         *)
(* Whoever holds the lock knows what it will commit: the database as it    *)
(* is, rebuilt or with one more row, because nobody else can write in the  *)
(* meantime.  No write but an INSERT makes or unmakes a row of a run.      *)
(***************************************************************************)
EXTENDS Store, FiniteSetTheorems, SequenceTheorems, TLAPS

Locked == {"commitRebuild", "commitRow"}
Places == {"off", "create", "checkNotNull", "createNew", "rebuild", "commitRebuild",
           "checkActive", "addActive", "insert", "commitRow"} \cup Ended

Total(r) == IF sample[r] = "read" THEN "known" ELSE "null"

(* Row(r) and no other is of run r; or no row is.                          *)
Recorded(r) ==
    IF pc[r] = "closed"
      THEN \E i \in DOMAIN db.rows : RowsOf(r) = {i} /\ db.rows[i].total = Total(r)
      ELSE RowsOf(r) = {}

(* What an open transaction will commit                                    *)
Pending(r) ==
    /\ pc[r] = "commitRebuild" => work = Rebuilt(db)
    /\ pc[r] = "commitRow" => work = [db EXCEPT !.rows = Append(@, Row(r))]

(* A transaction is open exactly while its run is about to commit it, and  *)
(* without one nothing is uncommitted.                                     *)
LockInStep ==
    /\ \A r \in Runs : holder = r <=> pc[r] \in Locked
    /\ holder = NoRun => work = db

(* There is a table before there is a row, or a run that has passed the    *)
(* first statement.                                                        *)
TableThere ==
    db.table = "none" => /\ db.rows = <<>>
                         /\ \A r \in Runs : pc[r] \in {"off", "create"} \cup Ended

StoreInv ==
    /\ StoreTypeOK
    /\ LockInStep
    /\ \A r \in Runs : Recorded(r) /\ Pending(r)
    /\ TableThere

(* The same rows, but for the column active                                *)
Alike(s, t) ==
    /\ DOMAIN s = DOMAIN t
    /\ \A i \in DOMAIN s : s[i].run = t[i].run /\ s[i].total = t[i].total
-----------------------------------------------------------------------------
LEMMA StoreInitInv == StoreInit => StoreInv
<1> SUFFICES ASSUME StoreInit PROVE StoreInv
  OBVIOUS
<1>1. db \in Legacy /\ db \in Files /\ work = db /\ holder = NoRun
  BY LegacyAssumption DEF StoreInit
<1>2. StoreTypeOK
  <2>1. pc \in [Runs -> Places] /\ needs \in [Runs -> BOOLEAN] /\ sample \in [Runs -> Samples]
    BY DEF StoreInit, Places, Samples
  <2>2. kills \in 0 .. MaxKills
    BY KillsAssumption DEF StoreInit
  <2> QED BY <1>1, <2>1, <2>2 DEF StoreTypeOK, Places
<1>3. LockInStep
  BY <1>1, NoRunAssumption DEF StoreInit, LockInStep, Locked
<1>4. ASSUME NEW r \in Runs PROVE Recorded(r) /\ Pending(r)
  <2>1. pc[r] = "off"
    BY DEF StoreInit
  <2>2. RowsOf(r) = {}
    BY <1>1, OldRowsAssumption, NoRunAssumption DEF RowsOf
  <2> QED BY <2>1, <2>2 DEF Recorded, Pending
<1>5. TableThere
  BY <1>1, OldRowsAssumption DEF StoreInit, TableThere
<1> QED BY <1>2, <1>3, <1>4, <1>5 DEF StoreInv

(* Rows that are alike are of the same runs, with the same totals.         *)
LEMMA RowsAlike ==
    ASSUME NEW r \in Runs, Recorded(r), Alike(db.rows, db'.rows),
           pc'[r] = "closed" <=> pc[r] = "closed",
           pc[r] = "closed" => sample'[r] = sample[r]
    PROVE  Recorded(r)'
<1>1. RowsOf(r)' = RowsOf(r)
  BY DEF RowsOf, Alike
<1>2. CASE pc[r] = "closed"
  <2>1. PICK i \in DOMAIN db.rows : RowsOf(r) = {i} /\ db.rows[i].total = Total(r)
    BY <1>2 DEF Recorded
  <2>2. i \in DOMAIN db'.rows /\ db'.rows[i].total = Total(r)'
    BY <1>2, <2>1 DEF Alike, Total
  <2> QED BY <1>1, <1>2, <2>1, <2>2 DEF Recorded
<1>3. CASE pc[r] # "closed"
  BY <1>1, <1>3 DEF Recorded
<1> QED BY <1>2, <1>3

(* A run moves on, and the file, the transaction and the lock stay.        *)
LEMMA QuietStep ==
    ASSUME StoreInv, NEW r \in Runs, NEW next \in Places \ (Locked \cup {"closed"}),
           pc[r] \notin Locked \cup {"closed"}, Goto(r, next),
           needs' \in [Runs -> BOOLEAN], sample' \in [Runs -> Samples],
           \A q \in Runs \ {r} : sample'[q] = sample[q],
           next \in {"create"} \cup Ended \/ db.table # "none",
           kills' \in 0 .. MaxKills, UNCHANGED <<db, work, holder>>
    PROVE  StoreInv'
<1> USE DEF StoreInv
<1>1. pc' \in [Runs -> Places] /\ pc'[r] = next /\ \A q \in Runs \ {r} : pc'[q] = pc[q]
  BY DEF StoreTypeOK, Places, Goto
<1>2. StoreTypeOK'
  BY <1>1 DEF StoreTypeOK, Places
<1>3. LockInStep'
  BY <1>1 DEF LockInStep, Locked
<1>4. ASSUME NEW q \in Runs PROVE Recorded(q)' /\ Pending(q)'
  <2>1. Recorded(q)'
    <3>1. Recorded(q) /\ Alike(db.rows, db'.rows)
      BY DEF Alike
    <3>2. (pc'[q] = "closed" <=> pc[q] = "closed") /\ (pc[q] = "closed" => sample'[q] = sample[q])
      BY <1>1
    <3> QED BY <3>1, <3>2, RowsAlike
  <2>2. Pending(q)'
    <3>1. CASE q = r
      BY <1>1, <3>1 DEF Pending, Locked
    <3>2. CASE q # r
      <4>1. Pending(q) /\ pc'[q] = pc[q] /\ sample'[q] = sample[q]
        BY <1>1, <3>2
      <4> QED BY <4>1 DEF Pending, Row
    <3> QED BY <3>1, <3>2
  <2> QED BY <2>1, <2>2
<1>5. TableThere'
  BY <1>1 DEF TableThere
<1> QED BY <1>2, <1>3, <1>4, <1>5

(* A write that is committed at once, and keeps the rows.                  *)
LEMMA WriteStep ==
    ASSUME StoreInv, NEW r \in Runs, NEW next \in Places \ (Locked \cup {"closed"}),
           pc[r] \notin Locked \cup {"closed"}, Goto(r, next),
           NEW new \in Files, Autocommit(new), new.rows = db.rows, new.table # "none",
           UNCHANGED <<needs, sample, holder, kills>>
    PROVE  StoreInv'
<1> USE DEF StoreInv
<1>1. pc' \in [Runs -> Places] /\ pc'[r] = next /\ \A q \in Runs \ {r} : pc'[q] = pc[q]
  BY DEF StoreTypeOK, Places, Goto
<1>2. holder = NoRun /\ db' = new /\ work' = new
  BY DEF Autocommit
<1>3. StoreTypeOK'
  BY <1>1, <1>2 DEF StoreTypeOK, Places
<1>4. \A q \in Runs : pc[q] \notin Locked /\ pc'[q] \notin Locked
  BY <1>1, <1>2, NoRunAssumption DEF LockInStep, Locked
<1>5. LockInStep'
  BY <1>2, <1>4, NoRunAssumption DEF LockInStep, Locked
<1>6. ASSUME NEW q \in Runs PROVE Recorded(q)' /\ Pending(q)'
  <2>1. Recorded(q)'
    <3>1. Recorded(q) /\ Alike(db.rows, db'.rows)
      BY <1>2 DEF Alike
    <3>2. pc'[q] = "closed" <=> pc[q] = "closed"
      BY <1>1
    <3> QED BY <3>1, <3>2, RowsAlike
  <2>2. Pending(q)'
    BY <1>4 DEF Pending, Locked
  <2> QED BY <2>1, <2>2
<1>7. TableThere'
  BY <1>2 DEF TableThere
<1> QED BY <1>3, <1>5, <1>6, <1>7

(* A run opens a transaction: nothing of it is committed yet.              *)
LEMMA BeginStep ==
    ASSUME StoreInv, NEW r \in Runs, NEW next \in Locked,
           pc[r] \notin Locked \cup {"closed"}, Goto(r, next),
           NEW new \in Files, Begin(r, new), db.table # "none",
           next = "commitRebuild" => new = Rebuilt(db),
           next = "commitRow" => new = [db EXCEPT !.rows = Append(@, Row(r))],
           UNCHANGED <<needs, sample, db, kills>>
    PROVE  StoreInv'
<1> USE DEF StoreInv
<1>1. /\ pc' \in [Runs -> Places] /\ pc'[r] = next /\ next # "closed"
      /\ \A q \in Runs \ {r} : pc'[q] = pc[q]
  BY DEF StoreTypeOK, Places, Goto, Locked
<1>2. holder = NoRun /\ holder' = r /\ work' = new
  BY DEF Begin
<1>3. StoreTypeOK'
  BY <1>1, <1>2 DEF StoreTypeOK, Places
<1>4. \A q \in Runs : pc[q] \notin Locked
  BY <1>2, NoRunAssumption DEF LockInStep, Locked
<1>5. LockInStep'
  <2>1. \A q \in Runs : holder' = q <=> pc'[q] \in Locked
    BY <1>1, <1>2, <1>4
  <2>2. holder' # NoRun
    BY <1>2, NoRunAssumption
  <2> QED BY <2>1, <2>2 DEF LockInStep, Locked
<1>6. ASSUME NEW q \in Runs PROVE Recorded(q)' /\ Pending(q)'
  <2>1. Recorded(q)'
    <3>1. Recorded(q) /\ Alike(db.rows, db'.rows)
      BY DEF Alike
    <3>2. pc'[q] = "closed" <=> pc[q] = "closed"
      BY <1>1
    <3> QED BY <3>1, <3>2, RowsAlike
  <2>2. Pending(q)'
    <3>1. CASE q = r
      BY <1>1, <1>2, <3>1 DEF Pending, Row
    <3>2. CASE q # r
      BY <1>1, <1>4, <3>2 DEF Pending, Locked
    <3> QED BY <3>1, <3>2
  <2> QED BY <2>1, <2>2
<1>7. TableThere'
  BY DEF TableThere
<1> QED BY <1>3, <1>5, <1>6, <1>7

LEMMA RebuiltAlike ==
    ASSUME NEW d \in Files
    PROVE  Rebuilt(d) \in Files /\ Alike(d.rows, Rebuilt(d).rows) /\ Rebuilt(d).table = "nullable"
<1>1. d.rows \in Seq(Rows)
  BY DEF Files
<1> DEFINE copied == [i \in DOMAIN d.rows |-> [d.rows[i] EXCEPT !.active = "null"]]
<1>2. \A i \in DOMAIN d.rows : [d.rows[i] EXCEPT !.active = "null"] \in Rows
  <2> SUFFICES ASSUME NEW i \in DOMAIN d.rows
               PROVE  [d.rows[i] EXCEPT !.active = "null"] \in Rows
    OBVIOUS
  <2>1. d.rows[i] \in Rows
    BY <1>1
  <2>2. PICK row \in Rows : row = d.rows[i]
    BY <2>1
  <2>3. [row EXCEPT !.active = "null"]
          = [run |-> row.run, total |-> row.total, active |-> "null"]
    BY DEF Rows
  <2>4. row.run \in Runs \cup {NoRun} /\ row.total \in Counts /\ "null" \in Counts
    BY DEF Rows, Counts
  <2> QED BY <2>2, <2>3, <2>4 DEF Rows
<1>3. copied \in Seq(Rows)
  <2>1. DOMAIN d.rows = 1 .. Len(d.rows) /\ Len(d.rows) \in Nat
    BY <1>1
  <2> QED BY <1>2, <2>1
<1>4. Alike(d.rows, copied)
  BY <1>1 DEF Alike, Rows
<1> HIDE DEF copied
<1>5. Rebuilt(d) = [table |-> "nullable", active |-> FALSE, spare |-> FALSE, rows |-> copied]
  BY DEF Rebuilt, copied
<1> QED BY <1>3, <1>4, <1>5 DEF Files

LEMMA RowAppended ==
    ASSUME NEW r \in Runs, NEW d \in Files, sample[r] \in Samples
    PROVE  LET new == [d EXCEPT !.rows = Append(@, Row(r))]
           IN  /\ new \in Files /\ new.table = d.table
               /\ new.rows = Append(d.rows, Row(r))
               /\ DOMAIN new.rows = DOMAIN d.rows \cup {Len(d.rows) + 1}
               /\ Len(d.rows) + 1 \notin DOMAIN d.rows
               /\ new.rows[Len(d.rows) + 1] = Row(r)
               /\ \A i \in DOMAIN d.rows : new.rows[i] = d.rows[i]
<1> DEFINE new == [d EXCEPT !.rows = Append(@, Row(r))]
<1>1. d.rows \in Seq(Rows) /\ Row(r) \in Rows
  <2>1. d.rows \in Seq(Rows)
    BY DEF Files
  <2>2. Total(r) \in Counts
    BY DEF Total, Counts
  <2>3. Row(r) = [run |-> r, total |-> Total(r), active |-> Total(r)]
    BY DEF Row, Total
  <2> QED BY <2>1, <2>2, <2>3 DEF Rows
<1>2. new \in Files /\ new.table = d.table /\ new.rows = Append(d.rows, Row(r))
  <2>1. Append(d.rows, Row(r)) \in Seq(Rows)
    BY <1>1
  <2> QED BY <2>1 DEF Files
<1> HIDE DEF new
<1>3. Len(Append(d.rows, Row(r))) = Len(d.rows) + 1 /\ Len(d.rows) \in Nat
  BY <1>1
<1>4. DOMAIN Append(d.rows, Row(r)) = 1 .. (Len(d.rows) + 1) /\ DOMAIN d.rows = 1 .. Len(d.rows)
  BY <1>1, <1>3
<1>5. Append(d.rows, Row(r))[Len(d.rows) + 1] = Row(r)
      /\ \A i \in DOMAIN d.rows : Append(d.rows, Row(r))[i] = d.rows[i]
  BY <1>1, <1>4
<1>6. DOMAIN Append(d.rows, Row(r)) = DOMAIN d.rows \cup {Len(d.rows) + 1}
      /\ Len(d.rows) + 1 \notin DOMAIN d.rows
  BY <1>3, <1>4
<1> QED BY <1>2, <1>5, <1>6 DEF new

(* Only the holder of the lock is about to commit.                         *)
LEMMA OneHolder ==
    ASSUME StoreInv, NEW r \in Runs, holder = r
    PROVE  pc[r] \in Locked /\ \A q \in Runs \ {r} : pc[q] \notin Locked
BY DEF StoreInv, LockInStep, Locked

(* The transaction of r ends, and no other is open.                        *)
LEMMA LockReleased ==
    ASSUME StoreInv, NEW r \in Runs, holder = r, NEW next \in Places \ Locked,
           Goto(r, next), holder' = NoRun, work' = db'
    PROVE  /\ LockInStep'
           /\ \A q \in Runs : Pending(q)'
           /\ pc' \in [Runs -> Places] /\ pc'[r] = next
           /\ \A q \in Runs \ {r} : pc'[q] = pc[q]
<1>1. /\ pc' \in [Runs -> Places] /\ pc'[r] = next
      /\ \A q \in Runs \ {r} : pc'[q] = pc[q]
  BY DEF StoreInv, StoreTypeOK, Places, Goto
<1>2. \A q \in Runs : pc'[q] \notin Locked
  BY <1>1, OneHolder
<1>3. LockInStep'
  BY <1>2, NoRunAssumption DEF LockInStep, Locked
<1>4. \A q \in Runs : Pending(q)'
  BY <1>2 DEF Pending, Locked
<1> QED BY <1>1, <1>3, <1>4

LEMMA CommitRebuildStep ==
    ASSUME StoreInv, NEW r \in Runs, CommitRebuild(r)
    PROVE  StoreInv' /\ Alike(db.rows, db'.rows)
<1> USE DEF StoreInv
<1>1. /\ pc[r] = "commitRebuild" /\ Goto(r, "checkActive") /\ holder = r
      /\ db' = work /\ work' = work /\ holder' = NoRun
      /\ UNCHANGED <<needs, sample, kills>>
  BY DEF CommitRebuild, Commit
<1>2. work = Rebuilt(db) /\ db \in Files
  BY <1>1 DEF Pending, StoreTypeOK
<1>3. db' \in Files /\ Alike(db.rows, db'.rows) /\ db'.table = "nullable"
  BY <1>1, <1>2, RebuiltAlike
<1>4. "checkActive" \in Places \ Locked
  BY DEF Places, Locked
<1>5. /\ LockInStep' /\ \A q \in Runs : Pending(q)'
      /\ pc' \in [Runs -> Places] /\ pc'[r] = "checkActive"
      /\ \A q \in Runs \ {r} : pc'[q] = pc[q]
  BY <1>1, <1>4, LockReleased
<1>6. StoreTypeOK'
  BY <1>1, <1>3, <1>5 DEF StoreTypeOK, Places
<1>7. ASSUME NEW q \in Runs PROVE Recorded(q)'
  <2>1. Recorded(q) /\ (pc'[q] = "closed" <=> pc[q] = "closed") /\ sample'[q] = sample[q]
    BY <1>1, <1>5
  <2> QED BY <1>3, <2>1, RowsAlike
<1>8. TableThere'
  BY <1>3 DEF TableThere
<1> QED BY <1>3, <1>5, <1>6, <1>7, <1>8

LEMMA CommitRowStep ==
    ASSUME StoreInv, NEW r \in Runs, CommitRow(r)
    PROVE  /\ StoreInv'
           /\ \A i \in DOMAIN db.rows : i \in DOMAIN db'.rows /\ db'.rows[i] = db.rows[i]
<1> USE DEF StoreInv
<1>1. /\ pc[r] = "commitRow" /\ Goto(r, "closed") /\ holder = r
      /\ db' = work /\ work' = work /\ holder' = NoRun
      /\ UNCHANGED <<needs, sample, kills>>
  BY DEF CommitRow, Commit
<1>2. db' = [db EXCEPT !.rows = Append(@, Row(r))] /\ db \in Files /\ sample[r] \in Samples
  BY <1>1 DEF Pending, StoreTypeOK
<1> DEFINE last == Len(db.rows) + 1
<1>3. /\ db' \in Files /\ db'.table = db.table
      /\ DOMAIN db'.rows = DOMAIN db.rows \cup {last} /\ last \notin DOMAIN db.rows
      /\ db'.rows[last] = Row(r)
      /\ \A i \in DOMAIN db.rows : db'.rows[i] = db.rows[i]
  BY <1>2, RowAppended
<1> HIDE DEF last
<1>4. "closed" \in Places \ Locked
  BY DEF Places, Locked, Ended
<1>5. /\ LockInStep' /\ \A q \in Runs : Pending(q)'
      /\ pc' \in [Runs -> Places] /\ pc'[r] = "closed"
      /\ \A q \in Runs \ {r} : pc'[q] = pc[q]
  BY <1>1, <1>4, LockReleased
<1>6. StoreTypeOK'
  BY <1>1, <1>3, <1>5 DEF StoreTypeOK, Places
<1>7. ASSUME NEW q \in Runs PROVE Recorded(q)'
  <2>1. Row(r).run = r /\ Row(r).total = Total(r)
    BY DEF Row, Total
  <2>2. CASE q = r
    <3>1. RowsOf(r) = {}
      BY <1>1 DEF Recorded
    <3>2. RowsOf(r)' = {last}
      BY <1>3, <2>1, <3>1 DEF RowsOf
    <3>3. last \in DOMAIN db'.rows /\ db'.rows[last].total = Total(r)'
      BY <1>1, <1>3, <2>1 DEF Total
    <3> QED BY <1>5, <2>2, <3>2, <3>3 DEF Recorded
  <2>3. CASE q # r
    <3>1. RowsOf(q)' = RowsOf(q)
      BY <1>3, <2>1, <2>3 DEF RowsOf
    <3>2. pc'[q] = pc[q] /\ Recorded(q)
      BY <1>5, <2>3
    <3>3. CASE pc[q] = "closed"
      <4>1. PICK i \in DOMAIN db.rows : RowsOf(q) = {i} /\ db.rows[i].total = Total(q)
        BY <3>2, <3>3 DEF Recorded
      <4>2. i \in DOMAIN db'.rows /\ db'.rows[i].total = Total(q)'
        BY <1>1, <1>3, <4>1 DEF Total
      <4> QED BY <3>1, <3>2, <3>3, <4>1, <4>2 DEF Recorded
    <3>4. CASE pc[q] # "closed"
      BY <3>1, <3>2, <3>4 DEF Recorded
    <3> QED BY <3>3, <3>4
  <2> QED BY <2>2, <2>3
<1>8. TableThere'
  <2>1. db.table # "none"
    BY <1>1 DEF TableThere, Ended
  <2> QED BY <1>3, <2>1 DEF TableThere
<1> QED BY <1>3, <1>5, <1>6, <1>7, <1>8

(* A run is killed, or cannot commit: its transaction is undone.           *)
LEMMA AbortStep ==
    ASSUME StoreInv, NEW r \in Runs, Kill(r) \/ CommitFails(r)
    PROVE  StoreInv' /\ db' = db
<1> USE DEF StoreInv
<1>1. PICK end \in {"killed", "raised"} :
        /\ pc[r] \notin {"off"} \cup Ended /\ Goto(r, end)
        /\ kills' \in 0 .. MaxKills /\ RolledBack(r)
        /\ UNCHANGED <<needs, sample, db>>
  BY KillsAssumption DEF Kill, CommitFails, StoreTypeOK, Ended
<1>2. end \in Places \ (Locked \cup {"closed"}) /\ end \in Ended
  BY DEF Places, Locked, Ended
<1>3. CASE holder # r
  <2>1. pc[r] \notin Locked \cup {"closed"}
    BY <1>1, <1>3 DEF LockInStep, Locked, Ended
  <2>2. UNCHANGED <<holder, work>> /\ end \in {"create"} \cup Ended
    BY <1>1, <1>2, <1>3 DEF RolledBack
  <2>3. needs' \in [Runs -> BOOLEAN] /\ sample' \in [Runs -> Samples]
    BY <1>1 DEF StoreTypeOK
  <2> QED BY <1>1, <1>2, <2>1, <2>2, <2>3, QuietStep
<1>4. CASE holder = r
  <2>1. holder' = NoRun /\ work' = db'
    BY <1>1, <1>4 DEF RolledBack
  <2>2. /\ LockInStep' /\ \A q \in Runs : Pending(q)'
        /\ pc' \in [Runs -> Places] /\ pc'[r] = end
        /\ \A q \in Runs \ {r} : pc'[q] = pc[q]
    BY <1>1, <1>2, <1>4, <2>1, LockReleased
  <2>3. StoreTypeOK'
    BY <1>1, <2>1, <2>2 DEF StoreTypeOK, Places
  <2>4. ASSUME NEW q \in Runs PROVE Recorded(q)'
    <3>1. Alike(db.rows, db'.rows)
      BY <1>1 DEF Alike
    <3>2. pc'[q] = "closed" <=> pc[q] = "closed"
      BY <1>1, <1>2, <2>2 DEF Ended
    <3> QED BY <1>1, <3>1, <3>2, RowsAlike
  <2>5. TableThere'
    BY <1>1, <1>2, <2>2 DEF TableThere
  <2> QED BY <1>1, <2>2, <2>3, <2>4, <2>5
<1> QED BY <1>3, <1>4
-----------------------------------------------------------------------------
(* One lemma per action that is left, with what it keeps of the rows       *)
Kept == /\ DOMAIN db.rows \subseteq DOMAIN db'.rows
        /\ \A i \in DOMAIN db.rows : /\ db'.rows[i].run = db.rows[i].run
                                     /\ db'.rows[i].total = db.rows[i].total

(* The actions that only move on                                           *)
LEMMA QuietSteps ==
    ASSUME StoreInv, NEW r \in Runs,
           \/ \E s \in Samples : Open(r, s)
           \/ CheckNotNull(r) \/ CreateNewFails(r) \/ CheckActive(r)
           \/ AddActiveFails(r) \/ InsertFails(r) \/ Busy(r)
           \/ CreateTable(r) /\ db.table # "none"
    PROVE  StoreInv' /\ db' = db
<1>1. /\ needs \in [Runs -> BOOLEAN] /\ sample \in [Runs -> Samples] /\ kills \in 0 .. MaxKills
      /\ TableThere
  BY DEF StoreInv, StoreTypeOK
<1> DEFINE Next(next) == next \in Places \ (Locked \cup {"closed"})
<1>2. Next("create") /\ Next("checkNotNull") /\ Next("createNew") /\ Next("checkActive")
      /\ Next("insert") /\ Next("addActive") /\ Next("raised")
  BY DEF Places, Locked, Ended
<1> HIDE DEF Next
<1>3. CASE \E s \in Samples : Open(r, s)
  <2> PICK s \in Samples : Open(r, s)
    BY <1>3
  <2>1. /\ pc[r] = "off" /\ Goto(r, "create") /\ sample' = [sample EXCEPT ![r] = s]
        /\ UNCHANGED <<needs, db, work, holder, kills>>
    BY DEF Open
  <2>2. sample' \in [Runs -> Samples] /\ \A q \in Runs \ {r} : sample'[q] = sample[q]
    BY <1>1, <2>1
  <2>3. pc[r] \notin Locked \cup {"closed"}
    BY <2>1 DEF Locked
  <2> QED BY <1>1, <1>2, <2>1, <2>2, <2>3, QuietStep DEF Next
<1>4. CASE CheckNotNull(r)
  <2>1. PICK next \in {"createNew", "checkActive"} : Goto(r, next)
    BY <1>4 DEF CheckNotNull
  <2>2. /\ pc[r] = "checkNotNull" /\ needs' \in [Runs -> BOOLEAN]
        /\ UNCHANGED <<sample, db, work, holder, kills>>
    BY <1>1, <1>4 DEF CheckNotNull, NeedsRebuild
  <2>3. pc[r] \notin Locked \cup {"closed"} /\ db.table # "none"
    BY <1>1, <2>2 DEF Locked, TableThere, Ended
  <2> QED BY <1>1, <1>2, <2>1, <2>2, <2>3, QuietStep DEF Next
<1>5. CASE CheckActive(r)
  <2>1. PICK next \in {"insert", "addActive"} : Goto(r, next)
    BY <1>5 DEF CheckActive
  <2>2. pc[r] = "checkActive" /\ UNCHANGED <<needs, sample, db, work, holder, kills>>
    BY <1>5 DEF CheckActive
  <2>3. pc[r] \notin Locked \cup {"closed"} /\ db.table # "none"
    BY <1>1, <2>2 DEF Locked, TableThere, Ended
  <2> QED BY <1>1, <1>2, <2>1, <2>2, <2>3, QuietStep DEF Next
<1>6. CASE CreateNewFails(r) \/ AddActiveFails(r) \/ InsertFails(r) \/ Busy(r)
  <2>1. /\ pc[r] \in {"create", "createNew", "rebuild", "addActive", "insert"}
        /\ Goto(r, "raised") /\ UNCHANGED <<needs, sample, db, work, holder, kills>>
    BY <1>6 DEF CreateNewFails, AddActiveFails, InsertFails, Busy, NeedsLock
  <2>2. pc[r] \notin Locked \cup {"closed"} /\ "raised" \in {"create"} \cup Ended
    BY <2>1 DEF Locked, Ended
  <2> QED BY <1>1, <1>2, <2>1, <2>2, QuietStep DEF Next
<1>7. CASE CreateTable(r) /\ db.table # "none"
  <2>1. /\ pc[r] = "create" /\ Goto(r, "checkNotNull")
        /\ UNCHANGED <<needs, sample, db, work, holder, kills>>
    BY <1>7 DEF CreateTable
  <2>2. pc[r] \notin Locked \cup {"closed"}
    BY <2>1 DEF Locked
  <2> QED BY <1>1, <1>2, <1>7, <2>1, <2>2, QuietStep DEF Next
<1> QED BY <1>3, <1>4, <1>5, <1>6, <1>7

(* The DDL that commits itself                                             *)
LEMMA WriteSteps ==
    ASSUME StoreInv, NEW r \in Runs,
           (CreateTable(r) /\ db.table = "none") \/ CreateNew(r) \/ AddActive(r)
    PROVE  StoreInv' /\ db'.rows = db.rows
<1>1. TableThere /\ db \in Files
  BY DEF StoreInv, StoreTypeOK
<1>2. CASE CreateTable(r) /\ db.table = "none"
  <2>1. /\ pc[r] = "create" /\ Goto(r, "checkNotNull") /\ Autocommit(NewTable)
        /\ UNCHANGED <<needs, sample, holder, kills>>
    BY <1>2 DEF CreateTable
  <2>2. NewTable \in Files /\ NewTable.rows = db.rows /\ NewTable.table # "none"
    <3>1. db.rows = <<>> /\ <<>> \in Seq(Rows) /\ db.spare \in BOOLEAN
      BY <1>1, <1>2 DEF TableThere, Files
    <3> QED BY <3>1 DEF NewTable, Files
  <2>3. pc[r] \notin Locked \cup {"closed"} /\ "checkNotNull" \in Places \ (Locked \cup {"closed"})
    BY <2>1 DEF Locked, Places
  <2>4. StoreInv'
    BY <2>1, <2>2, <2>3, WriteStep
  <2> QED BY <2>1, <2>2, <2>4 DEF Autocommit
<1>3. CASE CreateNew(r)
  <2> DEFINE new == [db EXCEPT !.spare = TRUE]
  <2>1. /\ pc[r] = "createNew" /\ Goto(r, "rebuild") /\ Autocommit(new)
        /\ UNCHANGED <<needs, sample, holder, kills>>
    BY <1>3 DEF CreateNew
  <2>2. db.table # "none"
    BY <1>1, <2>1 DEF TableThere, Ended
  <2>3. new \in Files /\ new.rows = db.rows /\ new.table # "none"
    BY <1>1, <2>2 DEF Files
  <2>4. pc[r] \notin Locked \cup {"closed"} /\ "rebuild" \in Places \ (Locked \cup {"closed"})
    BY <2>1 DEF Locked, Places
  <2> HIDE DEF new
  <2>5. StoreInv'
    BY <2>1, <2>3, <2>4, WriteStep
  <2> QED BY <2>1, <2>3, <2>5 DEF Autocommit
<1>4. CASE AddActive(r)
  <2> DEFINE new == [db EXCEPT !.active = TRUE]
  <2>1. /\ pc[r] = "addActive" /\ Goto(r, "insert") /\ Autocommit(new)
        /\ UNCHANGED <<needs, sample, holder, kills>>
    BY <1>4 DEF AddActive
  <2>2. db.table # "none"
    BY <1>1, <2>1 DEF TableThere, Ended
  <2>3. new \in Files /\ new.rows = db.rows /\ new.table # "none"
    BY <1>1, <2>2 DEF Files
  <2>4. pc[r] \notin Locked \cup {"closed"} /\ "insert" \in Places \ (Locked \cup {"closed"})
    BY <2>1 DEF Locked, Places
  <2> HIDE DEF new
  <2>5. StoreInv'
    BY <2>1, <2>3, <2>4, WriteStep
  <2> QED BY <2>1, <2>3, <2>5 DEF Autocommit
<1> QED BY <1>2, <1>3, <1>4

(* The statements that open a transaction                                  *)
LEMMA BeginSteps ==
    ASSUME StoreInv, NEW r \in Runs, Rebuild(r) \/ Insert(r)
    PROVE  StoreInv' /\ db' = db
<1>1. TableThere /\ db \in Files /\ sample[r] \in Samples
  BY DEF StoreInv, StoreTypeOK
<1>2. CASE Rebuild(r)
  <2>1. /\ pc[r] = "rebuild" /\ Goto(r, "commitRebuild") /\ Begin(r, Rebuilt(db))
        /\ UNCHANGED <<needs, sample, db, kills>>
    BY <1>2 DEF Rebuild
  <2>2. Rebuilt(db) \in Files /\ db.table # "none"
    BY <1>1, <2>1, RebuiltAlike DEF TableThere, Ended
  <2>3. pc[r] \notin Locked \cup {"closed"} /\ "commitRebuild" \in Locked
    BY <2>1 DEF Locked
  <2> QED BY <2>1, <2>2, <2>3, BeginStep
<1>3. CASE Insert(r)
  <2> DEFINE new == [db EXCEPT !.rows = Append(@, Row(r))]
  <2>1. /\ pc[r] = "insert" /\ Goto(r, "commitRow") /\ Begin(r, new)
        /\ UNCHANGED <<needs, sample, db, kills>>
    BY <1>3 DEF Insert
  <2>2. new \in Files /\ db.table # "none"
    BY <1>1, <2>1, RowAppended DEF TableThere, Ended
  <2>3. pc[r] \notin Locked \cup {"closed"} /\ "commitRow" \in Locked
    BY <2>1 DEF Locked
  <2> QED BY <2>1, <2>2, <2>3, BeginStep
<1> QED BY <1>2, <1>3

LEMMA StoreNextInv == StoreInv /\ [StoreNext]_storeVars => StoreInv' /\ Kept
<1> SUFFICES ASSUME StoreInv, [StoreNext]_storeVars PROVE StoreInv' /\ Kept
  OBVIOUS
<1>1. CASE UNCHANGED storeVars
  <2>1. Kept
    BY <1>1 DEF storeVars, Kept
  <2>2. /\ pc' = pc /\ needs' = needs /\ sample' = sample /\ db' = db
        /\ work' = work /\ holder' = holder /\ kills' = kills
    BY <1>1 DEF storeVars
  <2>3. StoreTypeOK' /\ LockInStep' /\ TableThere'
    BY <2>2 DEF StoreInv, StoreTypeOK, LockInStep, TableThere
  <2>4. \A r \in Runs : Recorded(r)' /\ Pending(r)'
    BY <2>2 DEF StoreInv, Recorded, Pending, RowsOf, Total, Row
  <2> QED BY <2>1, <2>3, <2>4 DEF StoreInv
<1>2. CASE StoreNext
  <2> PICK r \in Runs : \/ \E s \in Samples : Open(r, s)
                        \/ Step(r) \/ Busy(r) \/ CommitFails(r) \/ Kill(r)
    BY <1>2 DEF StoreNext
  <2>1. CASE \/ \E s \in Samples : Open(r, s)
             \/ CheckNotNull(r) \/ CreateNewFails(r) \/ CheckActive(r)
             \/ AddActiveFails(r) \/ InsertFails(r) \/ Busy(r)
             \/ CreateTable(r) /\ db.table # "none"
    BY <2>1, QuietSteps DEF Kept
  <2>2. CASE (CreateTable(r) /\ db.table = "none") \/ CreateNew(r) \/ AddActive(r)
    BY <2>2, WriteSteps DEF Kept
  <2>3. CASE Rebuild(r) \/ Insert(r)
    BY <2>3, BeginSteps DEF Kept
  <2>4. CASE CommitRebuild(r)
    BY <2>4, CommitRebuildStep DEF Kept, Alike
  <2>5. CASE CommitRow(r)
    BY <2>5, CommitRowStep DEF Kept
  <2>6. CASE CommitFails(r) \/ Kill(r)
    BY <2>6, AbortStep DEF Kept
  <2> QED BY <2>1, <2>2, <2>3, <2>4, <2>5, <2>6 DEF Step, Migrate
<1> QED BY <1>1, <1>2

LEMMA StoreAlwaysInv == StoreSpec => []StoreInv
<1>1. StoreInv /\ [StoreNext]_storeVars => StoreInv'
  BY StoreNextInv
<1> QED BY StoreInitInv, <1>1, PTL DEF StoreSpec
-----------------------------------------------------------------------------
(* Every variable of the store holds a value the code can give it, for any *)
(* number of processes on any file.                                        *)
THEOREM StoreTypeCorrect == StoreSpec => []StoreTypeOK
<1>1. StoreInv => StoreTypeOK
  BY DEF StoreInv
<1> QED BY StoreAlwaysInv, <1>1, PTL

(* A run that has closed the store has left one row with its sample; any   *)
(* other run none.                                                         *)
THEOREM AlwaysRecordedOnce == StoreSpec => []RecordedOnce
<1>1. StoreInv => RecordedOnce
  <2> SUFFICES ASSUME StoreInv, NEW r \in Runs
               PROVE  IF pc[r] = "closed"
                        THEN /\ Cardinality(RowsOf(r)) = 1
                             /\ \A i \in RowsOf(r) : db.rows[i].total = Total(r)
                        ELSE RowsOf(r) = {}
    BY DEF RecordedOnce, Total
  <2>1. Recorded(r)
    BY DEF StoreInv
  <2>2. CASE pc[r] = "closed"
    <3>1. PICK i \in DOMAIN db.rows : RowsOf(r) = {i} /\ db.rows[i].total = Total(r)
      BY <2>1, <2>2 DEF Recorded
    <3>2. Cardinality({i}) = 1
      BY FS_Singleton
    <3>3. Cardinality(RowsOf(r)) = 1
      BY <3>1, <3>2
    <3>4. \A j \in RowsOf(r) : db.rows[j].total = Total(r)
      BY <3>1
    <3> QED BY <2>2, <3>3, <3>4
  <2>3. CASE pc[r] # "closed"
    BY <2>1, <2>3 DEF Recorded
  <2> QED BY <2>2, <2>3
<1> QED BY StoreAlwaysInv, <1>1, PTL

(* No statement of any process loses a row, moves it or changes its total. *)
THEOREM TotalsAlwaysKept == StoreSpec => TotalsKept
<1>1. StoreInv /\ [StoreNext]_storeVars =>
        [\A i \in DOMAIN db.rows : /\ i \in DOMAIN db'.rows
                                   /\ db'.rows[i].run = db.rows[i].run
                                   /\ db'.rows[i].total = db.rows[i].total]_storeVars
  BY StoreNextInv DEF Kept
<1> QED BY StoreAlwaysInv, <1>1, PTL DEF StoreSpec, TotalsKept
-----------------------------------------------------------------------------
(* A table with NOT NULL has nothing under active, and a run comes to the  *)
(* column active only when the table is nullable.                          *)
StrictIsOld ==
    db.table = "strict" => \A i \in DOMAIN db.rows : db.rows[i].active = "null"

Nullable(r) ==
    pc[r] \in {"checkActive", "addActive", "insert", "commitRow"} => db.table = "nullable"

SchemaInv == StrictIsOld /\ \A r \in Runs : Nullable(r)

(* Rows only change when the table is nullable, or becomes so.             *)
LEMMA SchemaStep ==
    ASSUME StoreInv, SchemaInv, NEW r \in Runs, NEW next \in Places, Goto(r, next),
           db.table = "nullable" => db'.table = "nullable",
           db'.table = "strict" => db.table = "strict" /\ db'.rows = db.rows,
           next \in {"checkActive", "addActive", "insert", "commitRow"}
             => db'.table = "nullable"
    PROVE  SchemaInv'
<1>1. pc'[r] = next /\ \A q \in Runs \ {r} : pc'[q] = pc[q]
  BY DEF StoreInv, StoreTypeOK, Goto
<1>2. StrictIsOld'
  BY DEF SchemaInv, StrictIsOld
<1>3. \A q \in Runs : Nullable(q)'
  BY <1>1 DEF SchemaInv, Nullable
<1> QED BY <1>2, <1>3 DEF SchemaInv

LEMMA SchemaNext ==
    ASSUME StoreInv, SchemaInv, [StoreNext]_storeVars
    PROVE  /\ SchemaInv'
           /\ \A i \in DOMAIN db.rows : \/ db'.rows[i].active = db.rows[i].active
                                        \/ db.table = "nullable" /\ db' = Rebuilt(db)
<1>1. TableThere /\ db \in Files /\ pc \in [Runs -> Places]
  BY DEF StoreInv, StoreTypeOK, Places
<1>2. CASE UNCHANGED storeVars
  BY <1>2 DEF storeVars, SchemaInv, StrictIsOld, Nullable
<1>3. CASE StoreNext
  <2> PICK r \in Runs : \/ \E s \in Samples : Open(r, s)
                        \/ Step(r) \/ Busy(r) \/ CommitFails(r) \/ Kill(r)
    BY <1>3 DEF StoreNext
  <2>1. CASE \/ \E s \in Samples : Open(r, s)
             \/ CreateNewFails(r) \/ AddActiveFails(r) \/ InsertFails(r) \/ Busy(r)
             \/ CommitFails(r) \/ Kill(r)
    <3>1. PICK next \in {"create", "raised", "killed"} : Goto(r, next) /\ db' = db
      BY <2>1 DEF Open, CreateNewFails, AddActiveFails, InsertFails, Busy, CommitFails, Kill
    <3> QED BY <3>1, SchemaStep DEF Places, Ended
  <2>2. CASE CreateTable(r)
    <3>1. Goto(r, "checkNotNull") /\ (db.table # "none" => db' = db)
      BY <2>2 DEF CreateTable
    <3>2. CASE db.table # "none"
      BY <3>1, <3>2, SchemaStep DEF Places
    <3>3. CASE db.table = "none"
      <4>1. db'.table = "nullable" /\ DOMAIN db.rows = {}
        BY <1>1, <2>2, <3>3 DEF CreateTable, Autocommit, NewTable, TableThere
      <4> QED BY <3>1, <3>3, <4>1, SchemaStep DEF Places
    <3> QED BY <3>2, <3>3
  <2>3. CASE CheckNotNull(r)
    <3>1. PICK next \in {"createNew", "checkActive"} :
            Goto(r, next) /\ db' = db /\ (next = "checkActive" => db.table # "strict")
      BY <1>1, <2>3 DEF CheckNotNull, NeedsRebuild, StoreInv, StoreTypeOK
    <3>2. db.table \in {"strict", "nullable"}
      BY <1>1, <2>3 DEF CheckNotNull, TableThere, Files, Ended
    <3> QED BY <3>1, <3>2, SchemaStep DEF Places
  <2>4. CASE CreateNew(r)
    <3>1. Goto(r, "rebuild") /\ db'.table = db.table /\ db'.rows = db.rows
      BY <1>1, <2>4 DEF CreateNew, Autocommit, Files
    <3> QED BY <3>1, SchemaStep DEF Places
  <2>5. CASE Rebuild(r)
    <3>1. Goto(r, "commitRebuild") /\ db' = db
      BY <2>5 DEF Rebuild
    <3> QED BY <3>1, SchemaStep DEF Places
  <2>6. CASE CommitRebuild(r)
    <3>1. Goto(r, "checkActive") /\ db' = Rebuilt(db)
      BY <2>6 DEF CommitRebuild, Commit, StoreInv, Pending
    <3>2. /\ db'.table = "nullable"
          /\ \A i \in DOMAIN db.rows : db'.rows[i].active = "null"
      <4>1. Rebuilt(db).table = "nullable"
        BY DEF Rebuilt
      <4>2. ASSUME NEW i \in DOMAIN db.rows PROVE Rebuilt(db).rows[i].active = "null"
        <5>1. db.rows[i] \in Rows
          BY <1>1 DEF Files
        <5> QED BY <5>1 DEF Rebuilt, Rows
      <4> QED BY <3>1, <4>1, <4>2
    <3>3. CASE db.table = "nullable"
      BY <3>1, <3>2, <3>3, SchemaStep DEF Places
    <3>4. CASE db.table = "strict"
      BY <3>1, <3>2, <3>4, SchemaStep DEF Places, SchemaInv, StrictIsOld
    <3>5. db.table # "none"
      BY <1>1, <2>6 DEF CommitRebuild, TableThere, Ended
    <3> QED BY <1>1, <3>3, <3>4, <3>5 DEF Files
  <2>7. CASE CheckActive(r)
    <3>1. PICK next \in {"insert", "addActive"} : Goto(r, next) /\ db' = db
      BY <2>7 DEF CheckActive
    <3>2. db.table = "nullable"
      BY <2>7 DEF CheckActive, SchemaInv, Nullable
    <3> QED BY <3>1, <3>2, SchemaStep DEF Places
  <2>8. CASE AddActive(r)
    <3>1. Goto(r, "insert") /\ db'.table = db.table /\ db'.rows = db.rows
      BY <1>1, <2>8 DEF AddActive, Autocommit, Files
    <3>2. db.table = "nullable"
      BY <2>8 DEF AddActive, SchemaInv, Nullable
    <3> QED BY <3>1, <3>2, SchemaStep DEF Places
  <2>9. CASE Insert(r)
    <3>1. Goto(r, "commitRow") /\ db' = db /\ db.table = "nullable"
      BY <2>9 DEF Insert, SchemaInv, Nullable
    <3> QED BY <3>1, SchemaStep DEF Places
  <2>10. CASE CommitRow(r)
    <3>1. Goto(r, "closed") /\ db.table = "nullable"
      BY <2>10 DEF CommitRow, SchemaInv, Nullable
    <3>2. db' = [db EXCEPT !.rows = Append(@, Row(r))] /\ sample[r] \in Samples
      BY <2>10 DEF CommitRow, Commit, StoreInv, StoreTypeOK, Pending
    <3>3. /\ db'.table = db.table
          /\ \A i \in DOMAIN db.rows : db'.rows[i] = db.rows[i]
      BY <1>1, <3>2, RowAppended
    <3> QED BY <3>1, <3>3, SchemaStep DEF Places, Ended
  <2> QED BY <2>1, <2>2, <2>3, <2>4, <2>5, <2>6, <2>7, <2>8, <2>9, <2>10 DEF Step, Migrate
<1> QED BY <1>2, <1>3

(* A count of active is lost only to the second of two rebuilds, however   *)
(* many processes migrate the file at once.                                *)
THEOREM ActiveAlwaysKept == StoreSpec => ActiveKept
<1>1. StoreInit => SchemaInv
  BY StrictAssumption DEF StoreInit, SchemaInv, StrictIsOld, Nullable
<1>2. StoreInv /\ SchemaInv /\ [StoreNext]_storeVars => SchemaInv'
  BY SchemaNext
<1>3. StoreInv /\ SchemaInv /\ [StoreNext]_storeVars =>
        [\A i \in DOMAIN db.rows : \/ db'.rows[i].active = db.rows[i].active
                                   \/ db.table = "nullable" /\ db' = Rebuilt(db)]_storeVars
  BY SchemaNext
<1> QED BY StoreAlwaysInv, <1>1, <1>2, <1>3, PTL DEF StoreSpec, ActiveKept
-----------------------------------------------------------------------------
(***************************************************************************)
(* Store implements Ledger when runs do not overlap.  What a run has read  *)
(* of the schema is then still true when it acts on it: it rebuilds a      *)
(* table only while that still declares NOT NULL, when there is nothing in *)
(* the column active that the copy could lose, and it inserts only when    *)
(* both migrations are in force.                                           *)
(***************************************************************************)

AtWork(r) == pc[r] \notin {"off"} \cup Ended

(* Runs do not overlap.                                                    *)
InTurn == \A q, r \in Runs : AtWork(q) /\ AtWork(r) => q = r

(* What run r has read is still so.                                        *)
StillTrue(r) ==
    /\ pc[r] \in {"createNew", "rebuild", "commitRebuild"} => db.table = "strict"
    /\ pc[r] \in {"checkActive", "addActive", "insert", "commitRow"}
         => db.table = "nullable"
    /\ pc[r] = "insert" => db.active

SerialInv == StoreInv /\ InTurn /\ StrictIsOld /\ \A r \in Runs : StillTrue(r)

(* What a step of r does to the ledger: nothing, or one row of r           *)
Recording(r) ==
    \/ db'.rows = db.rows
    \/ RowsOf(r) = {} /\ db'.rows = Append(db.rows, Row(r))
-----------------------------------------------------------------------------
LEMMA SerialInitInv == StoreInit => SerialInv
<1> SUFFICES ASSUME StoreInit PROVE SerialInv
  OBVIOUS
<1>1. StrictIsOld
  BY StrictAssumption DEF StoreInit, StrictIsOld
<1>2. InTurn /\ \A r \in Runs : StillTrue(r)
  BY DEF StoreInit, InTurn, AtWork, StillTrue
<1> QED BY StoreInitInv, <1>1, <1>2 DEF SerialInv

LEMMA SameLength ==
    ASSUME NEW S, NEW s \in Seq(S), NEW t \in Seq(S), DOMAIN s = DOMAIN t
    PROVE  Len(s) = Len(t)
<1>1. /\ DOMAIN s = 1 .. Len(s) /\ Len(s) \in Nat
      /\ DOMAIN t = 1 .. Len(t) /\ Len(t) \in Nat
  OBVIOUS
<1> DEFINE m == Len(s)
           n == Len(t)
<1>2. m \in Nat /\ n \in Nat /\ 1 .. m = 1 .. n
  BY <1>1
<1> HIDE DEF m, n
<1>3. m = n
  BY <1>2
<1> QED BY <1>3 DEF m, n

(* Nothing under active is lost when there is nothing under it.            *)
LEMMA RebuiltSame ==
    ASSUME NEW d \in Files, \A i \in DOMAIN d.rows : d.rows[i].active = "null"
    PROVE  Rebuilt(d).rows = d.rows
<1>1. d.rows \in Seq(Rows) /\ Rebuilt(d).rows \in Seq(Rows)
  BY RebuiltAlike DEF Files
<1>2. Rebuilt(d).rows = [i \in DOMAIN d.rows |-> [d.rows[i] EXCEPT !.active = "null"]]
  BY DEF Rebuilt
<1>3. DOMAIN d.rows = DOMAIN Rebuilt(d).rows
  BY RebuiltAlike DEF Alike
<1>4. Len(d.rows) = Len(Rebuilt(d).rows)
  BY <1>1, <1>3, SameLength
<1>5. ASSUME NEW i \in 1 .. Len(d.rows) PROVE d.rows[i] = Rebuilt(d).rows[i]
  <2>1. i \in DOMAIN d.rows
    BY <1>1
  <2>2. d.rows[i] \in Rows /\ d.rows[i].active = "null"
    BY <1>1, <2>1
  <2>3. [d.rows[i] EXCEPT !.active = "null"] = d.rows[i]
    BY <2>2 DEF Rows
  <2> QED BY <1>2, <2>1, <2>3
<1> QED BY <1>1, <1>4, <1>5, SeqEqual

(* The others are not at work, so a step of r concerns r alone.            *)
LEMMA TurnStep ==
    ASSUME SerialInv, StoreInv', NEW r \in Runs, AtWork(r),
           NEW next \in Places, Goto(r, next), StillTrue(r)', StrictIsOld'
    PROVE  SerialInv'
<1>1. /\ pc'[r] = next /\ \A q \in Runs \ {r} : pc'[q] = pc[q] /\ ~AtWork(q)
  BY DEF SerialInv, InTurn, StoreInv, StoreTypeOK, Goto
<1>2. InTurn'
  BY <1>1 DEF InTurn, AtWork
<1>3. ASSUME NEW q \in Runs \ {r} PROVE StillTrue(q)'
  BY <1>1 DEF StillTrue, AtWork, Ended
<1> QED BY <1>2, <1>3 DEF SerialInv
-----------------------------------------------------------------------------
LEMMA OpenSerial ==
    ASSUME ~Overlap, SerialInv, StoreInv', NEW r \in Runs, NEW s \in Samples, Open(r, s)
    PROVE  SerialInv' /\ Recording(r)
<1>1. /\ \A q \in Runs : ~AtWork(q)
      /\ Goto(r, "create") /\ UNCHANGED db
  BY DEF Open, AtWork
<1>2. pc'[r] = "create" /\ \A q \in Runs \ {r} : pc'[q] = pc[q]
  BY <1>1 DEF SerialInv, StoreInv, StoreTypeOK, Goto
<1>3. InTurn'
  BY <1>1, <1>2 DEF InTurn, AtWork
<1>4. \A q \in Runs : StillTrue(q)'
  BY <1>1, <1>2 DEF StillTrue, AtWork, Ended
<1>5. StrictIsOld'
  BY <1>1 DEF SerialInv, StrictIsOld
<1> QED BY <1>1, <1>3, <1>4, <1>5 DEF SerialInv, Recording

(* A run moves on without a write.                                         *)
LEMMA ReadSerial ==
    ASSUME SerialInv, StoreInv', NEW r \in Runs,
           \/ CheckNotNull(r) \/ CreateNewFails(r) \/ CheckActive(r)
           \/ AddActiveFails(r) \/ InsertFails(r) \/ Busy(r) \/ CommitFails(r) \/ Kill(r)
           \/ Rebuild(r) \/ Insert(r)
           \/ (CreateTable(r) /\ db.table # "none")
    PROVE  SerialInv' /\ Recording(r)
<1>1. AtWork(r) /\ db' = db
  BY DEF CheckNotNull, CreateNewFails, CheckActive, AddActiveFails, InsertFails, Busy, NeedsLock,
         CommitFails, Kill, Rebuild, Insert, CreateTable, AtWork, Ended
<1>2. \E next \in Places : Goto(r, next)
  BY DEF CheckNotNull, CreateNewFails, CheckActive, AddActiveFails, InsertFails, Busy,
         CommitFails, Kill, Rebuild, Insert, CreateTable, Places, Ended
<1>3. StrictIsOld'
  BY <1>1 DEF SerialInv, StrictIsOld
<1>4. pc \in [Runs -> Places] /\ db \in Files /\ needs \in [Runs -> BOOLEAN]
      /\ TableThere /\ StillTrue(r)
  BY DEF SerialInv, StoreInv, StoreTypeOK, Places
<1>5. StillTrue(r)'
  <2>1. CASE CheckNotNull(r)
    <3>1. db.table \in {"strict", "nullable"}
      BY <1>4, <2>1 DEF CheckNotNull, TableThere, Ended, Files
    <3>2. needs'[r] = (db.table = "strict")
      BY <1>4, <2>1 DEF CheckNotNull, NeedsRebuild
    <3>3. pc'[r] = IF db.table = "strict" THEN "createNew" ELSE "checkActive"
      BY <1>4, <2>1, <3>2 DEF CheckNotNull, Goto
    <3> QED BY <1>1, <3>1, <3>3 DEF StillTrue
  <2>2. CASE CheckActive(r)
    <3>1. pc'[r] = IF db.active THEN "insert" ELSE "addActive"
      BY <1>4, <2>2 DEF CheckActive, HasActive, Goto
    <3>2. db.table = "nullable"
      BY <1>4, <2>2 DEF CheckActive, StillTrue
    <3> QED BY <1>1, <3>1, <3>2 DEF StillTrue
  <2>3. CASE Rebuild(r)
    <3>1. pc'[r] = "commitRebuild" /\ db.table = "strict"
      BY <1>4, <2>3 DEF Rebuild, Goto, StillTrue
    <3> QED BY <1>1, <3>1 DEF StillTrue
  <2>4. CASE Insert(r)
    <3>1. pc'[r] = "commitRow" /\ db.table = "nullable"
      BY <1>4, <2>4 DEF Insert, Goto, StillTrue
    <3> QED BY <1>1, <3>1 DEF StillTrue
  <2>5. CASE \/ CreateNewFails(r) \/ AddActiveFails(r) \/ InsertFails(r) \/ Busy(r)
             \/ CommitFails(r) \/ Kill(r) \/ (CreateTable(r) /\ db.table # "none")
    <3>1. pc'[r] \in {"raised", "killed", "checkNotNull"}
      BY <1>4, <2>5 DEF CreateNewFails, AddActiveFails, InsertFails, Busy, CommitFails, Kill,
                        CreateTable, Goto
    <3> QED BY <3>1 DEF StillTrue
  <2> QED BY <2>1, <2>2, <2>3, <2>4, <2>5
<1> QED BY <1>1, <1>2, <1>3, <1>5, TurnStep DEF Recording

(* A statement that commits itself                                         *)
LEMMA WriteSerial ==
    ASSUME SerialInv, StoreInv', NEW r \in Runs,
           (CreateTable(r) /\ db.table = "none") \/ CreateNew(r) \/ AddActive(r)
    PROVE  SerialInv' /\ Recording(r)
<1>1. pc \in [Runs -> Places] /\ db \in Files /\ TableThere /\ StillTrue(r) /\ StrictIsOld
  BY DEF SerialInv, StoreInv, StoreTypeOK, Places
<1>2. CASE CreateTable(r) /\ db.table = "none"
  <2>1. AtWork(r) /\ Goto(r, "checkNotNull") /\ db' = NewTable /\ "checkNotNull" \in Places
    BY <1>2 DEF CreateTable, Autocommit, AtWork, Places, Ended
  <2>2. db'.rows = db.rows /\ db'.table = "nullable"
    BY <1>1, <1>2, <2>1 DEF TableThere, NewTable
  <2>3. StillTrue(r)' /\ StrictIsOld'
    BY <1>1, <2>1, <2>2 DEF Goto, StillTrue, StrictIsOld
  <2> QED BY <2>1, <2>2, <2>3, TurnStep DEF Recording
<1>3. CASE CreateNew(r)
  <2>1. /\ pc[r] = "createNew" /\ AtWork(r) /\ Goto(r, "rebuild") /\ "rebuild" \in Places
        /\ db' = [db EXCEPT !.spare = TRUE]
    BY <1>3 DEF CreateNew, Autocommit, AtWork, Places, Ended
  <2>2. db'.rows = db.rows /\ db'.table = "strict"
    BY <1>1, <2>1 DEF StillTrue, Files
  <2>3. StillTrue(r)' /\ StrictIsOld'
    BY <1>1, <2>1, <2>2 DEF Goto, StillTrue, StrictIsOld
  <2> QED BY <2>1, <2>2, <2>3, TurnStep DEF Recording
<1>4. CASE AddActive(r)
  <2>1. /\ pc[r] = "addActive" /\ AtWork(r) /\ Goto(r, "insert") /\ "insert" \in Places
        /\ db' = [db EXCEPT !.active = TRUE]
    BY <1>4 DEF AddActive, Autocommit, AtWork, Places, Ended
  <2>2. db'.rows = db.rows /\ db'.table = "nullable" /\ db'.active
    BY <1>1, <2>1 DEF StillTrue, Files
  <2>3. StillTrue(r)' /\ StrictIsOld'
    BY <1>1, <2>1, <2>2 DEF Goto, StillTrue, StrictIsOld
  <2> QED BY <2>1, <2>2, <2>3, TurnStep DEF Recording
<1> QED BY <1>2, <1>3, <1>4

LEMMA CommitSerial ==
    ASSUME SerialInv, StoreInv', NEW r \in Runs, CommitRebuild(r) \/ CommitRow(r)
    PROVE  SerialInv' /\ Recording(r)
<1>1. /\ pc \in [Runs -> Places] /\ db \in Files /\ sample[r] \in Samples
      /\ StillTrue(r) /\ StrictIsOld /\ Pending(r) /\ Recorded(r)
  BY DEF SerialInv, StoreInv, StoreTypeOK, Places
<1>2. CASE CommitRebuild(r)
  <2>1. /\ pc[r] = "commitRebuild" /\ AtWork(r) /\ Goto(r, "checkActive")
        /\ "checkActive" \in Places /\ db' = work
    BY <1>2 DEF CommitRebuild, Commit, AtWork, Places, Ended
  <2>2. db' = Rebuilt(db) /\ db.table = "strict"
    BY <1>1, <2>1 DEF Pending, StillTrue
  <2>3. db'.rows = db.rows /\ db'.table = "nullable"
    BY <1>1, <2>2, RebuiltSame, RebuiltAlike DEF StrictIsOld
  <2>4. StillTrue(r)' /\ StrictIsOld'
    BY <1>1, <2>1, <2>3 DEF Goto, StillTrue, StrictIsOld
  <2> QED BY <2>1, <2>3, <2>4, TurnStep DEF Recording
<1>3. CASE CommitRow(r)
  <2>1. /\ pc[r] = "commitRow" /\ AtWork(r) /\ Goto(r, "closed")
        /\ "closed" \in Places /\ db' = work
    BY <1>3 DEF CommitRow, Commit, AtWork, Places, Ended
  <2>2. db' = [db EXCEPT !.rows = Append(@, Row(r))] /\ db.table = "nullable"
    BY <1>1, <2>1 DEF Pending, StillTrue
  <2>3. db'.rows = Append(db.rows, Row(r)) /\ db'.table = "nullable"
    BY <1>1, <2>2, RowAppended
  <2>4. RowsOf(r) = {}
    BY <1>1, <2>1 DEF Recorded
  <2>5. StillTrue(r)' /\ StrictIsOld'
    BY <1>1, <2>1, <2>3 DEF Goto, StillTrue, StrictIsOld
  <2> QED BY <2>1, <2>3, <2>4, <2>5, TurnStep DEF Recording
<1> QED BY <1>2, <1>3

LEMMA SerialNextInv ==
    ASSUME ~Overlap, SerialInv, [StoreNext]_storeVars
    PROVE  SerialInv' /\ (UNCHANGED db \/ \E r \in Runs : Recording(r))
<1>1. StoreInv'
  BY StoreNextInv DEF SerialInv
<1>2. CASE UNCHANGED storeVars
  <2>1. UNCHANGED <<pc, db>>
    BY <1>2 DEF storeVars
  <2> QED BY <1>1, <2>1 DEF SerialInv, InTurn, AtWork, StrictIsOld, StillTrue
<1>3. ASSUME NEW r \in Runs, (\E s \in Samples : Open(r, s)) \/ Step(r) \/ Busy(r)
                             \/ CommitFails(r) \/ Kill(r)
      PROVE  SerialInv' /\ Recording(r)
  BY <1>1, <1>3, OpenSerial, ReadSerial, WriteSerial, CommitSerial DEF Step, Migrate
<1> QED BY <1>2, <1>3 DEF StoreNext
-----------------------------------------------------------------------------
(* When runs do not overlap, both migrations are in force whenever record  *)
(* is reached, whatever was killed before.                                 *)
THEOREM SchemaAlwaysReady == ASSUME ~Overlap PROVE StoreSpec => []SchemaReady
<1>1. SerialInv /\ [StoreNext]_storeVars => SerialInv'
  BY SerialNextInv
<1>2. SerialInv => SchemaReady
  BY DEF SerialInv, StillTrue, SchemaReady
<1> QED BY SerialInitInv, <1>1, <1>2, PTL DEF StoreSpec

(* When runs do not overlap, Store implements Ledger: whatever is migrated *)
(* or killed, the only thing that ever happens to the rows is that a run   *)
(* without one appends one.                                                *)
THEOREM LedgerKept == ASSUME ~Overlap PROVE StoreSpec => KeepsLedger
<1>1. StoreInit => Book!LedgerInit
  <2> SUFFICES ASSUME StoreInit, NEW r \in Runs PROVE Book!OfRun(r) = {}
    BY DEF Book!LedgerInit
  <2> QED BY OldRowsAssumption, NoRunAssumption DEF StoreInit, Book!OfRun
<1>2. SerialInv /\ [StoreNext]_storeVars => SerialInv'
  BY SerialNextInv
<1>3. SerialInv /\ [StoreNext]_storeVars => [\E r \in Runs : Book!Record(r)]_(db.rows)
  <2> SUFFICES ASSUME SerialInv, [StoreNext]_storeVars, db'.rows # db.rows
               PROVE  \E r \in Runs : Book!Record(r)
    OBVIOUS
  <2>1. PICK r \in Runs : Recording(r)
    BY SerialNextInv
  <2>2. RowsOf(r) = {} /\ db'.rows = Append(db.rows, Row(r))
    BY <2>1 DEF Recording
  <2>3. Row(r) = [run |-> r, total |-> Total(r), active |-> Total(r)] /\ Total(r) \in Counts
    BY DEF Row, Total, Counts
  <2>4. Book!Record(r)
    BY <2>2, <2>3 DEF Book!Record, Book!OfRun, RowsOf
  <2> QED BY <2>4
<1> QED BY SerialInitInv, <1>1, <1>2, <1>3, PTL DEF StoreSpec, KeepsLedger, Book!LedgerSpec
=============================================================================
