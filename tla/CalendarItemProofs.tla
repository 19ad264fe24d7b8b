------------------------- MODULE CalendarItemProofs -------------------------
(***************************************************************************)
(* Proofs about CalendarItem: one push of an item creates its event at a   *)
(* time and no note of a push runs ahead of Google, whatever races; an     *)
(* item that stays on the calendar keeps its link, without three of them;  *)
(* no sync makes a second item of its event, with no race but three; no    *)
(* note of a push makes a device's change lose, without one; and with no   *)
(* race but one or two, whatever is lost on the way, no write of the app's *)
(* comes back to the item, and an item and its event at rest say the same. *)
(***************************************************************************)
EXTENDS ItemInvariant, TLAPS

-----------------------------------------------------------------------------
(* What the types rest on *)

\* The parts of Inv that are about the pushes, and those that are not.
JobsFine ==
  /\ job \in [Pushes -> Jobs]
  /\ \A p, q \in Pushes : job[p].slot /\ job[q].slot => p = q
  /\ SlotInv
  /\ \A p \in Pushes : job[p].wrote <= event.version

RestFine ==
  /\ row \in Rows \cup {None} /\ Known(row)
  /\ event \in Events
  /\ op \in Ops \cup {None} /\ Known(op)
  /\ failed \subseteq States
  /\ import \in [event : Events, row : Rows \cup {None}] \cup {None}
  /\ import # None => import.event.version <= event.version /\ Known(import.row)
  /\ listed \in Versions /\ listed <= event.version
  /\ anchor \in Versions /\ anchor <= event.version
  /\ twin \in BOOLEAN
  /\ count \in [{"gestures", "typed", "faults"} -> Nat]

LEMMA Parts == Inv <=> JobsFine /\ RestFine
BY DEF Inv, JobsFine, RestFine, TypeOK, VersionInv, Known

LEMMA PartsNext == Inv' <=> JobsFine' /\ RestFine'
BY DEF Inv, JobsFine, RestFine, TypeOK, VersionInv, SlotInv, Known

\* One job changes: it may take the slot only if that is free, or its own.
LEMMA JobStep ==
  ASSUME JobsFine, event.version \in Nat, event'.version \in Nat, event.version <= event'.version,
         NEW p \in Pushes, NEW j \in Jobs,
         job' = [job EXCEPT ![p] = j],
         j.slot => job[p].slot \/ ~InFlight,
         j.step \in Slotted => j.slot,
         j.wrote <= event'.version
  PROVE  JobsFine'
<1>1. job' \in [Pushes -> Jobs] /\ job'[p] = j /\ \A q \in Pushes : q # p => job'[q] = job[q]
  BY DEF JobsFine
<1>2. \A q, r \in Pushes : job'[q].slot /\ job'[r].slot => q = r
  BY <1>1 DEF JobsFine, InFlight
<1>3. SlotInv'
  BY <1>1 DEF JobsFine, SlotInv
<1>4. \A q \in Pushes : job'[q].wrote <= event'.version
  <2>1. \A q \in Pushes : job[q].wrote \in Nat
    BY DEF JobsFine, Jobs, Versions
  <2>2. QED  BY <1>1, <2>1 DEF JobsFine
<1>5. QED  BY <1>1, <1>2, <1>3, <1>4 DEF JobsFine

LEMMA JobsStay ==
  ASSUME JobsFine, UNCHANGED job,
         event.version \in Nat, event'.version \in Nat, event.version <= event'.version
  PROVE  JobsFine'
<1>1. \A q \in Pushes : job[q].wrote \in Nat
  BY DEF JobsFine, Jobs, Versions
<1>2. QED  BY <1>1 DEF JobsFine, SlotInv

LEMMA IdleJob == /\ Idle \in Jobs /\ Idle.step = "idle" /\ ~Idle.slot /\ Idle.wrote = 0
                 /\ NoState \in States
BY DEF Idle, NoState, Jobs, States, Steps, Statuses, Contents, Versions

LEMMA Ending ==
  ASSUME JobsFine, event.version \in Nat, event'.version \in Nat, event.version <= event'.version,
         NEW p \in Pushes, End(p)
  PROVE  JobsFine'
<1>1. Idle.step \notin Slotted
  BY IdleJob DEF Slotted
<1>2. Idle.wrote <= event'.version
  BY IdleJob
<1>3. QED  BY JobStep, IdleJob, <1>1, <1>2 DEF End

\* The first thing a push does needs no slot.
LEMMA Pushing ==
  ASSUME JobsFine, event.version \in Nat, event'.version \in Nat, event.version <= event'.version,
         NEW p \in Pushes, NEW s \in States, NEW swept \in BOOLEAN, Push(p, s, swept)
  PROVE  JobsFine'
<1> DEFINE first == [Idle EXCEPT !.step = FirstStep(s), !.of = s, !.state = s, !.swept = swept]
<1> DEFINE j == IF FirstStep(s) = "idle" THEN Idle ELSE first
<1>1. FirstStep(s) \in {"idle", "create", "write", "remove"}
  BY DEF FirstStep
<1>2. first \in Jobs /\ first.step = FirstStep(s) /\ ~first.slot /\ first.wrote = 0
  BY <1>1, IdleJob DEF Jobs, Steps
<1>3. j \in Jobs /\ ~j.slot /\ j.wrote = 0 /\ j.step \notin Slotted
  BY <1>1, <1>2, IdleJob DEF Slotted
<1>4. job' = [job EXCEPT ![p] = j]
  BY DEF Push
<1> HIDE DEF j
<1>5. j.wrote <= event'.version
  BY <1>3
<1>6. QED  BY <1>3, <1>4, <1>5, JobStep

LEMMA RowState == ASSUME NEW r \in Rows PROVE StateOf(r) \in States
BY DEF StateOf, Rows, States

\* What is to follow a create.
LEMMA Following ==
  ASSUME NEW p \in Pushes, job[p] \in Jobs, NEW r \in Rows
  PROVE  /\ FollowUp(p, r) \in Jobs
         /\ FollowUp(p, r).step \in Slotted => FollowUp(p, r).slot
         /\ FollowUp(p, r).step \notin {"unlink", "create", "insert", "stamp"}
         /\ FollowUp(p, r).step = "takeBack" => r.status = "off"
         /\ FollowUp(p, r).wrote <= job[p].wrote
<1> DEFINE j == [job[p] EXCEPT !.step = IF r.status = "off" THEN "takeBack" ELSE "write",
                               !.state = StateOf(r), !.slot = TRUE]
<1>1. j \in Jobs /\ j.slot /\ j.wrote = job[p].wrote
      /\ j.step = IF r.status = "off" THEN "takeBack" ELSE "write"
  BY RowState DEF Jobs, Steps
<1>2. FollowUp(p, r) = Idle \/ FollowUp(p, r) = j
  BY DEF FollowUp
<1>3. job[p].wrote \in Nat
  BY DEF Jobs, Versions
<1> HIDE DEF j
<1>4. QED  BY <1>1, <1>2, <1>3, IdleJob DEF Slotted

-----------------------------------------------------------------------------
(* The actions of the pushes keep Inv *)

LEMMA RowKnown == ASSUME RestFine, row # None
                  PROVE row \in Rows /\ row.pushed <= event.version /\ row.synced <= event.version
BY DEF RestFine, Known

LEMMA LateType == ASSUME op \in Ops \cup {None}, Known(op), UNCHANGED event, Late
                  PROVE op' \in Ops \cup {None} /\ Known(op)'
<1>1. CASE op # None /\ ~op.read
  <2>1. op' = [op EXCEPT !.late = TRUE]
    BY <1>1 DEF Late
  <2>2. op \in Ops
    BY <1>1
  <2>3. op' \in Ops /\ op'.pushed = op.pushed /\ op'.synced = op.synced
    BY <2>1, <2>2 DEF Ops
  <2>4. QED  BY <1>1, <2>3 DEF Known
<1>2. CASE ~(op # None /\ ~op.read)
  BY <1>2 DEF Late, Known
<1>3. QED  BY <1>1, <1>2

LEMMA VersionType == ASSUME RestFine PROVE event.version \in Nat /\ event \in Events
BY DEF RestFine, Events, Versions

LEMMA CheckKeeps == ASSUME Inv, NEW p \in Pushes, Check(p) PROVE Inv'
<1>1. JobsFine /\ RestFine
  BY Parts
<1>2. /\ job[p] \in Jobs /\ job[p].wrote <= event.version
      /\ event.version \in Nat /\ event'.version \in Nat /\ event.version <= event'.version
  BY <1>1, VersionType DEF JobsFine, Check
<1>3. RestFine'
  BY <1>1 DEF Check, RestFine, Known
<1>4. JobsFine'
  <2>1. CASE InFlight
    <3>1. End(p)
      BY <2>1 DEF Check, End
    <3>2. QED  BY <3>1, <1>1, <1>2, Ending
  <2>2. CASE ~InFlight /\ Linked
    <3>1. row \in Rows
      BY <2>2, <1>1, RowKnown DEF Linked
    <3>2. job' = [job EXCEPT ![p] = FollowUp(p, row)] /\ UNCHANGED event
      BY <2>2 DEF Check
    <3>3. /\ FollowUp(p, row) \in Jobs /\ FollowUp(p, row).wrote <= event'.version
          /\ FollowUp(p, row).step \in Slotted => FollowUp(p, row).slot
      BY <3>1, <3>2, <1>2, Following DEF Jobs, Versions
    <3>4. QED  BY <2>2, <3>2, <3>3, <1>1, <1>2, JobStep
  <2>3. CASE ~InFlight /\ ~Linked
    <3> DEFINE j == [job[p] EXCEPT !.step = "insert", !.slot = TRUE]
    <3>1. j \in Jobs /\ j.slot /\ j.wrote = job[p].wrote
      BY <1>2 DEF Jobs, Steps
    <3>2. job' = [job EXCEPT ![p] = j] /\ UNCHANGED event
      BY <2>3 DEF Check
    <3> HIDE DEF j
    <3>3. j.wrote <= event'.version
      BY <3>1, <3>2, <1>2
    <3>4. QED  BY <2>3, <3>1, <3>2, <3>3, <1>1, <1>2, JobStep
  <2>4. QED  BY <2>1, <2>2, <2>3
<1>5. QED  BY <1>3, <1>4, PartsNext

LEMMA StampKeeps == ASSUME Inv, NEW p \in Pushes, Stamp(p) PROVE Inv'
<1>1. JobsFine /\ RestFine
  BY Parts
<1>2. /\ job[p] \in Jobs /\ job[p].wrote <= event.version /\ UNCHANGED event
      /\ event.version \in Nat /\ event'.version \in Nat /\ event.version <= event'.version
  BY <1>1, VersionType DEF JobsFine, Stamp
<1>3. CASE row = None
  <2>1. End(p) /\ UNCHANGED <<row, event, op, failed, import, listed, anchor, twin, count>>
    BY <1>3 DEF Stamp
  <2>2. JobsFine'
    BY <2>1, <1>1, <1>2, Ending
  <2>3. RestFine'
    BY <2>1, <1>1 DEF RestFine, Known
  <2>4. QED  BY <2>2, <2>3, PartsNext
<1>4. CASE row # None
  <2> DEFINE linked == [row EXCEPT !.link = TRUE, !.pushed = job[p].wrote, !.fresh = FALSE]
  <2>1. /\ row' = linked /\ anchor' = linked.pushed /\ Late
        /\ job' = [job EXCEPT ![p] = FollowUp(p, linked)]
        /\ UNCHANGED <<event, failed, import, listed, twin, count>>
    BY <1>4 DEF Stamp, Outdates
  <2>2. row \in Rows /\ row.synced <= event.version
    BY <1>4, <1>1, RowKnown
  <2>3. /\ linked \in Rows /\ linked.pushed = job[p].wrote /\ linked.synced = row.synced
        /\ job[p].wrote \in Versions
    BY <2>2, <1>2 DEF Rows, Jobs
  <2> HIDE DEF linked
  <2>4. op' \in Ops \cup {None} /\ Known(op)'
    BY <2>1, <1>1, LateType DEF RestFine
  <2>5. RestFine'
    BY <2>1, <2>2, <2>3, <2>4, <1>1, <1>2 DEF RestFine, Known
  <2>6. job[p].slot
    BY <1>1 DEF Stamp, At, JobsFine, SlotInv, Slotted
  <2>7. /\ FollowUp(p, linked) \in Jobs /\ FollowUp(p, linked).wrote <= event'.version
        /\ FollowUp(p, linked).step \in Slotted => FollowUp(p, linked).slot
    BY <2>3, <1>2, Following DEF Jobs, Versions
  <2>8. JobsFine'
    BY <2>1, <2>6, <2>7, <1>1, <1>2, JobStep
  <2>9. QED  BY <2>5, <2>8, PartsNext
<1>5. QED  BY <1>3, <1>4

LEMMA UnlinkKeeps == ASSUME Inv, NEW p \in Pushes, Unlink(p) PROVE Inv'
<1>1. JobsFine /\ RestFine
  BY Parts
<1>2. event.version \in Nat /\ End(p) /\ UNCHANGED <<event, failed, import, listed, anchor, twin, count>>
  BY <1>1, VersionType DEF Unlink
<1>3. JobsFine'
  BY <1>1, <1>2, Ending
<1>4. CASE row = None
  BY <1>4, <1>1, <1>2, <1>3, PartsNext DEF Unlink, RestFine, Known
<1>5. CASE row # None
  <2>1. row' = [row EXCEPT !.link = FALSE, !.fresh = TRUE] /\ Late
    BY <1>5 DEF Unlink, Outdates
  <2>2. row \in Rows /\ row.pushed <= event.version /\ row.synced <= event.version
    BY <1>5, <1>1, RowKnown
  <2>3. row' \in Rows /\ row'.pushed = row.pushed /\ row'.synced = row.synced
    BY <2>1, <2>2 DEF Rows
  <2>4. op' \in Ops \cup {None} /\ Known(op)'
    BY <2>1, <1>1, <1>2, LateType DEF RestFine
  <2>5. RestFine'
    BY <2>2, <2>3, <2>4, <1>1, <1>2 DEF RestFine, Known
  <2>6. QED  BY <2>5, <1>3, PartsNext
<1>6. QED  BY <1>4, <1>5

LEMMA MarkKeeps == ASSUME Inv, NEW p \in Pushes, Mark(p) PROVE Inv'
<1>1. JobsFine /\ RestFine
  BY Parts
<1>2. event.version \in Nat /\ End(p) /\ UNCHANGED <<event, op, failed, import, listed, anchor, twin, count>>
  BY <1>1, VersionType DEF Mark
<1>3. JobsFine'
  BY <1>1, <1>2, Ending
<1>4. row' \in Rows \cup {None} /\ Known(row)'
  <2>1. CASE row = None
    BY <2>1 DEF Mark, Known
  <2>2. CASE row # None
    <3>1. row' = [row EXCEPT !.pushed = job[p].wrote, !.fresh = FALSE]
      BY <2>2 DEF Mark
    <3>2. row \in Rows /\ row.synced <= event.version
      BY <2>2, <1>1, RowKnown
    <3>3. job[p].wrote \in Versions /\ job[p].wrote <= event.version
      BY <1>1 DEF JobsFine, Jobs
    <3>4. QED  BY <3>1, <3>2, <3>3, <1>2 DEF Rows, Known
  <2>3. QED  BY <2>1, <2>2
<1>5. RestFine'
  BY <1>1, <1>2, <1>4 DEF RestFine, Known
<1>6. QED  BY <1>3, <1>5, PartsNext

\* What Google holds after a call is a later version of the event, or as it was.
LEMMA ReachedEvent ==
  ASSUME Inv, NEW p \in Pushes
  PROVE  /\ Reached(p) \in Events
         /\ event.version \in Nat /\ Reached(p).version \in Nat
         /\ event.version <= Reached(p).version
<1>1. event \in Events /\ event.version \in Nat /\ job[p] \in Jobs
  BY Parts, VersionType DEF JobsFine
<1>2. /\ job[p].of.content \in Contents
      /\ job[p].state.content \in Contents
  BY <1>1 DEF Jobs, States
<1>3. Gone \in Events /\ Gone.version = event.version + 1
  <2>1. Gone = [event EXCEPT !.status = "gone", !.version = event.version + 1, !.typed = FALSE]
    BY DEF Gone
  <2>2. event.version + 1 \in Nat
    BY <1>1
  <2>3. QED  BY <1>1, <2>1, <2>2 DEF Events, Versions
<1>4. \A c \in Contents, m \in BOOLEAN :
        Live(c, m) \in Events /\ Live(c, m).version = event.version + 1
  BY <1>1 DEF Live, Events, Versions
<1>5. \/ Reached(p) = event \/ Reached(p) = Gone
      \/ \E c \in Contents, m \in BOOLEAN : Reached(p) = Live(c, m)
  BY <1>2 DEF Reached
<1>6. QED  BY <1>1, <1>3, <1>4, <1>5

\* The event moves on, and nothing else but the pushes.
LEMMA EventMoves ==
  ASSUME RestFine, event' \in Events, event.version <= event'.version,
         UNCHANGED <<row, op, import, listed, anchor, twin>>,
         failed' \subseteq States, count' \in [{"gestures", "typed", "faults"} -> Nat]
  PROVE  RestFine'
<1>1. event.version \in Nat /\ event'.version \in Nat
  BY VersionType DEF Events, Versions
<1>2. \A v \in Nat : v <= event.version => v <= event'.version
  BY <1>1
<1>3. /\ \A r : (r \in Rows \/ r \in Ops) => r.pushed \in Nat /\ r.synced \in Nat
      /\ \A e \in Events : e.version \in Nat
  BY DEF Rows, Ops, Events, Versions
<1>4. listed \in Nat /\ listed <= event'.version /\ anchor \in Nat /\ anchor <= event'.version
  BY <1>2 DEF RestFine, Versions
<1>5. (row # None => row.pushed <= event'.version /\ row.synced <= event'.version)
  BY <1>2, <1>3 DEF RestFine, Known
<1>6. (op # None => op.pushed <= event'.version /\ op.synced <= event'.version)
  BY <1>2, <1>3 DEF RestFine, Known
<1>7. import # None => /\ import.event.version <= event'.version
                       /\ import.row # None => import.row.pushed <= event'.version /\ import.row.synced <= event'.version
  BY <1>2, <1>3 DEF RestFine, Known
<1>8. QED  BY <1>4, <1>5, <1>6, <1>7 DEF RestFine, Known

LEMMA AnswerKeeps == ASSUME Inv, NEW p \in Pushes, Answer(p) PROVE Inv'
<1>1. JobsFine /\ RestFine /\ job[p] \in Jobs
  BY Parts DEF JobsFine
<1>2. /\ event' = Reached(p) /\ event' \in Events
      /\ event.version \in Nat /\ event'.version \in Nat /\ event.version <= event'.version
  BY ReachedEvent DEF Answer
<1>3. RestFine'
  BY <1>1, <1>2, EventMoves DEF Answer, RestFine
<1>4. CASE Afterwards(p) = "idle"
  <2>1. End(p)
    BY <1>4 DEF Answer, End
  <2>2. QED  BY <2>1, <1>1, <1>2, <1>3, Ending, PartsNext
<1>5. CASE Afterwards(p) # "idle"
  <2> DEFINE j == [job[p] EXCEPT !.step = Afterwards(p), !.wrote = Reached(p).version]
  <2>1. job' = [job EXCEPT ![p] = j]
    BY <1>5 DEF Answer
  <2>2. /\ Afterwards(p) \in {"stamp", "unlink", "mark"}
        /\ Afterwards(p) = "stamp" => At(p, "insert")
        /\ Afterwards(p) = "unlink" => At(p, "takeBack")
    BY <1>5 DEF Afterwards
  <2>3. j \in Jobs /\ j.step = Afterwards(p) /\ j.slot = job[p].slot /\ j.wrote = event'.version
    BY <2>2, <1>1, <1>2 DEF Jobs, Steps, Versions
  <2>4. j.step \in Slotted => j.slot
    BY <2>2, <2>3, <1>1 DEF At, JobsFine, SlotInv, Slotted
  <2> HIDE DEF j
  <2>5. j.wrote <= event'.version
    BY <2>3, <1>2
  <2>6. JobsFine'
    BY <2>1, <2>3, <2>4, <2>5, <1>1, <1>2, JobStep
  <2>7. QED  BY <2>6, <1>3, PartsNext
<1>6. QED  BY <1>4, <1>5

LEMMA CountType ==
  ASSUME count \in [{"gestures", "typed", "faults"} -> Nat], NEW k \in {"gestures", "typed", "faults"},
         NEW max, Counted(k, max)
  PROVE  count' \in [{"gestures", "typed", "faults"} -> Nat]
BY DEF Counted

LEMMA FailKeeps == ASSUME Inv, NEW p \in Pushes, Fail(p) PROVE Inv'
<1>1. JobsFine /\ RestFine /\ job[p] \in Jobs /\ event \in Events
  BY Parts, VersionType DEF JobsFine
<1>2. /\ event' \in Events
      /\ event.version \in Nat /\ event'.version \in Nat /\ event.version <= event'.version
  BY <1>1, ReachedEvent DEF Fail
<1>3. failed' \subseteq States
  BY <1>1 DEF Fail, RestFine, Jobs
<1>4. count' \in [{"gestures", "typed", "faults"} -> Nat]
  BY <1>1, CountType DEF Fail, RestFine
<1>5. RestFine'
  BY <1>1, <1>2, <1>3, <1>4, EventMoves DEF Fail
<1>6. JobsFine'
  BY <1>1, <1>2, Ending DEF Fail
<1>7. QED  BY <1>5, <1>6, PartsNext

-----------------------------------------------------------------------------
(* So do the operations, the sweeps and the retries *)

\* A push of a state of the row, and whatever of the rest stays in its type.
LEMMA PushKeeps ==
  ASSUME Inv, UNCHANGED event, NEW p \in Pushes, NEW s \in States, NEW w \in BOOLEAN,
         Push(p, s, w), RestFine'
  PROVE  Inv'
<1>1. JobsFine /\ RestFine
  BY Parts
<1>2. event.version \in Nat /\ event'.version \in Nat /\ event.version <= event'.version
  BY <1>1, VersionType
<1>3. QED  BY <1>1, <1>2, Pushing, PartsNext

LEMMA SweepsKeep == ASSUME Inv, NEW p \in Pushes, Backfill(p) \/ Repush(p) PROVE Inv'
<1>1. RestFine
  BY Parts
<1>2. /\ row # None /\ Push(p, StateOf(row), TRUE)
      /\ UNCHANGED <<row, event, op, failed, import, listed, anchor, twin, count>>
  BY DEF Backfill, Repush, MissedPush
<1>3. StateOf(row) \in States
  BY <1>1, <1>2, RowKnown, RowState
<1>4. RestFine'
  BY <1>1, <1>2 DEF RestFine, Known
<1>5. QED  BY <1>2, <1>3, <1>4, PushKeeps

LEMMA RetryKeeps == ASSUME Inv, NEW p \in Pushes, NEW f \in failed, Retry(p, f) PROVE Inv'
<1>1. RestFine /\ f \in States
  BY Parts DEF RestFine
<1>2. /\ Push(p, f, FALSE) /\ failed' = failed \ {f}
      /\ UNCHANGED <<row, event, op, import, listed, anchor, twin, count>>
  BY DEF Retry
<1>3. RestFine'
  BY <1>1, <1>2 DEF RestFine, Known
<1>4. QED  BY <1>1, <1>2, <1>3, PushKeeps

LEMMA RepairKeeps == ASSUME Inv, NEW p \in Pushes, RepairDone(p) PROVE Inv'
<1>1. RestFine
  BY Parts
<1>2. /\ row # None /\ row' = [row EXCEPT !.link = TRUE, !.fresh = TRUE]
      /\ anchor' = row.pushed /\ Late /\ Push(p, StateOf(row'), FALSE)
      /\ UNCHANGED <<event, failed, import, listed, twin, count>>
  BY DEF RepairDone, OrphanedDone, Outdates
<1>3. row \in Rows /\ row.pushed <= event.version /\ row.synced <= event.version
  BY <1>1, <1>2, RowKnown
<1>4. row' \in Rows /\ row'.pushed = row.pushed /\ row'.synced = row.synced /\ row.pushed \in Versions
  BY <1>2, <1>3 DEF Rows
<1>5. op' \in Ops \cup {None} /\ Known(op)'
  BY <1>1, <1>2, LateType DEF RestFine
<1>6. RestFine'
  BY <1>1, <1>2, <1>3, <1>4, <1>5 DEF RestFine, Known
<1>7. StateOf(row') \in States
  BY <1>4, RowState
<1>8. QED  BY <1>2, <1>6, <1>7, PushKeeps

LEMMA ApplyKeeps == ASSUME Inv, NEW p \in Pushes, Apply(p) PROVE Inv'
<1>1. JobsFine /\ RestFine
  BY Parts
<1>2. /\ op \in Ops /\ op.pushed <= event.version /\ op.synced <= event.version
      /\ op' = None /\ UNCHANGED <<event, failed, import, listed, anchor, twin, count>>
  BY <1>1 DEF Apply, RestFine, Known
<1>3. op.state \in States /\ op.pushed \in Nat /\ op.synced \in Nat
  BY <1>2 DEF Ops, Versions
<1>4. event.version \in Nat
  BY <1>1, VersionType
<1>5. CASE (row = None /\ ~op.create) \/ (op.late /\ ~op.state.removes)
  <2>1. UNCHANGED <<row, job>>
    BY <1>5 DEF Apply
  <2>2. RestFine'
    BY <2>1, <1>1, <1>2 DEF RestFine, Known
  <2>3. JobsFine'
    BY <2>1, <1>1, <1>2, <1>4, JobsStay
  <2>4. QED  BY <2>2, <2>3, PartsNext
<1>6. CASE ~((row = None /\ ~op.create) \/ (op.late /\ ~op.state.removes))
  <2> DEFINE off == op.state.status = "off"
             r == [status |-> op.state.status, content |-> op.state.content,
                   link |-> op.state.link /\ ~off,
                   pushed |-> IF off THEN 0 ELSE op.pushed,
                   synced |-> IF off THEN 0 ELSE op.synced, fresh |-> TRUE]
  <2>1. Push(p, op.state, FALSE) /\ row' = IF op.state.removes THEN None ELSE r
    BY <1>6 DEF Apply
  <2>2. op.state.status \in Statuses /\ op.state.content \in Contents /\ op.state.link \in BOOLEAN
    BY <1>3 DEF States
  <2>3. r \in Rows
    BY <2>2, <1>3 DEF Rows, Versions
  <2>4. r.pushed <= event.version /\ r.synced <= event.version
    BY <1>2, <1>4
  <2> HIDE DEF r
  <2>5. row' \in Rows \cup {None} /\ Known(row)'
    BY <2>1, <2>3, <2>4, <1>2 DEF Known
  <2>6. RestFine'
    BY <2>5, <1>1, <1>2 DEF RestFine, Known
  <2>7. QED  BY <2>1, <2>6, <1>2, <1>3, PushKeeps
<1>7. QED  BY <1>5, <1>6

-----------------------------------------------------------------------------
(* And what is no push *)

\* What no push takes part in keeps Inv if the rest stays in its type.
LEMMA RestKeeps ==
  ASSUME Inv, RestFine', UNCHANGED job, event'.version \in Nat, event.version <= event'.version
  PROVE  Inv'
<1>1. JobsFine /\ event.version \in Nat
  BY Parts, VersionType
<1>2. QED  BY <1>1, JobsStay, PartsNext

LEMMA NewContent == ASSUME RestFine PROVE NextContent \in Contents
BY DEF RestFine, NextContent, Contents

\* A gesture leaves an operation of the device's, which knows what it has pulled.
LEMMA MadeType ==
  ASSUME RestFine, NEW create \in BOOLEAN, NEW knows \in BOOLEAN, NEW removes \in BOOLEAN,
         NEW status \in Statuses, NEW content \in Contents, knows => row # None,
         Made(create, knows, removes, status, content), UNCHANGED event
  PROVE  op' \in Ops \cup {None} /\ Known(op)' /\ op' \in Ops /\ ~op'.read /\ ~op'.late
         /\ op'.state.removes = removes /\ op'.state.status = status
<1>1. anchor \in Nat /\ anchor <= event.version /\ event.version \in Nat
  BY VersionType DEF RestFine, Versions
<1>2. knows => row.synced \in Nat /\ row.synced <= event.version
  BY RowKnown DEF Rows, Versions
<1> DEFINE o == [state |-> [removes |-> removes, status |-> status, content |-> content, link |-> knows],
                 create |-> create, knows |-> knows, read |-> FALSE, late |-> FALSE,
                 pushed |-> IF knows THEN anchor ELSE 0, synced |-> IF knows THEN row.synced ELSE 0]
<1>3. op' = o
  BY DEF Made
<1>4. o \in Ops
  BY <1>1, <1>2 DEF Ops, States, Versions
<1>5. o.pushed <= event.version /\ o.synced <= event.version
  BY <1>1, <1>2
<1>6. ~o.read /\ ~o.late /\ o.state.removes = removes /\ o.state.status = status
  OBVIOUS
<1> HIDE DEF o
<1>7. QED  BY <1>3, <1>4, <1>5, <1>6 DEF Known

LEMMA CreateKeeps == ASSUME Inv, Create PROVE Inv'
<1>1. RestFine /\ event.version \in Nat
  BY Parts, VersionType
<1>2. op' \in Ops \cup {None} /\ Known(op)'
  BY <1>1, NewContent, MadeType DEF Create, Statuses
<1>3. count' \in [{"gestures", "typed", "faults"} -> Nat]
  BY <1>1, CountType DEF Create, RestFine
<1>4. RestFine'
  BY <1>1, <1>2, <1>3 DEF Create, RestFine, Known
<1>5. QED  BY <1>1, <1>4, RestKeeps DEF Create

LEMMA ChangeKeeps ==
  ASSUME Inv, NEW s \in Statuses, NEW c \in Contents, NEW k \in BOOLEAN, Change(s, c, k)
  PROVE  Inv'
<1>1. RestFine /\ event.version \in Nat
  BY Parts, VersionType
<1>2. op' \in Ops \cup {None} /\ Known(op)'
  BY <1>1, MadeType DEF Change
<1>3. count' \in [{"gestures", "typed", "faults"} -> Nat]
  BY <1>1, CountType DEF Change, RestFine
<1>4. RestFine'
  BY <1>1, <1>2, <1>3 DEF Change, RestFine, Known
<1>5. QED  BY <1>1, <1>4, RestKeeps DEF Change

LEMMA DeleteKeeps == ASSUME Inv, Delete PROVE Inv'
<1>1. RestFine /\ event.version \in Nat
  BY Parts, VersionType
<1>2. row \in Rows /\ row.status \in Statuses /\ row.content \in Contents
  BY <1>1, RowKnown DEF Delete, Rows
<1>3. op' \in Ops \cup {None} /\ Known(op)'
  BY <1>1, <1>2, MadeType DEF Delete
<1>4. count' \in [{"gestures", "typed", "faults"} -> Nat]
  BY <1>1, CountType DEF Delete, RestFine
<1>5. RestFine'
  BY <1>1, <1>3, <1>4 DEF Delete, RestFine, Known
<1>6. QED  BY <1>1, <1>5, RestKeeps DEF Delete

LEMMA HydrateKeeps == ASSUME Inv, Hydrate PROVE Inv'
<1>1. RestFine /\ event.version \in Nat
  BY Parts, VersionType
<1>2. op \in Ops /\ op.pushed <= event.version /\ op.synced <= event.version
  BY <1>1 DEF Hydrate, RestFine, Known
<1>3. op.state \in States
  BY <1>2 DEF Ops
<1>4. op' \in Ops /\ op'.pushed <= event.version /\ op'.synced <= event.version
  <2>1. CASE row = None
    <3>1. op' = [op EXCEPT !.read = TRUE]
      BY <2>1 DEF Hydrate
    <3>2. QED  BY <3>1, <1>2 DEF Ops
  <2>2. CASE row # None /\ (op.state.removes \/ op.state.status = "off")
    <3> DEFINE l == row.link /\ (op.state.removes \/ row.status = "calendar")
    <3>1. op' = [op EXCEPT !.read = TRUE, !.state = [op.state EXCEPT !.link = l]]
      BY <2>2 DEF Hydrate
    <3>2. l \in BOOLEAN
      BY <2>2, <1>1, RowKnown DEF Rows
    <3> HIDE DEF l
    <3>3. [op.state EXCEPT !.link = l] \in States
      BY <3>2, <1>3 DEF States
    <3>4. QED  BY <3>1, <3>3, <1>2 DEF Ops
  <2>3. CASE row # None /\ ~(op.state.removes \/ op.state.status = "off")
    <3> DEFINE l == op.state.link \/ row.link
               a == IF Unfilled(op) THEN op.pushed ELSE row.pushed
               b == IF Unfilled(op) THEN op.synced ELSE row.synced
    <3>1. op' = [op EXCEPT !.read = TRUE, !.state = [op.state EXCEPT !.link = l],
                           !.pushed = a, !.synced = b]
      BY <2>3 DEF Hydrate
    <3>2. row \in Rows /\ row.pushed <= event.version /\ row.synced <= event.version
      BY <2>3, <1>1, RowKnown
    <3>3. l \in BOOLEAN /\ a \in Versions /\ b \in Versions
      BY <3>2, <1>2, <1>3 DEF Rows, Ops, States
    <3>4. a <= event.version /\ b <= event.version
      BY <3>2, <1>2
    <3> HIDE DEF l, a, b
    <3>5. [op.state EXCEPT !.link = l] \in States
      BY <3>3, <1>3 DEF States
    <3>6. QED  BY <3>1, <3>3, <3>4, <3>5, <1>2 DEF Ops
  <2>4. QED  BY <2>1, <2>2, <2>3
<1>5. RestFine'
  BY <1>1, <1>4 DEF Hydrate, RestFine, Known
<1>6. QED  BY <1>1, <1>5, RestKeeps DEF Hydrate

LEMMA TypeKeeps == ASSUME Inv, Type PROVE Inv'
<1>1. RestFine /\ event.version \in Nat /\ event \in Events
  BY Parts, VersionType
<1>2. event' \in Events /\ event'.version = event.version + 1
  <2>1. NextContent \in Contents
    BY <1>1, NewContent
  <2>2. CASE event' = [event EXCEPT !.content = NextContent, !.version = event.version + 1, !.typed = TRUE]
    <3>1. event.version + 1 \in Nat
      BY <1>1
    <3> HIDE DEF NextContent
    <3>2. QED  BY <2>1, <2>2, <3>1, <1>1 DEF Events, Versions
  <2>3. CASE event' = [Gone EXCEPT !.typed = TRUE]
    <3>1. Gone = [event EXCEPT !.status = "gone", !.version = event.version + 1, !.typed = FALSE]
      BY DEF Gone
    <3>2. event.version + 1 \in Nat
      BY <1>1
    <3>3. Gone \in Events /\ Gone.version = event.version + 1
      BY <3>1, <3>2, <1>1 DEF Events, Versions
    <3> HIDE DEF Gone
    <3>4. QED  BY <3>3, <2>3 DEF Events
  <2>4. QED  BY <2>2, <2>3 DEF Type
<1>3. count' \in [{"gestures", "typed", "faults"} -> Nat]
  BY <1>1, CountType DEF Type, RestFine
<1>4. event'.version \in Nat /\ event.version <= event'.version
  BY <1>1, <1>2
<1>5. RestFine'
  BY <1>1, <1>2, <1>3, <1>4, EventMoves DEF Type, RestFine
<1>6. QED  BY <1>4, <1>5, RestKeeps DEF Type

LEMMA CrashKeeps == ASSUME Inv, Crash PROVE Inv'
<1>1. JobsFine /\ RestFine /\ event.version \in Nat
  BY Parts, VersionType
<1>2. JobsFine'
  <2>1. job' = [p \in Pushes |-> Idle] /\ UNCHANGED event
    BY DEF Crash
  <2>2. \A p \in Pushes : job'[p] = Idle
    BY <2>1
  <2>3. job' \in [Pushes -> Jobs]
    BY <2>1, IdleJob
  <2>4. Idle.step \notin Slotted
    BY IdleJob DEF Slotted
  <2>5. QED  BY <2>1, <2>2, <2>3, <2>4, IdleJob, <1>1 DEF JobsFine, SlotInv
<1>3. op' \in Ops \cup {None} /\ Known(op)'
  <2>1. CASE op = None
    BY <2>1 DEF Crash, Known
  <2>2. CASE op # None
    <3>1. op' = [op EXCEPT !.read = FALSE] /\ op \in Ops /\ UNCHANGED event
      BY <2>2, <1>1 DEF Crash, RestFine
    <3>2. op' \in Ops /\ op'.pushed = op.pushed /\ op'.synced = op.synced
      BY <3>1 DEF Ops
    <3>3. QED  BY <2>2, <3>1, <3>2, <1>1 DEF RestFine, Known
  <2>3. QED  BY <2>1, <2>2
<1>4. count' \in [{"gestures", "typed", "faults"} -> Nat]
  BY <1>1, CountType DEF Crash, RestFine
<1>5. RestFine'
  BY <1>1, <1>3, <1>4 DEF Crash, RestFine, Known
<1>6. QED  BY <1>2, <1>5, PartsNext

LEMMA DismissKeeps == ASSUME Inv, NEW f \in failed, Dismiss(f) PROVE Inv'
<1>1. RestFine /\ event.version \in Nat
  BY Parts, VersionType
<1>2. RestFine'
  BY <1>1 DEF Dismiss, RestFine, Known
<1>3. QED  BY <1>1, <1>2, RestKeeps DEF Dismiss

LEMMA ImportReadKeeps == ASSUME Inv, ImportRead PROVE Inv'
<1>1. RestFine /\ event.version \in Nat /\ event \in Events
  BY Parts, VersionType
<1>2. UNCHANGED <<row, event, op, job, failed, anchor, twin, count>>
  BY DEF ImportRead
<1>3. CASE OwnEcho
  <2>1. listed' = event.version /\ UNCHANGED import
    BY <1>3 DEF ImportRead
  <2>2. RestFine'
    BY <2>1, <1>1, <1>2 DEF RestFine, Known, Versions
  <2>3. QED  BY <2>2, <1>1, <1>2, RestKeeps
<1>4. CASE ~OwnEcho
  <2>1. import' = [event |-> event, row |-> row] /\ UNCHANGED listed
    BY <1>4 DEF ImportRead
  <2>2. /\ import' \in [event : Events, row : Rows \cup {None}]
        /\ import'.event = event /\ import'.row = row
    BY <2>1, <1>1 DEF RestFine
  <2>3. RestFine'
    BY <2>1, <2>2, <1>1, <1>2 DEF RestFine, Known
  <2>4. QED  BY <2>3, <1>1, <1>2, RestKeeps
<1>5. QED  BY <1>3, <1>4

\* A sync writes a row, of which nothing is later than the event it has listed.
LEMMA Upserting ==
  ASSUME RestFine, import # None
  PROVE  /\ Upserted(import.row, row, import.event) \in Rows \cup {None}
         /\ Upserted(import.row, row, import.event) # None =>
              /\ Upserted(import.row, row, import.event).pushed <= event.version
              /\ Upserted(import.row, row, import.event).synced <= event.version
<1> DEFINE seen == import.row
           e == import.event
           Good(r) == r # None => r \in Rows /\ r.pushed <= event.version /\ r.synced <= event.version
<1>1. /\ e \in Events /\ e.version \in Nat /\ e.version <= event.version
      /\ seen \in Rows \cup {None} /\ row \in Rows \cup {None} /\ Good(seen) /\ Good(row)
  BY DEF RestFine, Known, Events, Versions
<1> HIDE DEF seen, e
<1>2. Good(Trashed(seen, row))
  BY <1>1 DEF Trashed, Rows, Statuses
<1>3. ASSUME NEW x, NEW r, x # None, Good(x), Good(r)
      PROVE  Good(Merged(x, r, e))
  <2>1. x \in Rows /\ x.pushed <= event.version
    BY <1>3
  <2>2. CASE e.version <= x.synced
    BY <2>2, <1>3 DEF Merged
  <2>3. CASE ~(e.version <= x.synced) /\ x.content # e.content
    <3> DEFINE m == [x EXCEPT !.content = e.content, !.synced = e.version, !.fresh = TRUE]
    <3>1. Merged(x, r, e) = m
      BY <2>3 DEF Merged
    <3>2. m \in Rows /\ m.pushed = x.pushed /\ m.synced = e.version
      BY <2>1, <1>1 DEF Rows, Events, Versions
    <3> HIDE DEF m
    <3>3. QED  BY <3>1, <3>2, <2>1, <1>1
  <2>4. CASE ~(e.version <= x.synced) /\ x.content = e.content
    <3>1. CASE r = None
      BY <3>1, <2>4 DEF Merged
    <3>2. CASE r # None
      <4> DEFINE fresh == r.fresh /\ ~Agrees(r, e)
                 m == [r EXCEPT !.synced = e.version, !.fresh = fresh]
      <4>1. Merged(x, r, e) = m
        BY <3>2, <2>4 DEF Merged
      <4>2. r \in Rows /\ r.pushed <= event.version
        BY <3>2, <1>3
      <4>3. fresh \in BOOLEAN
        BY <4>2 DEF Rows
      <4> HIDE DEF fresh
      <4>4. m \in Rows /\ m.pushed = r.pushed /\ m.synced = e.version
        BY <4>2, <4>3, <1>1 DEF Rows, Versions
      <4> HIDE DEF m
      <4>5. QED  BY <4>1, <4>2, <4>4, <1>1
    <3>3. QED  BY <3>1, <3>2
  <2>5. QED  BY <2>2, <2>3, <2>4
<1>4. seen # None => Good(Revived(seen, e))
  <2>1. SUFFICES ASSUME seen # None PROVE Good(Revived(seen, e))
    OBVIOUS
  <2> DEFINE status == IF e.marked /\ seen.content = e.content THEN "done" ELSE "calendar"
             m == [seen EXCEPT !.status = status, !.content = e.content,
                               !.synced = e.version, !.fresh = TRUE]
  <2>2. Revived(seen, e) = m
    BY DEF Revived
  <2>3. status \in Statuses
    BY DEF Statuses
  <2>4. seen \in Rows /\ seen.pushed <= event.version
    BY <2>1, <1>1
  <2> HIDE DEF status
  <2>5. m \in Rows /\ m.pushed = seen.pushed /\ m.synced = e.version
    BY <2>3, <2>4, <1>1 DEF Rows, Events, Versions
  <2> HIDE DEF m
  <2>6. QED  BY <2>2, <2>4, <2>5, <1>1
<1>5. row # None => Good([row EXCEPT !.link = TRUE, !.fresh = TRUE])
                    /\ [row EXCEPT !.link = TRUE, !.fresh = TRUE] # None
  <2>1. row # None => /\ row \in Rows
                      /\ [row EXCEPT !.link = TRUE, !.fresh = TRUE] \in Rows
                      /\ [row EXCEPT !.link = TRUE, !.fresh = TRUE].pushed = row.pushed
                      /\ [row EXCEPT !.link = TRUE, !.fresh = TRUE].synced = row.synced
    BY <1>1 DEF Rows
  <2>2. QED  BY <2>1, <1>1, NoneAssumption
<1>6. CASE seen # None /\ seen.link
  BY <1>1, <1>2, <1>3, <1>4, <1>6 DEF Upserted, seen, e
<1>7. CASE ~(seen # None /\ seen.link)
  <2>1. CASE e.status = "live" /\ Naked(row, e)
    <3> DEFINE linked == [row EXCEPT !.link = TRUE, !.fresh = TRUE]
    <3>1. row # None
      BY <2>1 DEF Naked
    <3>2. Good(linked) /\ linked # None
      BY <3>1, <1>5
    <3> HIDE DEF linked
    <3>3. Good(Merged(linked, linked, e))
      BY <3>2, <1>3
    <3>4. Upserted(seen, row, e) = Merged(linked, linked, e)
      BY <1>7, <2>1 DEF Upserted, linked
    <3>5. QED  BY <3>3, <3>4 DEF seen, e
  <2>2. CASE ~(e.status = "live" /\ Naked(row, e))
    <3>1. Upserted(seen, row, e) = row
      BY <1>7, <2>2 DEF Upserted
    <3>2. QED  BY <3>1, <1>1 DEF seen, e
  <2>3. QED  BY <2>1, <2>2
<1>8. QED  BY <1>6, <1>7

LEMMA ImportWriteKeeps == ASSUME Inv, ImportWrite PROVE Inv'
<1>1. RestFine /\ event.version \in Nat
  BY Parts, VersionType
<1>2. /\ import # None /\ import' = None /\ UNCHANGED <<event, job, failed, count>>
      /\ row' = Upserted(import.row, row, import.event)
      /\ twin' = (twin \/ Strange(import.row, row, import.event))
      /\ listed' = import.event.version
  BY DEF ImportWrite
<1>3. row' \in Rows \cup {None} /\ Known(row)'
  BY <1>1, <1>2, Upserting DEF Known
<1>4. anchor' \in Versions /\ anchor' <= event.version /\ op' \in Ops \cup {None} /\ Known(op)'
  <2>1. \/ UNCHANGED <<op, anchor>>
        \/ row' # None /\ anchor' = row'.pushed /\ Late
    BY <1>2 DEF ImportWrite, Outdates
  <2>2. CASE UNCHANGED <<op, anchor>>
    BY <2>2, <1>1, <1>2 DEF RestFine, Known
  <2>3. CASE row' # None /\ anchor' = row'.pushed /\ Late
    <3>1. op' \in Ops \cup {None} /\ Known(op)'
      BY <2>3, <1>1, <1>2, LateType DEF RestFine
    <3>2. row'.pushed \in Versions /\ row'.pushed <= event.version
      BY <2>3, <1>2, <1>3 DEF Known, Rows
    <3>3. QED  BY <3>1, <3>2, <2>3
  <2>4. QED  BY <2>1, <2>2, <2>3
<1>5. import.event.version \in Versions /\ import.event.version <= event.version
  BY <1>1, <1>2 DEF RestFine, Events
<1>6. twin' \in BOOLEAN
  BY <1>1, <1>2 DEF RestFine, Strange, Naked
<1>7. RestFine'
  BY <1>1, <1>2, <1>3, <1>4, <1>5, <1>6 DEF RestFine, Known
<1>8. QED  BY <1>1, <1>2, <1>7, RestKeeps

-----------------------------------------------------------------------------
(* Types *)

LEMMA InvInit == Init => Inv
<1> SUFFICES ASSUME Init PROVE Inv
  OBVIOUS
<1>1. event.version = 0 /\ event \in Events
  BY DEF Init, Events, Contents, Versions
<1>2. RestFine
  <2>1. row = None /\ op = None /\ import = None /\ failed = {} /\ listed = 0 /\ anchor = 0 /\ twin = FALSE
    BY DEF Init
  <2>2. count \in [{"gestures", "typed", "faults"} -> Nat]
    BY DEF Init
  <2>3. listed <= event.version /\ anchor <= event.version /\ {listed, anchor} \subseteq Nat
    BY <1>1, <2>1
  <2> HIDE DEF Init
  <2>4. QED  BY <1>1, <2>1, <2>2, <2>3 DEF RestFine, Known, Versions
<1>3. \A p \in Pushes : job[p] = Idle
  BY DEF Init
<1>4. Idle.step \notin Slotted
  BY IdleJob DEF Slotted
<1>5. JobsFine
  BY <1>1, <1>3, <1>4, IdleJob DEF Init, JobsFine, SlotInv
<1>6. QED  BY <1>2, <1>5, Parts

LEMMA WorkKeeps == ASSUME Inv, NEW p \in Pushes, Work(p) PROVE Inv'
BY ApplyKeeps, CheckKeeps, StampKeeps, UnlinkKeeps, MarkKeeps, AnswerKeeps, FailKeeps,
   SweepsKeep, RepairKeeps, RetryKeeps DEF Work

LEMMA GestureKeeps == ASSUME Inv, Gesture PROVE Inv'
<1>1. CASE \E s \in Statuses, c \in {NextContent} \cup (IF row = None THEN {} ELSE {row.content}),
              knows \in BOOLEAN : Change(s, c, knows)
  <2>1. PICK s \in Statuses, c \in {NextContent} \cup (IF row = None THEN {} ELSE {row.content}),
             knows \in BOOLEAN : Change(s, c, knows)
    BY <1>1
  <2>2. RestFine
    BY Parts
  <2>3. c \in Contents
    BY <2>2, NewContent, RowKnown DEF Rows
  <2>4. QED  BY <2>1, <2>3, ChangeKeeps
<1>2. QED  BY <1>1, CreateKeeps, DeleteKeeps DEF Gesture

\* Every step keeps the invariant.
LEMMA InvStep == Inv /\ [Next]_vars => Inv'
<1> SUFFICES ASSUME Inv, [Next]_vars PROVE Inv'
  OBVIOUS
<1>1. CASE UNCHANGED vars
  BY <1>1 DEF vars, Inv, TypeOK, SlotInv, VersionInv, Known
<1>2. CASE Server
  BY <1>2, HydrateKeeps, ImportReadKeeps, ImportWriteKeeps, CrashKeeps, DismissKeeps DEF Server
<1>3. QED  BY <1>1, <1>2, GestureKeeps, TypeKeeps, WorkKeeps DEF Next

\* Every state is of its types: one push of an item creates its event at a time
\* (gcalCreationInFlight), and no note of a push, on the row, on the devices or
\* in a sync, is of a version that Google does not have, in every race.
THEOREM TypeCorrect == Spec => []TypeOK
<1>1. Inv => TypeOK
  BY DEF Inv
<1>2. QED  BY <1>1, InvInit, InvStep, PTL DEF Spec

-----------------------------------------------------------------------------
(* What the link rests on *)

Orderly == Races \cap {"linkErased", "crossing", "parallelPushes"} = {}

\* Facts about single steps, from which the parts of LinkInv follow: what
\* becomes of the pushes, of the row, and of the operation.
LEMMA RowSteps ==
  ASSUME Inv, [Next]_vars, row # None, row' # None, row' # row
  PROVE  \/ \E p \in Pushes : Apply(p) \/ Stamp(p) \/ Unlink(p) \/ Mark(p) \/ RepairDone(p)
         \/ ImportWrite
BY DEF Next, vars, Gesture, Create, Change, Delete, Type, Server, Hydrate, ImportRead, Crash, Dismiss,
       Work, Check, Answer, Fail, Backfill, Repush, Retry

\* A sync leaves the link as it is, or sets it, and takes no item off the calendar.
LEMMA ImportLeaves ==
  ASSUME Inv, ImportInv, ImportWrite
  PROVE  /\ row = None => row' = None
         /\ row # None => /\ row' # None
                          /\ row.link => row'.link
                          /\ row'.status = "off" => row.status = "off"
<1> DEFINE seen == import.row
           e == import.event
<1>1. row' = Upserted(seen, row, e) /\ seen = row /\ row \in Rows \cup {None}
  BY Parts DEF ImportWrite, ImportInv, RestFine
<1>0. import # None => e \in Events
  BY Parts DEF RestFine
<1>7. import # None
  BY DEF ImportWrite
<1> HIDE DEF seen, e
<1>2. ASSUME row # None
      PROVE  /\ Trashed(row, row) # None /\ Trashed(row, row).link = row.link
             /\ Trashed(row, row).status \in {"trash", row.status}
  <2>1. row \in Rows /\ [row EXCEPT !.status = "trash", !.fresh = TRUE] \in Rows
    BY <1>1, <1>2 DEF Rows, Statuses
  <2>2. [row EXCEPT !.status = "trash", !.fresh = TRUE] # None
    BY <2>1, NoneAssumption
  <2>3. QED  BY <1>2, <2>1, <2>2 DEF Trashed, Rows
<1>3. ASSUME row # None
      PROVE  /\ Revived(row, e) # None /\ Revived(row, e).link = row.link
             /\ Revived(row, e).status # "off"
  <2> DEFINE status == IF e.marked /\ row.content = e.content THEN "done" ELSE "calendar"
             m == [row EXCEPT !.status = status, !.content = e.content,
                              !.synced = e.version, !.fresh = TRUE]
  <2>1. row \in Rows /\ e \in Events
    BY <1>0, <1>1, <1>3, <1>7
  <2>2. m \in Rows /\ m.link = row.link /\ m.status = status
    BY <2>1 DEF Rows, Events, Statuses
  <2>3. Revived(row, e) = m
    BY DEF Revived
  <2>4. QED  BY <2>2, <2>3, NoneAssumption
<1>4. ASSUME NEW r \in Rows
      PROVE  /\ Merged(r, r, e) # None /\ Merged(r, r, e).link = r.link
             /\ Merged(r, r, e).status = r.status
  <2>1. e \in Events
    BY <1>0, <1>7
  <2>2. /\ [r EXCEPT !.content = e.content, !.synced = e.version, !.fresh = TRUE] \in Rows
        /\ \A f \in BOOLEAN : [r EXCEPT !.synced = e.version, !.fresh = f] \in Rows
    BY <1>4, <2>1 DEF Rows, Events
  <2>3. (r.fresh /\ ~Agrees(r, e)) \in BOOLEAN
    BY <1>4 DEF Rows
  <2>4. QED  BY <1>4, <2>2, <2>3, NoneAssumption DEF Merged, Rows
<1>5. row # None => /\ [row EXCEPT !.link = TRUE, !.fresh = TRUE] \in Rows
                    /\ [row EXCEPT !.link = TRUE, !.fresh = TRUE].link
                    /\ [row EXCEPT !.link = TRUE, !.fresh = TRUE].status = row.status
  BY <1>1 DEF Rows
<1>6. QED  BY <1>1, <1>2, <1>3, <1>4, <1>5 DEF Upserted, Naked

\* What is at work on an item whose import is under way: nothing.
LEMMA ImportStays ==
  ASSUME Inv, LinkInv, Orderly, [Next]_vars
  PROVE  ImportInv'
<1> SUFFICES ASSUME import' # None
             PROVE  /\ import'.row = row'
                    /\ \A p \in Pushes : job'[p].step = "idle"
                    /\ op' # None => ~op'.read
  BY DEF ImportInv, Free
<1>1. ImportInv /\ "crossing" \notin Races
  BY DEF LinkInv, Orderly
<1>2. CASE ImportRead /\ import = None
  <2>1. Calm /\ UNCHANGED <<row, op, job>> /\ import' = [event |-> event, row |-> row]
    BY <1>1, <1>2 DEF ImportRead
  <2>2. QED  BY <2>1 DEF Calm, Free
<1>3. ASSUME import # None, UNCHANGED <<import, row, job, op>> PROVE ImportInv'
  BY <1>1, <1>3 DEF ImportInv, Free
<1>4. CASE Gesture
  <2>1. op = None /\ UNCHANGED <<import, row, job>> /\ ~op'.read
    BY <1>4 DEF Gesture, Create, Change, Delete, Made
  <2>2. QED  BY <2>1, <1>1 DEF ImportInv, Free
<1>5. ASSUME NEW p \in Pushes, Work(p) PROVE FALSE
  <2>1. import # None
    BY <1>5 DEF Work, Apply, Check, Stamp, Unlink, Mark, Answer, Fail, Backfill, Repush, RepairDone, Retry
  <2>2. Free(p) /\ (op # None => ~op.read) /\ ~Undisturbed
    BY <2>1, <1>1 DEF ImportInv, Undisturbed
  <2>3. QED
    BY <2>1, <2>2, <1>5 DEF Work, Apply, Check, Stamp, Unlink, Mark, Answer, Fail, Backfill, Repush,
       RepairDone, Retry, Push, At, Free, Caught, Calls
<1>6. CASE Type \/ UNCHANGED vars \/ \E f \in failed : Dismiss(f)
  <2>1. UNCHANGED <<import, row, job, op>>
    BY <1>6 DEF Type, vars, Dismiss
  <2>2. QED  BY <2>1, <1>3 DEF ImportInv, Free
<1>7. CASE Hydrate \/ ImportWrite \/ Crash
  <2>1. Undisturbed /\ UNCHANGED import
    BY <1>7 DEF Hydrate, ImportWrite, Crash
  <2>2. QED  BY <2>1, <1>1 DEF Undisturbed
<1>8. ImportRead => import = None
  BY DEF ImportRead
<1>9. QED  BY <1>2, <1>4, <1>5, <1>6, <1>7, <1>8 DEF Next, Server

\* While the first operation is under way there is nothing else.
LEMMA FirstStays ==
  ASSUME Inv, LinkInv, Orderly, [Next]_vars
  PROVE  FirstInv'
<1> DEFINE First == count["gestures"] = 0 \/ (op # None /\ op.create)
           Nothing == row = None /\ failed = {} /\ \A p \in Pushes : job[p].step = "idle"
<1>1. /\ First => Nothing
      /\ count["gestures"] = 0 => op = None
      /\ ImportInv
  BY DEF LinkInv, FirstInv, Free
<1>2. /\ count \in [{"gestures", "typed", "faults"} -> Nat]
      /\ op \in Ops \cup {None}
  BY Parts DEF RestFine
<1>3. (count["gestures"] = 0 => op = None)' /\ (First => Nothing)'
  <2>1. CASE Gesture
    <3>1. count'["gestures"] = count["gestures"] + 1 /\ count["gestures"] \in Nat
      BY <2>1, <1>2 DEF Gesture, Create, Change, Delete, Counted
    <3>2. CASE Create
      BY <3>1, <3>2, <1>1 DEF Create
    <3>3. CASE ~Create
      <4>1. ~op'.create
        BY <2>1, <3>3 DEF Gesture, Change, Delete, Made
      <4>2. QED  BY <3>1, <4>1
    <3>4. QED  BY <3>2, <3>3
  <2>2. CASE \E p \in Pushes : Apply(p)
    BY <2>2, <1>1 DEF Apply
  <2>3. ASSUME NEW p \in Pushes, Work(p), ~Apply(p)
        PROVE (count["gestures"] = 0 => op = None)' /\ (First => Nothing)'
    <3>1. UNCHANGED count["gestures"] /\ (op' # None => op # None /\ op'.create = op.create)
          /\ (op = None => op' = None)
      <4>1. op' = op \/ (op # None /\ op' = [op EXCEPT !.late = TRUE])
        BY <2>3 DEF Work, Check, Stamp, Unlink, Mark, Answer, Fail, Backfill, Repush, RepairDone, Retry,
           Outdates, Late
      <4>2. UNCHANGED count["gestures"]
        BY <2>3, <1>2 DEF Work, Check, Stamp, Unlink, Mark, Answer, Fail, Backfill, Repush, RepairDone, Retry, Counted
      <4>3. QED  BY <4>1, <4>2, <1>2 DEF Ops
    <3>2. ~First
      <4>1. SUFFICES ASSUME Nothing PROVE FALSE
        BY <1>1
      <4>2. ~\E f \in failed : Retry(p, f)
        BY <4>1
      <4>3. ~(Backfill(p) \/ Repush(p) \/ RepairDone(p))
        BY <4>1 DEF Backfill, Repush, RepairDone, MissedPush, OrphanedDone
      <4>4. ~(Check(p) \/ Stamp(p) \/ Unlink(p) \/ Mark(p) \/ Answer(p) \/ Fail(p))
        BY <4>1 DEF Check, Stamp, Unlink, Mark, Answer, Fail, At, Calls
      <4>5. QED  BY <2>3, <4>2, <4>3, <4>4 DEF Work
    <3>3. QED  BY <3>1, <3>2
  <2>4. CASE Type \/ UNCHANGED vars \/ (\E f \in failed : Dismiss(f)) \/ Hydrate \/ ImportRead
    <3>1. UNCHANGED <<row, job, count["gestures"]>> /\ failed' \subseteq failed
      BY <2>4, <1>2 DEF Type, vars, Dismiss, Hydrate, ImportRead, Counted
    <3>2. (op = None => op' = None) /\ (op' # None => op # None /\ op'.create = op.create)
      BY <2>4, <1>2 DEF Type, vars, Dismiss, Hydrate, ImportRead, Ops
    <3>3. QED  BY <3>1, <3>2, <1>1
  <2>5. CASE ImportWrite
    <3>1. row = None => row' = None
      BY <2>5, <1>1, ImportLeaves
    <3>2. UNCHANGED <<job, failed, count>>
      BY <2>5 DEF ImportWrite
    <3>3. op' = op \/ (op # None /\ op' = [op EXCEPT !.late = TRUE])
      BY <2>5 DEF ImportWrite, Outdates, Late
    <3>4. (op = None => op' = None) /\ (op' # None => op # None /\ op'.create = op.create)
      BY <3>3, <1>2 DEF Ops
    <3>5. QED  BY <3>1, <3>2, <3>4, <1>1
  <2>6. CASE Crash
    <3>1. UNCHANGED <<row, failed, count["gestures"]>> /\ job' = [p \in Pushes |-> Idle]
      BY <2>6, <1>2 DEF Crash, Counted
    <3>2. (op = None => op' = None) /\ (op' # None => op # None /\ op'.create = op.create)
      BY <2>6, <1>2 DEF Crash, Ops
    <3>3. \A p \in Pushes : job'[p].step = "idle"
      BY <3>1, IdleJob
    <3>4. QED  BY <3>1, <3>2, <3>3, <1>1
  <2>7. QED  BY <2>1, <2>2, <2>3, <2>4, <2>5, <2>6 DEF Next, Server
<1>4. QED  BY <1>3 DEF FirstInv, Free

\* Who does what with the operation of a device.
LEMMA OpSteps ==
  ASSUME Inv, [Next]_vars, op' # None
  PROVE  \/ Gesture \/ Hydrate \/ Crash
         \/ op # None /\ op'.read = op.read /\ op'.state = op.state
<1>1. op \in Ops \cup {None}
  BY Parts DEF RestFine
<1>2. \/ Gesture \/ Hydrate \/ Crash \/ UNCHANGED op
      \/ op # None /\ op' = [op EXCEPT !.late = TRUE]
  <2>1. ASSUME NEW p \in Pushes, Work(p)
        PROVE  UNCHANGED op \/ (op # None /\ op' = [op EXCEPT !.late = TRUE])
    BY <2>1 DEF Work, Apply, Check, Stamp, Unlink, Mark, Answer, Fail, Backfill, Repush, RepairDone,
       Retry, Outdates, Late
  <2>2. ImportWrite => UNCHANGED op \/ (op # None /\ op' = [op EXCEPT !.late = TRUE])
    BY DEF ImportWrite, Outdates, Late
  <2>3. CASE Type \/ UNCHANGED vars \/ (\E f \in failed : Dismiss(f)) \/ ImportRead
    BY <2>3 DEF Type, vars, Dismiss, ImportRead
  <2>4. QED  BY <2>1, <2>2, <2>3 DEF Next, Server
<1>3. QED  BY <1>1, <1>2 DEF Ops

\* The link is set on a row while no operation has read it.
LEMMA CarryStays ==
  ASSUME Inv, LinkInv, Orderly, [Next]_vars
  PROVE  CarryInv'
<1> SUFFICES ASSUME op' # None, op'.read, ~op'.state.removes, op'.state.status # "off",
                    row' # None, row'.link
             PROVE  op'.state.link
  BY DEF CarryInv, Linked
<1>1. op \in Ops \cup {None} /\ row \in Rows \cup {None}
  BY Parts DEF RestFine
<1>2. CASE Hydrate
  <2>1. row # None /\ row.link /\ op \in Ops
    BY <1>1, <1>2 DEF Hydrate
  <2>2. op.state \in States
    BY <2>1 DEF Ops
  <2>3. CASE op.state.removes \/ op.state.status = "off"
    <3>1. op'.state.removes = op.state.removes /\ op'.state.status = op.state.status
      BY <1>2, <2>1, <2>2, <2>3 DEF Hydrate, Ops, States
    <3>2. QED  BY <2>3, <3>1
  <2>4. CASE ~(op.state.removes \/ op.state.status = "off")
    BY <1>2, <2>1, <2>2, <2>4 DEF Hydrate, Ops, States
  <2>5. QED  BY <2>3, <2>4
<1>3. CASE Gesture \/ Crash
  BY <1>1, <1>3 DEF Gesture, Create, Change, Delete, Made, Crash, Ops
<1>4. CASE op # None /\ op'.read = op.read /\ op'.state = op.state
  <2>1. CASE row # None /\ row.link
    BY <1>4, <2>1 DEF LinkInv, CarryInv, Linked
  <2>2. CASE row = None
    <3>1. \/ \E p \in Pushes : Apply(p)
          \/ ImportWrite
      BY <2>2 DEF Next, vars, Gesture, Create, Change, Delete, Type, Server, Hydrate, ImportRead, Crash, Dismiss,
         Work, Check, Answer, Fail, Backfill, Repush, Retry, Stamp, Unlink, Mark, RepairDone, OrphanedDone
    <3>2. CASE ImportWrite
      BY <2>2, <3>2, ImportLeaves DEF LinkInv
    <3>3. QED  BY <3>1, <3>2 DEF Apply
  <2>3. CASE row # None /\ ~row.link
    <3>1. row' # row
      BY <2>3
    <3>2. ~\E p \in Pushes : Apply(p)
      BY DEF Apply
    <3>3. ~ImportWrite
      BY <1>4 DEF ImportWrite, LinkInv, ImportInv
    <3>4. ~\E p \in Pushes : Stamp(p) \/ RepairDone(p)
      BY <2>3, <1>4 DEF Stamp, RepairDone, Outdates, Orderly
    <3>5. ~\E p \in Pushes : Mark(p) \/ Unlink(p)
      BY <2>3, <1>1 DEF Mark, Unlink, Rows
    <3>6. QED  BY <2>3, <3>1, <3>2, <3>3, <3>4, <3>5, RowSteps
  <2>4. QED  BY <2>1, <2>2, <2>3
<1>5. QED  BY <1>2, <1>3, <1>4, OpSteps

\* An item leaves the calendar by an operation only.
LEMMA OffStays ==
  ASSUME Inv, LinkInv, Orderly, [Next]_vars
  PROVE  OffInv'
<1> SUFFICES ASSUME op' # None, ~op'.state.removes, op'.state.status = "off",
                    row' # None, row'.status = "off"
             PROVE  FALSE
  BY DEF OffInv
<1>1. op \in Ops \cup {None} /\ row \in Rows \cup {None}
  BY Parts DEF RestFine
<1>2. CASE Gesture
  <2>1. UNCHANGED row
    BY <1>2 DEF Gesture, Create, Change, Delete
  <2>2. CASE Create \/ Delete
    BY <2>1, <2>2 DEF Create, Delete, Made
  <2>3. ASSUME NEW s, NEW c, NEW k, Change(s, c, k) PROVE FALSE
    <3>1. s = "off" /\ Follows(row.status, s)
      BY <2>3 DEF Change, Made
    <3>2. QED  BY <2>1, <3>1 DEF Follows
  <2>4. QED  BY <1>2, <2>2, <2>3 DEF Gesture
<1>3. CASE ~Gesture
  <2>1. op # None /\ op'.state.removes = op.state.removes /\ op'.state.status = op.state.status
    <3>1. CASE Hydrate \/ Crash
      <4>1. op # None /\ op \in Ops
        BY <3>1, <1>1 DEF Hydrate, Crash
      <4>2. op.state \in States
        BY <4>1 DEF Ops
      <4>3. \A l \in BOOLEAN : /\ [op.state EXCEPT !.link = l].removes = op.state.removes
                               /\ [op.state EXCEPT !.link = l].status = op.state.status
        BY <4>2 DEF States
      <4>4. CASE Hydrate /\ row # None /\ (op.state.removes \/ op.state.status = "off")
        <5> DEFINE l == row.link /\ (op.state.removes \/ row.status = "calendar")
        <5>1. op'.state = [op.state EXCEPT !.link = l]
          BY <4>1, <4>4 DEF Hydrate, Ops
        <5> l \in BOOLEAN
          BY <4>4, <1>1 DEF Rows
        <5> HIDE DEF l
        <5>2. QED  BY <4>1, <4>3, <5>1
      <4>5. CASE Hydrate /\ row # None /\ ~(op.state.removes \/ op.state.status = "off")
        <5> DEFINE l == op.state.link \/ row.link
        <5>1. op'.state = [op.state EXCEPT !.link = l]
          BY <4>1, <4>5 DEF Hydrate, Ops
        <5> l \in BOOLEAN
          BY <4>2, <4>5, <1>1 DEF Rows, States
        <5> HIDE DEF l
        <5>2. QED  BY <4>1, <4>3, <5>1
      <4>6. CASE (Hydrate /\ row = None) \/ Crash
        BY <4>1, <4>6 DEF Hydrate, Crash, Ops
      <4>7. QED  BY <3>1, <4>4, <4>5, <4>6
    <3>2. QED  BY <1>3, <3>1, OpSteps
  <2>2. row = None \/ row.status # "off"
    BY <2>1 DEF LinkInv, OffInv
  <2>3. row # None
    <3>1. SUFFICES ASSUME row = None PROVE FALSE
      OBVIOUS
    <3>2. \/ \E p \in Pushes : Apply(p)
          \/ ImportWrite
      BY <3>1 DEF Next, vars, Gesture, Create, Change, Delete, Type, Server, Hydrate, ImportRead, Crash, Dismiss,
         Work, Check, Answer, Fail, Backfill, Repush, Retry, Stamp, Unlink, Mark, RepairDone, OrphanedDone
    <3>3. QED  BY <3>1, <3>2, ImportLeaves DEF LinkInv, Apply
  <2>4. row' # row /\ row.status # "off"
    BY <2>2, <2>3
  <2>5. CASE ImportWrite
    BY <2>3, <2>4, <2>5, ImportLeaves DEF LinkInv
  <2>6. ASSUME NEW p \in Pushes, Stamp(p) \/ Unlink(p) \/ Mark(p) \/ RepairDone(p) PROVE FALSE
    BY <2>3, <2>4, <2>6, <1>1 DEF Stamp, Unlink, Mark, RepairDone, Rows
  <2>7. ASSUME NEW p \in Pushes, Apply(p) PROVE FALSE
    BY <2>7 DEF Apply
  <2>8. QED  BY <2>3, <2>4, <2>5, <2>6, <2>7, RowSteps
<1>4. QED  BY <1>2, <1>3

\* Nothing but the push that takes the event back works on its item, and it
\* holds the slot.
LEMMA TakeBackStays ==
  ASSUME Inv, LinkInv, Orderly, [Next]_vars
  PROVE  TakeBackInv'
<1> SUFFICES ASSUME NEW p \in Pushes, job'[p].step \in {"takeBack", "unlink"}, row' # None
             PROVE  row'.link /\ row'.status = "off"
  BY DEF TakeBackInv
<1>1. op \in Ops \cup {None} /\ row \in Rows \cup {None} /\ JobsFine
  BY Parts DEF RestFine
<1>2. CASE job[p].step \in {"takeBack", "unlink"}
  <2>1. row = None \/ (row.link /\ row.status = "off")
    BY <1>2 DEF LinkInv, TakeBackInv
  <2>2. import = None /\ ~Free(p)
    BY <1>2 DEF LinkInv, ImportInv, Free
  <2>3. ASSUME NEW q \in Pushes, Apply(q) PROVE row'.link /\ row'.status = "off"
    <3>1. CASE UNCHANGED row
      BY <3>1, <2>1
    <3>2. CASE ~UNCHANGED row
      <4>1. /\ ~((row = None /\ ~op.create) \/ (op.late /\ ~op.state.removes))
            /\ Push(q, op.state, FALSE) /\ op # None /\ op.read
            /\ row' = IF op.state.removes THEN None
                      ELSE LET off == op.state.status = "off" IN
                           [status |-> op.state.status, content |-> op.state.content,
                            link |-> op.state.link /\ ~off,
                            pushed |-> IF off THEN 0 ELSE op.pushed,
                            synced |-> IF off THEN 0 ELSE op.synced, fresh |-> TRUE]
        BY <2>3, <3>2 DEF Apply
      <4>2. row # None
        BY <2>2, <4>1 DEF LinkInv, FirstInv
      <4>3. ~op.state.removes /\ op.state.status # "off" /\ op.state.link
        BY <4>1, <4>2, <2>1 DEF LinkInv, OffInv, CarryInv, Linked
      <4>4. FirstStep(op.state) = "write"
        BY <4>3 DEF FirstStep
      <4>5. QED  BY <4>1, <4>4, <2>2 DEF Push, Orderly
    <3>3. QED  BY <3>1, <3>2
  <2>4. CASE ImportWrite
    BY <2>2, <2>4 DEF ImportWrite
  <2>5. CASE row = None
    <3>1. \/ \E q \in Pushes : Apply(q)
          \/ ImportWrite
      BY <2>5 DEF Next, vars, Gesture, Create, Change, Delete, Type, Server, Hydrate, ImportRead, Crash, Dismiss,
         Work, Check, Answer, Fail, Backfill, Repush, Retry, Stamp, Unlink, Mark, RepairDone, OrphanedDone
    <3>2. QED  BY <3>1, <2>3, <2>4
  <2>6. CASE row # None
    <3>1. ASSUME NEW q \in Pushes, Stamp(q) \/ Mark(q) \/ RepairDone(q)
          PROVE  row'.link /\ row'.status = "off"
      BY <2>1, <2>6, <3>1, <1>1 DEF Stamp, Mark, RepairDone, Rows, OrphanedDone
    <3>2. ASSUME NEW q \in Pushes, Unlink(q) PROVE FALSE
      <4>1. job[p].slot /\ job[q].slot
        BY <1>2, <3>2 DEF Inv, SlotInv, Slotted, Unlink, At
      <4>2. p = q
        BY <4>1, <1>1 DEF JobsFine
      <4>3. job' = [job EXCEPT ![p] = Idle]
        BY <3>2, <4>2 DEF Unlink, End
      <4>4. job'[p].step = "idle"
        BY <4>3, <1>1, IdleJob DEF JobsFine
      <4>5. QED  BY <4>4
    <3>3. CASE UNCHANGED row
      BY <3>3, <2>1
    <3>4. QED  BY <2>3, <2>4, <2>6, <3>1, <3>2, <3>3, RowSteps
  <2>7. QED  BY <2>5, <2>6
<1>3. CASE job[p].step \notin {"takeBack", "unlink"}
  <2>0. PICK q \in Pushes : Work(q)
    <3>1. ~Crash
      BY IdleJob DEF Crash
    <3>2. QED
      BY <1>3, <3>1 DEF Next, vars, Gesture, Create, Change, Delete, Type, Server, Hydrate, ImportRead, ImportWrite, Dismiss
  <2>1. \E j : job' = [job EXCEPT ![q] = j]
    <3>1. (\E s, w : Push(q, s, w)) \/ End(q) => \E j : job' = [job EXCEPT ![q] = j]
      BY DEF Push, End
    <3>2. Check(q) \/ Answer(q) => \E j : job' = [job EXCEPT ![q] = j]
      BY DEF Check, Answer
    <3>3. Stamp(q) => End(q) \/ \E j : job' = [job EXCEPT ![q] = j]
      BY DEF Stamp
    <3>4. Unlink(q) \/ Mark(q) \/ Fail(q) => End(q)
      BY DEF Unlink, Mark, Fail
    <3>5. ~UNCHANGED job
      BY <1>3
    <3>6. Apply(q) \/ Backfill(q) \/ Repush(q) \/ RepairDone(q) \/ (\E f \in failed : Retry(q, f))
            => \E s, w : Push(q, s, w)
      BY <3>5 DEF Apply, Backfill, Repush, RepairDone, Retry
    <3>7. QED  BY <2>0, <3>1, <3>2, <3>3, <3>4, <3>6 DEF Work
  <2>2. p = q
    BY <1>3, <2>1, <1>1 DEF JobsFine
  <2>3. ASSUME NEW s, NEW w, Push(p, s, w) PROVE FALSE
    <3>1. FirstStep(s) \in {"idle", "create", "write", "remove"}
      BY DEF FirstStep
    <3>2. job'[p].step \in {"idle", FirstStep(s)}
      BY <2>3, <1>1, IdleJob DEF Push, JobsFine, Jobs, Idle
    <3>3. QED  BY <3>1, <3>2
  <2>4. ASSUME End(p) PROVE FALSE
    BY <2>4, <1>1, IdleJob DEF End, JobsFine
  <2>5. ~(Apply(p) \/ Backfill(p) \/ Repush(p) \/ RepairDone(p) \/ \E f \in failed : Retry(p, f))
    <3>1. ~UNCHANGED job
      BY <1>3
    <3>2. QED  BY <2>3, <3>1 DEF Apply, Backfill, Repush, RepairDone, Retry
  <2>6. ~(Unlink(p) \/ Mark(p) \/ Fail(p))
    BY <2>4 DEF Unlink, Mark, Fail
  <2>7. CASE Answer(p)
    <3>1. Afterwards(p) = "unlink" /\ At(p, "takeBack")
      <4>1. job'[p].step = IF Afterwards(p) = "idle" THEN "idle" ELSE Afterwards(p)
        BY <2>7, <1>1, IdleJob DEF Answer, JobsFine, Jobs
      <4>2. Afterwards(p) \in {"stamp", "idle", "unlink", "mark"}
        BY DEF Afterwards
      <4>3. Afterwards(p) = "unlink" => At(p, "takeBack")
        BY DEF Afterwards
      <4>4. QED  BY <4>1, <4>2, <4>3
    <3>2. QED  BY <3>1, <1>3 DEF At
  <2>8. CASE Check(p)
    <3>1. CASE Linked /\ ~InFlight
      <4>1. job'[p] = FollowUp(p, row) /\ UNCHANGED row
        BY <2>8, <3>1, <1>1 DEF Check, JobsFine
      <4>2. row \in Rows /\ row.link /\ job[p] \in Jobs
        BY <3>1, <1>1 DEF Linked, JobsFine
      <4>3. QED  BY <4>1, <4>2, Following
    <3>2. CASE ~(Linked /\ ~InFlight)
      <4>1. job'[p] = Idle \/ job'[p].step = "insert"
        BY <2>8, <3>2, <1>1 DEF Check, JobsFine, Jobs
      <4>2. QED  BY <4>1, IdleJob
    <3>3. QED  BY <3>1, <3>2
  <2>9. CASE Stamp(p)
    <3> DEFINE linked == [row EXCEPT !.link = TRUE, !.pushed = job[p].wrote, !.fresh = FALSE]
    <3>1. row # None /\ row' = linked /\ job' = [job EXCEPT ![p] = FollowUp(p, linked)]
      BY <2>9, <2>4 DEF Stamp
    <3>2. job[p] \in Jobs /\ job[p].wrote \in Versions
      BY <1>1 DEF JobsFine, Jobs
    <3>3. linked \in Rows /\ linked.link
      BY <3>1, <3>2, <1>1 DEF Rows
    <3>4. job'[p] = FollowUp(p, linked)
      BY <3>1, <1>1 DEF JobsFine
    <3> HIDE DEF linked
    <3>5. QED  BY <3>1, <3>2, <3>3, <3>4, Following
  <2>10. QED  BY <2>0, <2>2, <2>5, <2>6, <2>7, <2>8, <2>9 DEF Work
<1>4. QED  BY <1>2, <1>3

LEMMA LinkInit == Init => LinkInv
<1> SUFFICES ASSUME Init PROVE LinkInv
  OBVIOUS
<1>1. \A p \in Pushes : job[p].step = "idle"
  BY IdleJob DEF Init
<1>2. QED  BY <1>1 DEF Init, LinkInv, ImportInv, FirstInv, CarryInv, OffInv, TakeBackInv, Free

LEMMA LinkStep == ASSUME Orderly PROVE Inv /\ LinkInv /\ [Next]_vars => LinkInv'
BY ImportStays, FirstStays, CarryStays, OffStays, TakeBackStays DEF LinkInv

\* A step that loses the link takes the item off the calendar.
LEMMA KeepsLink ==
  ASSUME Inv, LinkInv, Orderly, [Next]_vars, row # None, row' # None, row.link, ~row'.link
  PROVE  row'.status = "off"
<1>1. row \in Rows
  BY Parts DEF RestFine
<1>2. ASSUME NEW p \in Pushes, Apply(p) PROVE row'.status = "off"
  <2>1. /\ op # None /\ op.read
        /\ row' = IF op.state.removes THEN None
                  ELSE LET off == op.state.status = "off" IN
                       [status |-> op.state.status, content |-> op.state.content,
                        link |-> op.state.link /\ ~off,
                        pushed |-> IF off THEN 0 ELSE op.pushed,
                        synced |-> IF off THEN 0 ELSE op.synced, fresh |-> TRUE]
    BY <1>2 DEF Apply
  <2>2. ~op.state.removes
    BY <2>1
  <2>3. op.state.status = "off"
    BY <2>1, <2>2 DEF LinkInv, CarryInv, Linked
  <2>4. QED  BY <2>1, <2>2, <2>3
<1>3. ASSUME NEW p \in Pushes, Unlink(p) PROVE row'.status = "off"
  <2>1. row.status = "off"
    BY <1>3 DEF Unlink, At, LinkInv, TakeBackInv
  <2>2. row' = [row EXCEPT !.link = FALSE, !.fresh = TRUE]
    BY <1>3 DEF Unlink
  <2>3. QED  BY <2>1, <2>2, <1>1 DEF Rows
<1>4. ASSUME NEW p \in Pushes, Stamp(p) \/ Mark(p) \/ RepairDone(p) PROVE FALSE
  BY <1>1, <1>4 DEF Stamp, Mark, RepairDone, Rows
<1>5. ~ImportWrite
  BY ImportLeaves DEF LinkInv
<1>6. QED  BY <1>2, <1>3, <1>4, <1>5, RowSteps

\* An item that stays on the calendar keeps its link whatever the devices that
\* change it know (carryForwardCalendarLink), for any number of pushes, changes
\* and failures, as long as no operation overtakes the link's stamp after its
\* read, no sync reads between a change and its push, and no two operations'
\* pushes run at once.
THEOREM LinkStays == ASSUME Orderly PROVE Spec => LinkKept
<1>1. Inv /\ LinkInv /\ [Next]_vars =>
        [row # None /\ row' # None /\ row.link /\ ~row'.link => row'.status = "off"]_vars
  BY KeepsLink
<1>2. QED  BY <1>1, InvInit, InvStep, LinkInit, LinkStep, PTL DEF Spec, LinkKept
-----------------------------------------------------------------------------
(* What a step does *)

Tame == Races \subseteq {"staleAnchor", "lateEdit", "lostTwice"}

LEMMA TameIs ==
  ASSUME Tame
  PROVE  /\ Orderly
         /\ \A r : r \notin {"staleAnchor", "lateEdit", "lostTwice"} => r \notin Races
BY DEF Tame, Orderly

LEMMA JobTypes ==
  ASSUME Inv, NEW p \in Pushes
  PROVE  /\ job[p] \in Jobs /\ job[p].of \in States /\ job[p].state \in States
         /\ job[p].of.content \in Nat /\ job[p].state.content \in Nat
         /\ job[p].of.link \in BOOLEAN /\ job[p].state.link \in BOOLEAN
<1>1. job[p] \in Jobs
  BY Parts DEF JobsFine
<1>2. QED  BY <1>1 DEF Jobs, States, Contents

LEMMA OpTypes ==
  ASSUME Inv, op # None
  PROVE  /\ op \in Ops /\ op.state \in States /\ op.state.content \in Nat
         /\ op.late \in BOOLEAN /\ op.read \in BOOLEAN /\ op.state.link \in BOOLEAN
         /\ op.state.status \in Statuses /\ op.state.removes \in BOOLEAN /\ op.create \in BOOLEAN
<1>1. op \in Ops
  BY Parts DEF RestFine
<1>2. QED  BY <1>1 DEF Ops, States, Contents

LEMMA RowTypes ==
  ASSUME Inv, row # None
  PROVE  /\ row \in Rows /\ row.content \in Nat /\ row.link \in BOOLEAN /\ row.status \in Statuses
<1>1. row \in Rows
  BY Parts DEF RestFine
<1>2. QED  BY <1>1 DEF Rows, Contents

\* A row that becomes another: what is left of it is said field by field.
LEMMA SetLink ==
  ASSUME NEW r \in Rows, NEW w \in Versions
  PROVE  LET n == [r EXCEPT !.link = TRUE, !.pushed = w, !.fresh = FALSE]
         IN  n \in Rows /\ n.link /\ n.status = r.status /\ n.content = r.content
BY DEF Rows

LEMMA StateFields ==
  ASSUME NEW r
  PROVE  /\ StateOf(r).removes = FALSE /\ StateOf(r).status = r.status
         /\ StateOf(r).content = r.content /\ StateOf(r).link = r.link
BY DEF StateOf

LEMMA FirstOf == ASSUME NEW s, FirstStep(s) # "idle", s.link \in BOOLEAN
  PROVE  /\ FirstStep(s) \in {"create", "write", "remove"}
         /\ FirstStep(s) \in {"write", "remove"} <=> s.link
         /\ FirstStep(s) = "create" => s.status = "calendar" /\ ~s.removes
         /\ FirstStep(s) = "remove" => s.removes \/ s.status = "off"
         /\ FirstStep(s) = "write" => ~s.removes /\ s.status # "off"
BY DEF FirstStep

LEMMA Pushed ==
  ASSUME Inv, NEW p \in Pushes, NEW s \in States, NEW w \in BOOLEAN, Push(p, s, w)
  PROVE  /\ import = None \/ "crossing" \in Races
         /\ \A q \in Pushes : q # p => job'[q] = job[q]
         /\ FirstStep(s) = "idle" => job'[p] = Idle
         /\ FirstStep(s) # "idle" => /\ job'[p].of = s /\ job'[p].state = s
                                     /\ job'[p].step = FirstStep(s) /\ job'[p].swept = w
<1>1. job \in [Pushes -> Jobs]
  BY Parts DEF JobsFine
<1>2. job' = [job EXCEPT ![p] = IF FirstStep(s) = "idle" THEN Idle
         ELSE [Idle EXCEPT !.step = FirstStep(s), !.of = s, !.state = s, !.swept = w]]
  BY DEF Push
<1> DEFINE j == [Idle EXCEPT !.step = FirstStep(s), !.of = s, !.state = s, !.swept = w]
<1>3. j.step = FirstStep(s) /\ j.of = s /\ j.state = s /\ j.swept = w
  BY DEF Idle
<1> HIDE DEF j
<1>4. job' = [job EXCEPT ![p] = IF FirstStep(s) = "idle" THEN Idle ELSE j]
  BY <1>2 DEF j
<1>5. QED  BY <1>1, <1>3, <1>4 DEF Push, Undisturbed

LEMMA Ended ==
  ASSUME Inv, NEW p \in Pushes, End(p)
  PROVE  job'[p] = Idle /\ \A q \in Pushes : q # p => job'[q] = job[q]
BY Parts DEF End, JobsFine

\* What an action asks to be pushed.
Asks(p, s) ==
  \/ Apply(p) /\ op # None /\ op.read /\ s = op.state /\ ~(row = None /\ ~op.create) /\ (op.state.removes \/ ~op.late)
  \/ (Backfill(p) \/ Repush(p)) /\ row # None /\ s = StateOf(row)
  \/ RepairDone(p) /\ row # None /\ row' # None /\ row'.link /\ s = StateOf(row')
  \/ s \in failed /\ Retry(p, s)

\* What comes after a create that has found the item r.
GoesOn(p, r) ==
  /\ job'[p].step = (IF r.status = "off" THEN "takeBack" ELSE "write")
  /\ job'[p].state = StateOf(r)

Advances(p) ==
  \/ job'[p] = job[p]
  \/ job'[p] = Idle
  \/ \E s \in States : /\ Asks(p, s) /\ FirstStep(s) # "idle"
                       /\ job'[p].of = s /\ job'[p].state = s /\ job'[p].step = FirstStep(s)
  \/ /\ job'[p].of = job[p].of
     /\ \/ /\ Check(p) /\ ~Linked /\ ~InFlight /\ job'[p].step = "insert" /\ job'[p].state = job[p].state
        \/ Check(p) /\ Linked /\ GoesOn(p, row)
        \/ Stamp(p) /\ row' # None /\ row'.link /\ GoesOn(p, row')
        \/ /\ Answer(p) /\ Afterwards(p) # "idle"
           /\ job'[p].step = Afterwards(p) /\ job'[p].state = job[p].state

\* The actions that ask for a push.
LEMMA Asking ==
  ASSUME Inv, NEW p \in Pushes,
         Apply(p) \/ Backfill(p) \/ Repush(p) \/ RepairDone(p) \/ \E f \in failed : Retry(p, f),
         ~UNCHANGED job
  PROVE  \E s \in States, w \in BOOLEAN : Asks(p, s) /\ Push(p, s, w)
<1>1. CASE Apply(p)
  <2>1. /\ ~((row = None /\ ~op.create) \/ (op.late /\ ~op.state.removes))
        /\ op # None /\ op.read /\ Push(p, op.state, FALSE)
    BY <1>1 DEF Apply
  <2>2. op.state \in States
    BY <2>1, OpTypes
  <2>3. Asks(p, op.state)
    BY <1>1, <2>1 DEF Asks
  <2>4. QED  BY <2>1, <2>2, <2>3
<1>2. CASE Backfill(p) \/ Repush(p)
  <2>1. row # None /\ Push(p, StateOf(row), TRUE)
    BY <1>2 DEF Backfill, Repush, MissedPush
  <2>2. StateOf(row) \in States
    BY <2>1, RowTypes, RowState
  <2>3. Asks(p, StateOf(row))
    BY <1>2, <2>1 DEF Asks
  <2>4. QED  BY <2>1, <2>2, <2>3
<1>3. CASE RepairDone(p)
  <2>1. row # None /\ Push(p, StateOf(row'), FALSE) /\ row' = [row EXCEPT !.link = TRUE, !.fresh = TRUE]
    BY <1>3 DEF RepairDone, OrphanedDone
  <2>2. row \in Rows
    BY <2>1, RowTypes
  <2>3. row' \in Rows /\ row'.link
    BY <2>1, <2>2 DEF Rows
  <2>4. row' # None
    BY <2>3, NoneAssumption
  <2>5. StateOf(row') \in States
    BY <2>3, RowState
  <2>6. Asks(p, StateOf(row'))
    BY <1>3, <2>1, <2>3, <2>4 DEF Asks
  <2>7. QED  BY <2>1, <2>5, <2>6
<1>4. CASE \E f \in failed : Retry(p, f)
  <2>1. PICK f \in failed : Retry(p, f)
    BY <1>4
  <2>2. f \in States /\ Push(p, f, FALSE)
    BY <2>1, Parts DEF RestFine, Retry
  <2>3. QED  BY <2>1, <2>2 DEF Asks
<1>5. QED  BY <1>1, <1>2, <1>3, <1>4

LEMMA FollowedUp ==
  ASSUME Inv, NEW p \in Pushes, NEW r \in Rows, job'[p] = FollowUp(p, r)
  PROVE  job'[p] = Idle \/ (job'[p].of = job[p].of /\ GoesOn(p, r))
<1> DEFINE j == [job[p] EXCEPT !.step = IF r.status = "off" THEN "takeBack" ELSE "write",
                               !.state = StateOf(r), !.slot = TRUE]
<1>1. job[p] \in Jobs
  BY JobTypes
<1>2. j.of = job[p].of /\ j.state = StateOf(r) /\ j.step = IF r.status = "off" THEN "takeBack" ELSE "write"
  BY <1>1 DEF Jobs
<1>3. FollowUp(p, r) = Idle \/ FollowUp(p, r) = j
  BY DEF FollowUp
<1> HIDE DEF j
<1>4. QED  BY <1>2, <1>3 DEF GoesOn

LEMMA CheckMoves ==
  ASSUME Inv, NEW p \in Pushes, Check(p)
  PROVE  Advances(p) /\ \A q \in Pushes : q # p => job'[q] = job[q]
<1>1. job \in [Pushes -> Jobs]
  BY Parts DEF JobsFine
<1>2. job[p] \in Jobs
  BY JobTypes
<1>3. \A q \in Pushes : q # p => job'[q] = job[q]
  BY <1>1 DEF Check
<1>4. CASE InFlight
  BY <1>1, <1>3, <1>4 DEF Check, Advances
<1>5. CASE ~InFlight /\ Linked
  <2>1. job'[p] = FollowUp(p, row)
    BY <1>1, <1>5 DEF Check
  <2>2. row \in Rows
    BY <1>5, RowTypes DEF Linked
  <2>3. QED  BY <1>3, <1>5, <2>1, <2>2, FollowedUp DEF Advances
<1>6. CASE ~InFlight /\ ~Linked
  <2>1. job'[p] = [job[p] EXCEPT !.step = "insert", !.slot = TRUE]
    BY <1>1, <1>6 DEF Check
  <2>2. job'[p].of = job[p].of /\ job'[p].state = job[p].state /\ job'[p].step = "insert"
    BY <1>2, <2>1 DEF Jobs
  <2>3. QED  BY <1>3, <1>6, <2>2 DEF Advances
<1>7. QED  BY <1>4, <1>5, <1>6

\* The stamp sets the link, and nothing of what the item says.
LEMMA StampEffect ==
  ASSUME Inv, NEW p \in Pushes, Stamp(p), row # None
  PROVE  /\ row' \in Rows /\ row' # None /\ row'.link
         /\ row'.status = row.status /\ row'.content = row.content
         /\ job'[p] = FollowUp(p, row') /\ \A q \in Pushes : q # p => job'[q] = job[q]
<1> DEFINE linked == [row EXCEPT !.link = TRUE, !.pushed = job[p].wrote, !.fresh = FALSE]
<1>1. row' = linked /\ job' = [job EXCEPT ![p] = FollowUp(p, linked)]
  BY DEF Stamp
<1>2. row \in Rows /\ job \in [Pushes -> Jobs] /\ job[p].wrote \in Versions
  BY RowTypes, JobTypes, Parts DEF JobsFine, Jobs
<1>3. linked \in Rows /\ linked.link /\ linked.status = row.status /\ linked.content = row.content
  BY <1>2, SetLink
<1>4. job' = [job EXCEPT ![p] = FollowUp(p, row')]
  BY <1>1
<1> HIDE DEF linked
<1>5. QED  BY <1>1, <1>2, <1>3, <1>4, NoneAssumption

LEMMA StampMoves ==
  ASSUME Inv, NEW p \in Pushes, Stamp(p)
  PROVE  Advances(p) /\ \A q \in Pushes : q # p => job'[q] = job[q]
<1>1. CASE row = None
  BY <1>1, Ended DEF Stamp, Advances
<1>2. CASE row # None
  <2>1. PICK r : r = row'
    OBVIOUS
  <2>2. r \in Rows /\ r # None /\ r.link /\ job'[p] = FollowUp(p, r)
    BY <1>2, <2>1, StampEffect
  <2>3. job'[p] = Idle \/ (job'[p].of = job[p].of /\ GoesOn(p, r))
    BY <2>2, FollowedUp
  <2>4. job'[p] = Idle \/ (job'[p].of = job[p].of /\ Stamp(p) /\ row' # None /\ row'.link /\ GoesOn(p, row'))
    BY <2>1, <2>2, <2>3 DEF GoesOn
  <2>5. Advances(p)
    BY <2>4 DEF Advances
  <2>6. QED  BY <1>2, <2>5, StampEffect
<1>3. QED  BY <1>1, <1>2

LEMMA AnswerMoves ==
  ASSUME Inv, NEW p \in Pushes, Answer(p)
  PROVE  Advances(p) /\ \A q \in Pushes : q # p => job'[q] = job[q]
<1>1. job \in [Pushes -> Jobs] /\ job[p] \in Jobs
  BY JobTypes, Parts DEF JobsFine
<1>2. \A q \in Pushes : q # p => job'[q] = job[q]
  BY <1>1 DEF Answer
<1>3. CASE Afterwards(p) = "idle"
  BY <1>1, <1>2, <1>3 DEF Answer, Advances
<1>4. CASE Afterwards(p) # "idle"
  <2>1. job'[p] = [job[p] EXCEPT !.step = Afterwards(p), !.wrote = Reached(p).version]
    BY <1>1, <1>4 DEF Answer
  <2>2. job'[p].of = job[p].of /\ job'[p].state = job[p].state /\ job'[p].step = Afterwards(p)
    BY <1>1, <2>1 DEF Jobs
  <2>3. QED  BY <1>2, <1>4, <2>2 DEF Advances
<1>5. QED  BY <1>3, <1>4

\* Each push moves on by one of its own steps, or is ended.
LEMMA JobSteps ==
  ASSUME Inv, [Next]_vars, NEW p \in Pushes
  PROVE  Advances(p)
<1>1. CASE UNCHANGED job
  BY <1>1 DEF Advances
<1>2. CASE ~UNCHANGED job
  <2>1. CASE Crash
    BY <2>1 DEF Crash, Advances
  <2>2. ASSUME NEW q \in Pushes, Work(q) PROVE Advances(p)
    <3>1. CASE Check(q) \/ Stamp(q) \/ Answer(q)
      BY <3>1, CheckMoves, StampMoves, AnswerMoves DEF Advances
    <3>2. CASE Unlink(q) \/ Mark(q) \/ Fail(q)
      BY <3>2, Ended DEF Unlink, Mark, Fail, Advances
    <3>3. CASE Apply(q) \/ Backfill(q) \/ Repush(q) \/ RepairDone(q) \/ \E f \in failed : Retry(q, f)
      <4>1. PICK s \in States, w \in BOOLEAN : Asks(q, s) /\ Push(q, s, w)
        BY <1>2, <3>3, Asking
      <4>2. CASE p # q
        BY <4>1, <4>2, Pushed DEF Advances
      <4>3. CASE p = q
        BY <4>1, <4>3, Pushed DEF Advances
      <4>4. QED  BY <4>2, <4>3
    <3>4. QED  BY <2>2, <3>1, <3>2, <3>3 DEF Work
  <2>3. QED
    BY <1>2, <2>1, <2>2 DEF Next, vars, Gesture, Create, Change, Delete, Type, Server, Hydrate,
         ImportRead, ImportWrite, Dismiss
<1>3. QED  BY <1>1, <1>2

\* An operation that is applied, and what it makes of the row.
Wins(p) ==
  /\ op # None /\ op.read /\ op' = None /\ (row # None \/ op.create) /\ (op.state.removes \/ ~op.late)
  /\ Apply(p) /\ Awkward(op.state) /\ Push(p, op.state, FALSE)
  /\ op.state.removes => row' = None
  /\ ~op.state.removes =>
       /\ row' # None /\ row'.status = op.state.status /\ row'.content = op.state.content
       /\ row'.link = (op.state.link /\ op.state.status # "off")

LEMMA Applying ==
  ASSUME Inv, NEW p \in Pushes, Apply(p)
  PROVE  \/ Wins(p)
         \/ UNCHANGED <<row, job>> /\ ((row = None /\ ~op.create) \/ (op.late /\ ~op.state.removes))
<1>1. CASE (row = None /\ ~op.create) \/ (op.late /\ ~op.state.removes)
  BY <1>1 DEF Apply
<1>2. CASE ~((row = None /\ ~op.create) \/ (op.late /\ ~op.state.removes))
  <2> DEFINE off == op.state.status = "off"
             r == [status |-> op.state.status, content |-> op.state.content,
                   link |-> op.state.link /\ ~off,
                   pushed |-> IF off THEN 0 ELSE op.pushed,
                   synced |-> IF off THEN 0 ELSE op.synced, fresh |-> TRUE]
  <2>1. /\ op # None /\ op.read /\ Awkward(op.state) /\ Push(p, op.state, FALSE) /\ op' = None
        /\ row' = IF op.state.removes THEN None ELSE r
    BY <1>2 DEF Apply
  <2>2. op \in Ops /\ op.state \in States
    BY <2>1, OpTypes
  <2>3. r \in Rows
    BY <2>2 DEF Ops, States, Rows, Versions
  <2>4. r.status = op.state.status /\ r.content = op.state.content /\ r.link = (op.state.link /\ ~off)
    OBVIOUS
  <2>5. r # None
    BY <2>3, NoneAssumption
  <2>6. op.state.removes => row' = None
    BY <2>1
  <2>7. ~op.state.removes => row' = r
    BY <2>1
  <2> HIDE DEF r
  <2>8. ~op.state.removes =>
          /\ row' # None /\ row'.status = op.state.status /\ row'.content = op.state.content
          /\ row'.link = (op.state.link /\ op.state.status # "off")
    BY <2>4, <2>5, <2>7
  <2>9. QED  BY <1>2, <2>1, <2>6, <2>8 DEF Wins
<1>3. QED  BY <1>1, <1>2

Touches ==
  /\ row # None /\ row' # None /\ row'.status = row.status /\ row'.content = row.content
  /\ \/ row'.link = row.link
     \/ row'.link /\ \E p \in Pushes : Stamp(p) \/ RepairDone(p)
     \/ ~row'.link /\ \E p \in Pushes : Unlink(p)

LEMMA RowMoves ==
  ASSUME Inv, [Next]_vars
  PROVE  UNCHANGED row \/ Touches \/ ImportWrite \/ \E p \in Pushes : Wins(p)
<1>0. row # None => row \in Rows
  BY RowTypes
<1>1. CASE row = None
  <2>1. UNCHANGED row \/ ImportWrite \/ \E p \in Pushes : Apply(p)
    BY <1>1 DEF Next, vars, Gesture, Create, Change, Delete, Type, Server, Hydrate, ImportRead, Crash, Dismiss,
       Work, Check, Answer, Fail, Backfill, Repush, Retry, Stamp, Unlink, Mark, RepairDone, OrphanedDone
  <2>2. QED  BY <2>1, Applying
<1>2. CASE row # None /\ row' = None
  <2>1. ImportWrite \/ \E p \in Pushes : Apply(p)
    <3>1. ASSUME NEW p \in Pushes, Stamp(p) PROVE FALSE
      BY <1>2, <3>1, StampEffect
    <3>2. ASSUME NEW p \in Pushes, Unlink(p) \/ Mark(p) \/ RepairDone(p) PROVE FALSE
      <4>1. /\ [row EXCEPT !.link = FALSE, !.fresh = TRUE] \in Rows
            /\ [row EXCEPT !.link = TRUE, !.fresh = TRUE] \in Rows
            /\ [row EXCEPT !.pushed = job[p].wrote, !.fresh = FALSE] \in Rows
        <5>1. job[p].wrote \in Versions
          BY JobTypes DEF Jobs
        <5>2. QED  BY <1>0, <1>2, <5>1 DEF Rows
      <4>2. QED  BY <1>2, <3>2, <4>1, NoneAssumption DEF Unlink, Mark, RepairDone
    <3>3. QED
      BY <1>2, <3>1, <3>2 DEF Next, vars, Gesture, Create, Change, Delete, Type, Server, Hydrate, ImportRead, Crash,
         Dismiss, Work, Check, Answer, Fail, Backfill, Repush, Retry
  <2>2. QED  BY <1>2, <2>1, Applying
<1>3. CASE row # None /\ row' # None /\ row' # row
  <2>1. \/ \E p \in Pushes : Apply(p) \/ Stamp(p) \/ Unlink(p) \/ Mark(p) \/ RepairDone(p)
        \/ ImportWrite
    BY <1>3, RowSteps
  <2>2. ASSUME NEW p \in Pushes, Stamp(p) PROVE Touches
    BY <1>3, <2>2, StampEffect DEF Touches
  <2>3. ASSUME NEW p \in Pushes, Unlink(p) PROVE Touches
    <3>1. row' = [row EXCEPT !.link = FALSE, !.fresh = TRUE]
      BY <1>3, <2>3 DEF Unlink
    <3>2. row'.status = row.status /\ row'.content = row.content /\ ~row'.link
      BY <1>0, <1>3, <3>1 DEF Rows
    <3>3. QED  BY <1>3, <2>3, <3>2 DEF Touches
  <2>4. ASSUME NEW p \in Pushes, Mark(p) PROVE Touches
    <3>1. row' = [row EXCEPT !.pushed = job[p].wrote, !.fresh = FALSE]
      BY <1>3, <2>4 DEF Mark
    <3>2. row'.status = row.status /\ row'.content = row.content /\ row'.link = row.link
      BY <1>0, <1>3, <3>1 DEF Rows
    <3>3. QED  BY <1>3, <3>2 DEF Touches
  <2>5. ASSUME NEW p \in Pushes, RepairDone(p) PROVE Touches
    <3>1. row' = [row EXCEPT !.link = TRUE, !.fresh = TRUE]
      BY <1>3, <2>5 DEF RepairDone
    <3>2. row'.status = row.status /\ row'.content = row.content /\ row'.link
      BY <1>0, <1>3, <3>1 DEF Rows
    <3>3. QED  BY <1>3, <2>5, <3>2 DEF Touches
  <2>6. QED  BY <1>3, <2>1, <2>2, <2>3, <2>4, <2>5, Applying
<1>4. QED  BY <1>1, <1>2, <1>3

\* A gesture brings the latest content or the row's, and the row's link at most.
LEMMA Gesturing ==
  ASSUME Inv, Gesture
  PROVE  /\ op = None /\ op' # None /\ ~op'.read /\ ~op'.late
         /\ UNCHANGED <<row, event, job, failed, import, listed, anchor, twin>>
         /\ op'.state.content \in Nat
         /\ op'.state.content = Latest' \/ (row # None /\ op'.state.content = row.content)
         /\ Latest' = Latest + 1 /\ Latest \in Nat
         /\ op'.state.link => Linked
         /\ op'.create => row = None /\ count["gestures"] = 0
         /\ count'["gestures"] # 0
         /\ op'.state.removes \/ row = None \/
              (Follows(row.status, op'.state.status)
               /\ (row.status = "off" /\ event.status # "none" => "sameId" \in Races))
<1> DEFINE made(c, k, r, s, t) ==
             [state |-> [removes |-> r, status |-> s, content |-> t, link |-> k],
              create |-> c, knows |-> k, read |-> FALSE, late |-> FALSE,
              pushed |-> IF k THEN anchor ELSE 0, synced |-> IF k THEN row.synced ELSE 0]
<1>1. op = None /\ Counted("gestures", MaxGestures)
      /\ UNCHANGED <<row, event, job, failed, import, listed, anchor, twin>>
  BY DEF Gesture, Create, Change, Delete
<1>2. Latest' = Latest + 1 /\ Latest \in Nat /\ count'["gestures"] # 0
  <2>1. count \in [{"gestures", "typed", "faults"} -> Nat]
    BY Parts DEF RestFine
  <2>2. /\ count' = [count EXCEPT !["gestures"] = @ + 1]
    BY <1>1 DEF Counted
  <2>3. QED  BY <2>1, <2>2 DEF Latest
<1>3. op' \in Ops
  <2>1. RestFine
    BY Parts
  <2>2. CASE Create
    BY <2>1, <2>2, MadeType, NewContent, <1>1 DEF Create, Statuses
  <2>3. CASE Delete
    <3>1. row \in Rows /\ row.status \in Statuses /\ row.content \in Contents
      BY <2>3, RowTypes DEF Delete, Contents
    <3>2. Made(FALSE, FALSE, TRUE, row.status, row.content)
      BY <2>3 DEF Delete
    <3>3. QED  BY <2>1, <3>1, <3>2, MadeType, <1>1
  <2>4. ASSUME NEW s \in Statuses, NEW c \in {NextContent} \cup (IF row = None THEN {} ELSE {row.content}),
               NEW k \in BOOLEAN, Change(s, c, k)
        PROVE  op' \in Ops
    <3>1. row # None /\ row.content \in Contents
      BY <2>4, RowTypes DEF Change, Contents
    <3>2. c \in Contents
      BY <2>1, <3>1, NewContent
    <3>3. QED  BY <2>1, <2>4, <3>1, <3>2, MadeType, <1>1 DEF Change
  <2>5. QED  BY <2>2, <2>3, <2>4 DEF Gesture
<1>4. NextContent = Latest'
  BY <1>2 DEF NextContent, Latest
<1>5. op' # None /\ op'.state.content \in Nat
  BY <1>3, NoneAssumption DEF Ops, States, Contents
<1>6. CASE Create
  <2>1. op' = made(TRUE, FALSE, FALSE, "calendar", NextContent) /\ row = None /\ count["gestures"] = 0
    BY <1>6 DEF Create, Made
  <2>2. QED  BY <1>1, <1>2, <1>4, <1>5, <2>1
<1>7. CASE Delete
  <2>1. op' = made(FALSE, FALSE, TRUE, row.status, row.content) /\ row # None
    BY <1>7 DEF Delete, Made
  <2>2. QED  BY <1>1, <1>2, <1>4, <1>5, <2>1
<1>8. ASSUME NEW s \in Statuses, NEW c \in {NextContent} \cup (IF row = None THEN {} ELSE {row.content}),
             NEW k \in BOOLEAN, Change(s, c, k)
      PROVE  /\ ~op'.read /\ ~op'.late /\ ~op'.create
             /\ op'.state.content = Latest' \/ (row # None /\ op'.state.content = row.content)
             /\ op'.state.link => Linked
             /\ Follows(row.status, op'.state.status)
             /\ row.status = "off" /\ event.status # "none" => "sameId" \in Races
  <2>1. op' = made(FALSE, k, FALSE, s, c) /\ row # None
    BY <1>8 DEF Change, Made
  <2>2. ~op'.read /\ ~op'.late /\ ~op'.create /\ op'.state.content = c /\ op'.state.link = k /\ op'.state.status = s
    BY <2>1
  <2>3. k => Linked
    BY <1>8, <2>1 DEF Change, Linked
  <2>4. QED  BY <1>4, <1>8, <2>1, <2>2, <2>3 DEF Change
<1>9. QED  BY <1>1, <1>2, <1>5, <1>6, <1>7, <1>8 DEF Gesture

\* Reading the row changes no more than what the operation knows of the link.
LEMMA Reading ==
  ASSUME Inv, Hydrate
  PROVE  /\ op # None /\ op' # None /\ op'.late = op.late /\ op'.create = op.create
         /\ UNCHANGED <<row, event, job, failed, import, listed, anchor, twin, count>>
         /\ op'.state.removes = op.state.removes /\ op'.state.status = op.state.status
         /\ op'.state.content = op.state.content
         /\ op'.state.link => op.state.link \/ Linked
         /\ row # None /\ (op.state.removes \/ (op.state.status = "off" /\ row.status = "calendar"))
              => op'.state.link = row.link
<1>1. op # None /\ op \in Ops /\ op.state \in States
  BY OpTypes DEF Hydrate
<1>2. \A l \in BOOLEAN : LET s == [op.state EXCEPT !.link = l]
                         IN  s.removes = op.state.removes /\ s.status = op.state.status
                             /\ s.content = op.state.content /\ s.link = l
  BY <1>1 DEF States
<1>3. CASE row = None
  <2>1. op' = [op EXCEPT !.read = TRUE]
    BY <1>3 DEF Hydrate
  <2>2. op' \in Ops /\ op'.late = op.late /\ op'.create = op.create /\ op'.state = op.state
    BY <1>1, <2>1 DEF Ops
  <2>3. QED  BY <1>1, <1>3, <2>2, NoneAssumption DEF Hydrate
<1>4. CASE row # None /\ (op.state.removes \/ op.state.status = "off")
  <2> DEFINE l == row.link /\ (op.state.removes \/ row.status = "calendar")
             s == [op.state EXCEPT !.link = l]
  <2>1. op' = [op EXCEPT !.read = TRUE, !.state = s]
    BY <1>4 DEF Hydrate
  <2>2. l \in BOOLEAN /\ row.link \in BOOLEAN
    BY <1>4, RowTypes
  <2>3. s \in States /\ s.removes = op.state.removes /\ s.status = op.state.status
        /\ s.content = op.state.content /\ s.link = l
    BY <1>1, <1>2, <2>2 DEF States
  <2>4. l => Linked
    BY <1>4 DEF Linked
  <2>5. op.state.removes \/ (op.state.status = "off" /\ row.status = "calendar") => l = row.link
    BY <2>2
  <2> HIDE DEF l, s
  <2>6. op' \in Ops /\ op'.late = op.late /\ op'.create = op.create /\ op'.state = s
    BY <1>1, <2>1, <2>3 DEF Ops
  <2>7. QED  BY <1>1, <1>4, <2>3, <2>4, <2>5, <2>6, NoneAssumption DEF Hydrate
<1>5. CASE row # None /\ ~(op.state.removes \/ op.state.status = "off")
  <2> DEFINE l == op.state.link \/ row.link
             s == [op.state EXCEPT !.link = l]
             a == IF Unfilled(op) THEN op.pushed ELSE row.pushed
             b == IF Unfilled(op) THEN op.synced ELSE row.synced
  <2>1. op' = [op EXCEPT !.read = TRUE, !.state = s, !.pushed = a, !.synced = b]
    BY <1>5 DEF Hydrate
  <2>2. l \in BOOLEAN /\ a \in Versions /\ b \in Versions
    BY <1>1, <1>5, RowTypes DEF Ops, States, Rows
  <2>3. s \in States /\ s.removes = op.state.removes /\ s.status = op.state.status
        /\ s.content = op.state.content /\ s.link = l
    BY <1>1, <1>2, <2>2 DEF States
  <2>4. l => op.state.link \/ Linked
    BY <1>5 DEF Linked
  <2> HIDE DEF l, s, a, b
  <2>5. op' \in Ops /\ op'.late = op.late /\ op'.create = op.create /\ op'.state = s
    BY <1>1, <2>1, <2>2, <2>3 DEF Ops
  <2>6. QED  BY <1>1, <1>5, <2>3, <2>4, <2>5, NoneAssumption DEF Hydrate
<1>6. QED  BY <1>3, <1>4, <1>5

LEMMA OpMoves ==
  ASSUME Inv, [Next]_vars, op' # None
  PROVE  \/ Gesture
         \/ Hydrate
         \/ /\ op # None /\ op'.state = op.state /\ op'.create = op.create
            /\ op'.read => op.read
            /\ op'.late = op.late \/ op'.late
            /\ op.late => op'.late
<1>1. \/ Gesture \/ Hydrate \/ Crash \/ UNCHANGED op
      \/ op # None /\ op' = [op EXCEPT !.late = TRUE]
  <2>1. ASSUME NEW p \in Pushes, Work(p)
        PROVE  UNCHANGED op \/ (op # None /\ op' = [op EXCEPT !.late = TRUE])
    BY <2>1 DEF Work, Apply, Check, Stamp, Unlink, Mark, Answer, Fail, Backfill, Repush, RepairDone,
       Retry, Outdates, Late
  <2>2. ImportWrite => UNCHANGED op \/ (op # None /\ op' = [op EXCEPT !.late = TRUE])
    BY DEF ImportWrite, Outdates, Late
  <2>3. CASE Type \/ UNCHANGED vars \/ (\E f \in failed : Dismiss(f)) \/ ImportRead
    BY <2>3 DEF Type, vars, Dismiss, ImportRead
  <2>4. QED  BY <2>1, <2>2, <2>3 DEF Next, Server
<1>2. op # None => op \in Ops
  BY OpTypes
<1>3. CASE Crash
  BY <1>2, <1>3 DEF Crash, Ops
<1>4. CASE op # None /\ op' = [op EXCEPT !.late = TRUE]
  BY <1>2, <1>4 DEF Ops
<1>5. QED  BY <1>1, <1>3, <1>4

\* What is new among the operations that failed was being pushed.
LEMMA FailedMoves ==
  ASSUME Inv, [Next]_vars, NEW f \in failed'
  PROVE  f \in failed \/ \E p \in Pushes : f = job[p].of /\ job[p].step \in Calls
BY DEF Next, vars, Gesture, Create, Change, Delete, Type, Server, Hydrate, ImportRead, ImportWrite, Crash,
   Dismiss, Work, Apply, Check, Answer, Fail, Backfill, Repush, Retry, Stamp, Unlink, Mark, RepairDone

Linking == \E p \in Pushes : Stamp(p) \/ RepairDone(p)

LEMMA OfSaid == ASSUME NEW p \in Pushes PROVE job[p].of \in Said /\ job[p].state \in Said
BY DEF Said
LEMMA OpSaid == op # None => op.state \in Said
BY DEF Said
LEMMA FailedSaid == failed \subseteq Said
BY DEF Said

LEMMA SaidTypes ==
  ASSUME Inv, NEW s \in Said
  PROVE  s \in States /\ s.content \in Nat /\ s.link \in BOOLEAN
<1>1. failed \subseteq States
  BY Parts DEF RestFine
<1>2. s \in States
  BY <1>1, JobTypes, OpTypes DEF Said
<1>3. QED  BY <1>2 DEF States, Contents

\* Whatever is said has been said before, or is a state of the row.
LEMMA Sayings ==
  ASSUME Inv, [Next]_vars, NEW s, s \in Said'
  PROVE  \/ s \in Said
         \/ s = NoState
         \/ row # None /\ s = StateOf(row)
         \/ Linking /\ row' # None /\ row'.link /\ s = StateOf(row')
         \/ (Gesture \/ Hydrate) /\ op' # None /\ s = op'.state
<1>0. Idle.of = NoState /\ Idle.state = NoState
  BY DEF Idle
<1>1. CASE s \in failed'
  BY <1>1, FailedMoves, OfSaid, FailedSaid
<1>2. ASSUME NEW p \in Pushes, s = job'[p].of \/ s = job'[p].state
      PROVE  \/ s \in Said \/ s = NoState \/ (row # None /\ s = StateOf(row))
             \/ Linking /\ row' # None /\ row'.link /\ s = StateOf(row')
  <2>1. Advances(p)
    BY JobSteps
  <2>2. ASSUME NEW t, Asks(p, t), s = t
        PROVE  \/ s \in Said \/ (row # None /\ s = StateOf(row))
               \/ Linking /\ row' # None /\ row'.link /\ s = StateOf(row')
    BY <2>2, OpSaid, FailedSaid DEF Asks, Linking
  <2>3. CASE job'[p] = job[p] \/ job'[p] = Idle
    BY <1>0, <1>2, <2>3, OfSaid
  <2>4. CASE \E t \in States : Asks(p, t) /\ job'[p].of = t /\ job'[p].state = t
    BY <1>2, <2>2, <2>4
  <2>5. CASE job'[p].of = job[p].of /\ job'[p].state = job[p].state
    BY <1>2, <2>5, OfSaid
  <2>6. CASE job'[p].of = job[p].of /\ Linked /\ GoesOn(p, row)
    BY <1>2, <2>6, OfSaid DEF Linked, GoesOn
  <2>7. CASE job'[p].of = job[p].of /\ Stamp(p) /\ row' # None /\ row'.link /\ GoesOn(p, row')
    BY <1>2, <2>7, OfSaid DEF GoesOn, Linking
  <2>8. QED  BY <2>1, <2>3, <2>4, <2>5, <2>6, <2>7 DEF Advances
<1>3. CASE op' # None /\ s = op'.state
  BY <1>3, OpMoves, OpSaid
<1>4. QED  BY <1>1, <1>2, <1>3 DEF Said

\* A newer updatedTs is given only while no operation is under way, or to the
\* row of one that has not been read, which then comes late.
LEMMA Outdated == ASSUME Inv, Tame, Outdates PROVE op' # None => op # None /\ ~op.read /\ ~op'.read /\ op'.late
<1>1. op # None => op \in Ops
  BY OpTypes
<1>2. QED  BY <1>1, TameIs DEF Outdates, Late, Ops

LEMMA ImportTells ==
  ASSUME Inv, ImportInv, Tame, ImportWrite
  PROVE  /\ row = None => row' = None
         /\ row # None => row' # None /\ (row.link => row'.link) /\ (row'.status = "off" => row.status = "off")
         /\ op' # None /\ ~op'.late /\ row # None =>
              row'.status = row.status /\ row'.content = row.content /\ row'.link = row.link
         /\ op' # None => op # None /\ ~op.read /\ ~op'.read
         /\ UNCHANGED <<event, job, failed, count>> /\ import # None /\ import' = None
<1> DEFINE new == Upserted(import.row, row, import.event)
           told == new # None /\ (row # None => [new EXCEPT !.synced = row.synced, !.fresh = row.fresh] # row)
<1>1. ImportInv /\ import # None
  BY DEF ImportWrite
<1>2. /\ row = None => row' = None
      /\ row # None => row' # None /\ (row.link => row'.link) /\ (row'.status = "off" => row.status = "off")
  BY ImportLeaves
<1>3. op' # None => op # None /\ ~op.read /\ ~op'.read
  <2>1. op # None => op \in Ops
    BY OpTypes
  <2>2. QED  BY <1>1, <2>1 DEF ImportInv, ImportWrite, Outdates, Late, Ops
<1>4. CASE told
  <2>1. Late
    BY <1>4 DEF ImportWrite, Outdates
  <2>2. op' # None => Late /\ op # None /\ ~op.read
    BY <1>3, <2>1
  <2>3. op' # None => op'.late
    BY <2>2, OpTypes DEF Late, Ops
  <2>4. QED  BY <1>1, <1>2, <1>3, <2>3 DEF ImportWrite
<1>5. CASE ~told
  <2>1. row # None => new # None /\ new \in Rows /\ row' = new
    <3>1. RestFine
      BY Parts
    <3>2. row' = new
      BY DEF ImportWrite
    <3>3. QED  BY <1>1, <1>2, <3>1, <3>2, Upserting
  <2>2. row # None => new # None /\ [new EXCEPT !.synced = row.synced, !.fresh = row.fresh] = row
    BY <1>5, <2>1
  <2> HIDE DEF new
  <2>3. row # None => /\ row.status = new.status /\ row.content = new.content /\ row.link = new.link
    BY <2>1, <2>2 DEF Rows
  <2>4. QED  BY <1>1, <1>2, <1>3, <2>1, <2>3 DEF ImportWrite
<1>6. QED  BY <1>4, <1>5

\* What becomes of the event.
LEMMA EventSteps ==
  ASSUME Inv, [Next]_vars
  PROVE  \/ UNCHANGED event
         \/ Type
         \/ \E p \in Pushes : (Answer(p) \/ Fail(p)) /\ job[p].step \in Calls /\ event' = Reached(p)
BY DEF Next, vars, Gesture, Create, Change, Delete, Server, Hydrate, ImportRead, ImportWrite, Crash,
   Dismiss, Work, Apply, Check, Answer, Fail, Backfill, Repush, Retry, Stamp, Unlink, Mark, RepairDone

LEMMA ReachedIs ==
  ASSUME Inv, NEW p \in Pushes, job[p].step \in Calls
  PROVE  /\ At(p, "insert") /\ event.status = "none" =>
              Reached(p).status = "live" /\ Reached(p).content = job[p].of.content
         /\ At(p, "insert") /\ event.status # "none" => Reached(p) = event
         /\ ~At(p, "insert") /\ event.status # "live" => Reached(p) = event
         /\ ~At(p, "insert") /\ event.status = "live" =>
              \/ Reached(p).status = "gone" /\ Reached(p).content = event.content
              \/ /\ At(p, "write") /\ Reached(p).status = "live"
                 /\ Reached(p).content = job[p].state.content
         /\ At(p, "remove") \/ At(p, "takeBack") => Reached(p).status # "live"
<1>1. event \in Events
  BY Parts DEF RestFine
<1>2. Gone.status = "gone" /\ Gone.content = event.content
  BY <1>1 DEF Gone, Events
<1>3. \A c, m : Live(c, m).status = "live" /\ Live(c, m).content = c
  BY DEF Live
<1> DEFINE g == Gone
<1> HIDE DEF g
<1>4. g.status = "gone" /\ g.content = event.content
  BY <1>2 DEF g
<1>5. CASE At(p, "insert")
  <2>1. Reached(p) = IF event.status = "none" THEN Live(job[p].of.content, FALSE) ELSE event
    BY <1>5 DEF Reached
  <2>2. ~At(p, "remove") /\ ~At(p, "takeBack") /\ ~At(p, "write")
    BY <1>5 DEF At
  <2>3. event.status = "none" => Reached(p).status = "live" /\ Reached(p).content = job[p].of.content
    BY <2>1 DEF Live
  <2>4. QED  BY <1>5, <2>1, <2>2, <2>3
<1>6. CASE ~At(p, "insert") /\ event.status # "live"
  <2>1. Reached(p) = event
    BY <1>6 DEF Reached
  <2>2. QED  BY <1>6, <2>1
<1>7. CASE ~At(p, "insert") /\ event.status = "live" /\ At(p, "write") /\ job[p].state.status # "trash"
  <2>1. Reached(p) = Live(job[p].state.content, job[p].state.status = "done")
    BY <1>7 DEF Reached
  <2>2. QED  BY <1>3, <1>7, <2>1 DEF At
<1>8. CASE ~At(p, "insert") /\ event.status = "live" /\ ~(At(p, "write") /\ job[p].state.status # "trash")
  <2>1. Reached(p) = g
    BY <1>8 DEF Reached, g
  <2>2. QED  BY <1>4, <1>8, <2>1
<1>9. QED  BY <1>5, <1>6, <1>7, <1>8

LEMMA Typing ==
  ASSUME Inv, Tame, Type
  PROVE  /\ event.status = "live" /\ Linked /\ event'.status \in {"live", "gone"}
         /\ event'.content = event.content \/ event'.content = Latest'
         /\ Latest' = Latest + 1 /\ Latest \in Nat
         /\ UNCHANGED <<row, op, job, failed, import, listed, anchor, twin>>
         /\ count'["gestures"] = count["gestures"]
<1>1. event \in Events /\ count \in [{"gestures", "typed", "faults"} -> Nat]
  BY Parts DEF RestFine
<1>2. Latest' = Latest + 1 /\ Latest \in Nat /\ count'["gestures"] = count["gestures"]
  BY <1>1 DEF Type, Counted, Latest
<1>3. NextContent = Latest'
  BY <1>2 DEF NextContent, Latest
<1>4. Linked
  BY TameIs DEF Type
<1>5. /\ event.status = "live"
      /\ \/ event' = [event EXCEPT !.content = NextContent, !.version = @ + 1, !.typed = TRUE]
         \/ event' = [Gone EXCEPT !.typed = TRUE]
  BY DEF Type
<1>6. CASE event' = [event EXCEPT !.content = NextContent, !.version = @ + 1, !.typed = TRUE]
  BY <1>1, <1>2, <1>3, <1>4, <1>5, <1>6 DEF Events, Type
<1>7. CASE event' = [Gone EXCEPT !.typed = TRUE]
  <2>1. Gone = [event EXCEPT !.status = "gone", !.version = @ + 1, !.typed = FALSE]
    BY DEF Gone
  <2>2. event'.status = "gone" /\ event'.content = event.content
    BY <1>1, <1>7, <2>1 DEF Events
  <2>3. QED  BY <1>2, <1>4, <1>5, <2>2 DEF Type
<1>8. QED  BY <1>5, <1>6, <1>7

-----------------------------------------------------------------------------
(* The parts of EventInv, one by one *)

LEMMA LatestGrows ==
  ASSUME Inv, [Next]_vars
  PROVE  Latest \in Nat /\ Latest' \in Nat /\ Latest <= Latest'
<1>1. count \in [{"gestures", "typed", "faults"} -> Nat]
  BY Parts DEF RestFine
<1>2. UNCHANGED count \/ \E k \in {"gestures", "typed", "faults"} : count' = [count EXCEPT ![k] = @ + 1]
  BY DEF Next, vars, Gesture, Create, Change, Delete, Type, Server, Hydrate, ImportRead, ImportWrite, Crash,
     Dismiss, Work, Apply, Check, Answer, Fail, Backfill, Repush, Retry, Stamp, Unlink, Mark, RepairDone, Counted
<1>3. CASE UNCHANGED count
  BY <1>1, <1>3 DEF Latest
<1>4. ASSUME NEW k \in {"gestures", "typed", "faults"}, count' = [count EXCEPT ![k] = @ + 1]
      PROVE  Latest \in Nat /\ Latest' \in Nat /\ Latest <= Latest'
  BY <1>1, <1>4 DEF Latest
<1>5. QED  BY <1>2, <1>3, <1>4

\* An imported row says what it said, or what the event says.
LEMMA ImportContent ==
  ASSUME Inv, ImportInv, ImportWrite, row # None
  PROVE  row'.content = row.content \/ row'.content = import.event.content
<1> DEFINE e == import.event
<1>1. row' = Upserted(row, row, e) /\ row \in Rows /\ import # None
  BY RowTypes DEF ImportWrite, ImportInv
<1>2. e \in Events
  BY <1>1, Parts DEF RestFine
<1> HIDE DEF e
<1>3. Trashed(row, row).content = row.content
  BY <1>1 DEF Trashed, Rows
<1>4. Revived(row, e).content = e.content
  <2> DEFINE status == IF e.marked /\ row.content = e.content THEN "done" ELSE "calendar"
  <2>1. Revived(row, e) = [row EXCEPT !.status = status, !.content = e.content,
                                      !.synced = e.version, !.fresh = TRUE]
    BY DEF Revived
  <2> HIDE DEF status
  <2>2. QED  BY <1>1, <2>1 DEF Rows
<1>5. ASSUME NEW r \in Rows PROVE Merged(r, r, e).content \in {r.content, e.content}
  <2>1. /\ [r EXCEPT !.content = e.content, !.synced = e.version, !.fresh = TRUE].content = e.content
        /\ \A f \in BOOLEAN : [r EXCEPT !.synced = e.version, !.fresh = f].content = r.content
    BY <1>5 DEF Rows
  <2>2. (r.fresh /\ ~Agrees(r, e)) \in BOOLEAN
    BY <1>5 DEF Rows
  <2>3. QED  BY <1>5, <2>1, <2>2, NoneAssumption DEF Merged
<1>6. [row EXCEPT !.link = TRUE, !.fresh = TRUE] \in Rows
      /\ [row EXCEPT !.link = TRUE, !.fresh = TRUE].content = row.content
  BY <1>1 DEF Rows
<1>7. QED  BY <1>1, <1>3, <1>4, <1>5, <1>6 DEF Upserted, e

\* A row is never ahead of what has been said, nor the event.
LEMMA ContentBound ==
  ASSUME Inv, LinkInv, ContentInv, Tame, [Next]_vars
  PROVE  /\ \A s \in Said' : s.content <= Latest'
         /\ row' # None => row'.content <= Latest'
         /\ event'.content <= Latest'
         /\ import' # None => import'.event.content <= Latest'
<1>0. Latest \in Nat /\ Latest' \in Nat /\ Latest <= Latest'
  BY LatestGrows
<1>1. event \in Events /\ event.content \in Nat /\ event.content <= Latest'
  <2>1. event \in Events
    BY Parts DEF RestFine
  <2>2. event.content \in Nat
    BY <2>1 DEF Events, Contents
  <2>3. QED  BY <1>0, <2>1, <2>2 DEF ContentInv
<1>2. row # None => row.content \in Nat /\ row.content <= Latest'
  BY <1>0, RowTypes DEF ContentInv
<1>3. \A s \in Said : s.content <= Latest'
  BY <1>0, SaidTypes DEF ContentInv
<1>4. import # None => import.event.content \in Nat /\ import.event.content <= Latest'
  <2>1. import # None => import.event \in Events
    BY Parts DEF RestFine
  <2>2. import # None => import.event.content \in Nat
    BY <2>1 DEF Events, Contents
  <2>3. QED  BY <1>0, <2>2 DEF ContentInv
<1>5. row' # None => row'.content <= Latest'
  <2>1. CASE UNCHANGED row \/ Touches
    BY <1>2, <2>1 DEF Touches
  <2>2. CASE ImportWrite
    <3>1. row' # None => row # None
      BY <2>2, ImportTells DEF LinkInv
    <3>2. row # None => row'.content = row.content \/ row'.content = import.event.content
      BY <2>2, ImportContent DEF LinkInv
    <3>3. import # None
      BY <2>2 DEF ImportWrite
    <3>4. QED  BY <1>2, <1>4, <3>1, <3>2, <3>3
  <2>3. ASSUME NEW p \in Pushes, Wins(p), row' # None PROVE row'.content <= Latest'
    BY <1>3, <2>3, OpSaid DEF Wins
  <2>4. QED  BY <2>1, <2>2, <2>3, RowMoves
<1>6. event'.content <= Latest'
  <2>1. CASE UNCHANGED event
    BY <1>1, <2>1
  <2>2. CASE Type
    BY <1>0, <1>1, <2>2, Typing
  <2>3. ASSUME NEW p \in Pushes, job[p].step \in Calls, event' = Reached(p)
        PROVE  event'.content <= Latest'
    <3>1. Reached(p).content \in {event.content, job[p].of.content, job[p].state.content}
      <4>1. event.status \in {"none", "live", "gone"}
        BY <1>1 DEF Events
      <4>2. QED  BY <2>3, <4>1, ReachedIs
    <3>2. QED  BY <1>1, <1>3, <2>3, <3>1, OfSaid
  <2>4. QED  BY <2>1, <2>2, <2>3, EventSteps
<1>7. ASSUME NEW s \in Said' PROVE s.content <= Latest'
  <2>1. CASE s \in Said
    BY <1>3, <2>1
  <2>2. CASE s = NoState
    BY <1>0, <2>2 DEF NoState
  <2>3. CASE row # None /\ s = StateOf(row)
    BY <1>2, <2>3, StateFields
  <2>4. CASE row' # None /\ s = StateOf(row')
    <3>1. s.content = row'.content
      BY <2>4 DEF StateOf
    <3>2. QED  BY <1>5, <2>4, <3>1
  <2>5. CASE Gesture /\ s = op'.state
    BY <1>0, <1>2, <2>5, Gesturing
  <2>6. CASE Hydrate /\ s = op'.state
    BY <1>3, <2>6, Reading, OpSaid
  <2>7. QED  BY <1>7, <2>1, <2>2, <2>3, <2>4, <2>5, <2>6, Sayings
<1>8. import' # None => import'.event.content <= Latest'
  <2>1. \/ UNCHANGED import \/ import' = None
        \/ import' = [event |-> event, row |-> row]
    BY DEF Next, vars, Gesture, Create, Change, Delete, Type, Server, Hydrate, ImportRead, ImportWrite, Crash,
       Dismiss, Work, Apply, Check, Answer, Fail, Backfill, Repush, Retry, Stamp, Unlink, Mark, RepairDone
  <2>2. QED  BY <1>1, <1>4, <2>1
<1>9. QED  BY <1>5, <1>6, <1>7, <1>8

\* A change that does not say what the row says says what nobody has said.
LEMMA ContentFresh ==
  ASSUME Inv, LinkInv, ContentInv, Tame, [Next]_vars,
         op' # None, row' # None, ~op'.late, ~op'.state.removes, op'.state.content # row'.content
  PROVE  /\ \A p \in Pushes : ~Free(p)' => job'[p].of.content # op'.state.content
         /\ \A f \in failed' : f.content # op'.state.content
<1>0. Latest \in Nat
  BY LatestGrows
<1>1. CASE Gesture
  <2>1. op'.state.content = Latest + 1 /\ job' = job /\ failed' = failed /\ row' = row
    BY <1>1, Gesturing
  <2>2. \A s \in Said : s.content \in Nat /\ s.content <= Latest
    BY SaidTypes DEF ContentInv
  <2>3. \A s \in Said : s.content # Latest + 1
    BY <1>0, <2>2
  <2>4. QED  BY <2>1, <2>3, OfSaid, FailedSaid
<1>2. CASE ~Gesture
  <2>1. op # None /\ ~op.late /\ ~op.state.removes /\ op'.state.content = op.state.content
    <3>1. CASE Hydrate
      BY <3>1, Reading
    <3>2. CASE ~Hydrate
      BY <1>2, <3>2, OpMoves
    <3>3. QED  BY <3>1, <3>2
  <2>2. row # None /\ row.content = row'.content
    <3>1. CASE UNCHANGED row \/ Touches
      BY <3>1 DEF Touches
    <3>2. CASE ImportWrite
      BY <3>2, ImportTells DEF LinkInv
    <3>3. QED  BY <3>1, <3>2, RowMoves DEF Wins
  <2>3. /\ \A p \in Pushes : ~Free(p) => job[p].of.content # op.state.content
        /\ \A f \in failed : f.content # op.state.content
    BY <2>1, <2>2 DEF ContentInv
  <2>4. ASSUME NEW p \in Pushes, job'[p].step # "idle" PROVE job'[p].of.content # op'.state.content
    <3>1. Advances(p) /\ Idle.step = "idle"
      BY JobSteps, IdleJob
    <3>2. ASSUME NEW s, Asks(p, s) PROVE s.content # op'.state.content
      <4>1. ~Apply(p)
        BY DEF Apply
      <4>2. CASE s = StateOf(row) \/ s = StateOf(row')
        BY <2>2, <4>2 DEF StateOf
      <4>3. QED  BY <2>1, <2>3, <3>2, <4>1, <4>2 DEF Asks
    <3>3. CASE \E s \in States : Asks(p, s) /\ job'[p].of = s
      BY <3>2, <3>3
    <3>4. CASE job'[p].of = job[p].of /\ ~Free(p)
      BY <2>1, <2>3, <3>4
    <3>5. QED
      BY <2>4, <3>1, <3>3, <3>4 DEF Advances, Check, Stamp, Answer, At, Free, Calls
  <2>5. ASSUME NEW f \in failed' PROVE f.content # op'.state.content
    BY <2>1, <2>3, FailedMoves DEF Calls, Free
  <2>6. QED  BY <2>4, <2>5 DEF Free
<1>3. QED  BY <1>1, <1>2

LEMMA EventStays ==
  ASSUME Inv, Tame, [Next]_vars
  PROVE  /\ event.status # "none" => event'.status # "none"
         /\ event.status = "gone" => UNCHANGED event
         /\ event'.status # event.status => Type \/ \E p \in Pushes : Answer(p) \/ Fail(p)
<1>1. event.status \in {"none", "live", "gone"}
  <2>1. event \in Events
    BY Parts DEF RestFine
  <2>2. QED  BY <2>1 DEF Events
<1>2. CASE Type
  BY <1>2, Typing
<1>3. ASSUME NEW p \in Pushes, Answer(p) \/ Fail(p), job[p].step \in Calls, event' = Reached(p)
      PROVE  /\ event.status # "none" => event'.status # "none"
             /\ event.status = "gone" => UNCHANGED event
  BY <1>1, <1>3, ReachedIs
<1>4. QED  BY <1>2, <1>3, EventSteps

LEMMA ImportSteps ==
  ASSUME [Next]_vars
  PROVE  \/ UNCHANGED import \/ import' = None
         \/ ImportRead /\ import' = [event |-> event, row |-> row]
BY DEF Next, vars, Gesture, Create, Change, Delete, Type, Server, Hydrate, ImportRead, ImportWrite, Crash,
   Dismiss, Work, Apply, Check, Answer, Fail, Backfill, Repush, Retry, Stamp, Unlink, Mark, RepairDone

LEMMA GestureCount ==
  ASSUME Inv, [Next]_vars, count'["gestures"] = 0
  PROVE  count["gestures"] = 0
<1>1. count \in [{"gestures", "typed", "faults"} -> Nat]
  BY Parts DEF RestFine
<1>2. UNCHANGED count \/ \E k \in {"gestures", "typed", "faults"} : count' = [count EXCEPT ![k] = @ + 1]
  BY DEF Next, vars, Gesture, Create, Change, Delete, Type, Server, Hydrate, ImportRead, ImportWrite, Crash,
     Dismiss, Work, Apply, Check, Answer, Fail, Backfill, Repush, Retry, Stamp, Unlink, Mark, RepairDone, Counted
<1>3. ASSUME NEW k \in {"gestures", "typed", "faults"}, count' = [count EXCEPT ![k] = @ + 1]
      PROVE  count["gestures"] = 0
  BY <1>1, <1>3
<1>4. QED  BY <1>2, <1>3

\* An event that there is none of is linked to nothing.
LEMMA NoneLinked ==
  ASSUME Inv, NeverLinked, ~Linked, ~Linking, [Next]_vars
  PROVE  NeverLinked'
<1> SUFFICES ASSUME NEW s \in Said' PROVE ~s.link
  BY DEF NeverLinked
<1>1. CASE s \in Said
  BY <1>1 DEF NeverLinked
<1>2. CASE s = NoState
  BY <1>2 DEF NoState
<1>3. CASE row # None /\ s = StateOf(row)
  BY <1>3 DEF StateOf, Linked
<1>4. CASE Gesture /\ s = op'.state
  BY <1>4, Gesturing
<1>5. CASE Hydrate /\ s = op'.state
  BY <1>5, Reading, OpSaid DEF NeverLinked
<1>6. QED  BY <1>1, <1>2, <1>3, <1>4, <1>5, Sayings

LEMMA KnownStays ==
  ASSUME Inv, LinkInv, KnownInv, ShapeInv, Tame, [Next]_vars
  PROVE  KnownInv'
<1>1. ASSUME event'.status = "none"
      PROVE  NeverLinked' /\ ~Linked' /\ (import' # None => import'.event.status = "none")
  <2>1. event.status = "none" /\ NeverLinked /\ ~Linked /\ (import # None => import.event.status = "none")
    BY <1>1, EventStays DEF KnownInv
  <2>2. ~Linking
    BY <2>1 DEF Linking, Stamp, RepairDone, OrphanedDone, ShapeInv, At
  <2>3. NeverLinked'
    BY <2>1, <2>2, NoneLinked
  <2>4. ~(row' # None /\ row'.link)
    <3>1. CASE UNCHANGED row \/ Touches
      BY <2>1, <2>2, <3>1 DEF Touches, Linked, Linking
    <3>2. CASE ImportWrite
      <4>1. import.row = row /\ import # None /\ row' = Upserted(row, row, import.event)
        BY <3>2 DEF LinkInv, ImportInv, ImportWrite
      <4>2. row' = row
        BY <2>1, <4>1 DEF Upserted, Linked
      <4>3. QED  BY <2>1, <4>2 DEF Linked
    <3>3. ASSUME NEW p \in Pushes, Wins(p) PROVE ~(row' # None /\ row'.link)
      BY <2>1, <3>3, OpSaid DEF Wins, NeverLinked
    <3>4. QED  BY <3>1, <3>2, <3>3, RowMoves
  <2>5. import' # None => import'.event.status = "none"
    BY <2>1, ImportSteps
  <2>6. QED  BY <2>3, <2>4, <2>5 DEF Linked
<1>2. ASSUME count'["gestures"] = 0 \/ (op' # None /\ op'.create) PROVE event'.status = "none"
  <2>1. count["gestures"] = 0 \/ (op # None /\ op.create)
    <3>1. CASE count'["gestures"] = 0
      BY <3>1, GestureCount
    <3>2. CASE op' # None /\ op'.create
      BY <3>2, OpMoves, Gesturing, Reading
    <3>3. QED  BY <1>2, <3>1, <3>2
  <2>2. event.status = "none" /\ \A p \in Pushes : Free(p)
    BY <2>1 DEF KnownInv, LinkInv, FirstInv
  <2>3. UNCHANGED event
    BY <2>2, EventSteps DEF Type, Free, Calls
  <2>4. QED  BY <2>2, <2>3
<1>3. QED  BY <1>1, <1>2 DEF KnownInv

\* Nothing takes away an item that is being created.
LEMMA CreatedStays ==
  ASSUME Inv, LinkInv, Tame, [Next]_vars, NEW p \in Pushes, row # None,
         job[p].step \in {"create", "insert", "stamp"}
  PROVE  row' # None
<1>1. Creating
  BY DEF Creating
<1>2. ASSUME NEW q \in Pushes, Wins(q) PROVE row' # None
  BY <1>1, <1>2, TameIs DEF Wins, Awkward
<1>3. QED  BY <1>2, RowMoves, ImportTells DEF Touches, LinkInv

LEMMA ShapeStays ==
  ASSUME Inv, LinkInv, KnownInv, ShapeInv, Tame, [Next]_vars
  PROVE  ShapeInv'
<1> SUFFICES ASSUME NEW p \in Pushes
             PROVE  /\ job'[p].step \in {"create", "insert", "stamp"} =>
                         row' # None /\ job'[p].of.status = "calendar" /\ ~job'[p].of.removes
                    /\ job'[p].step \in {"write", "remove", "takeBack", "unlink"} => job'[p].state.link
                    /\ job'[p].step = "remove" => FirstStep(job'[p].of) = "remove" /\ job'[p].state = job'[p].of
                    /\ job'[p].step = "stamp" => event'.status # "none"
                    /\ job'[p].step = "unlink" => event'.status # "live"
  BY DEF ShapeInv
<1>1. Advances(p)
  BY JobSteps
<1>2. CASE job'[p] = Idle
  BY <1>2, IdleJob
<1>3. CASE job'[p] = job[p]
  <2>1. job[p].step = "unlink" => UNCHANGED event
    <3>1. event.status \in {"none", "live", "gone"}
      <4>1. event \in Events
        BY Parts DEF RestFine
      <4>2. QED  BY <4>1 DEF Events
    <3>2. job[p].step = "unlink" => event.status # "live" /\ event.status # "none"
      BY OfSaid DEF ShapeInv, KnownInv, NeverLinked
    <3>3. QED  BY <3>1, <3>2, EventStays
  <2>2. QED  BY <1>3, <2>1, CreatedStays, EventStays DEF ShapeInv
<1>4. CASE \E s \in States : /\ Asks(p, s) /\ FirstStep(s) # "idle"
                             /\ job'[p].of = s /\ job'[p].state = s /\ job'[p].step = FirstStep(s)
  <2>1. PICK s \in States : /\ Asks(p, s) /\ FirstStep(s) # "idle"
                            /\ job'[p].of = s /\ job'[p].state = s /\ job'[p].step = FirstStep(s)
    BY <1>4
  <2>2. s.link \in BOOLEAN
    BY DEF States
  <2>3. FirstStep(s) = "create" => row' # None
    <3>1. ASSUME FirstStep(s) = "create" PROVE row' # None
      <4>1. ~s.link /\ ~s.removes /\ s.status = "calendar"
        BY <2>1, <2>2, <3>1, FirstOf
      <4>2. CASE Apply(p) /\ op # None /\ s = op.state /\ ~(row = None /\ ~op.create) /\ (op.state.removes \/ ~op.late)
        <5>1. Wins(p)
          BY <4>1, <4>2, Applying
        <5>2. QED  BY <4>1, <4>2, <5>1 DEF Wins
      <4>3. CASE (Backfill(p) \/ Repush(p)) /\ row # None
        BY <4>3 DEF Backfill, Repush
      <4>4. CASE s \in failed /\ Retry(p, s)
        BY <4>1, <4>4, TameIs DEF Retry
      <4>5. QED  BY <2>1, <4>2, <4>3, <4>4 DEF Asks
    <3>2. QED  BY <3>1
  <2>4. QED  BY <2>1, <2>2, <2>3, FirstOf
<1>5. CASE job'[p].of = job[p].of /\ Check(p) /\ job'[p].step = "insert" /\ job'[p].state = job[p].state
  BY <1>5, CreatedStays DEF Check, At, ShapeInv
<1>6. CASE Linked /\ GoesOn(p, row)
  BY <1>6 DEF Linked, GoesOn, StateOf
<1>7. CASE row' # None /\ row'.link /\ GoesOn(p, row')
  BY <1>7 DEF GoesOn, StateOf
<1>8. CASE /\ Answer(p) /\ Afterwards(p) # "idle" /\ job'[p].step = Afterwards(p)
           /\ job'[p].state = job[p].state /\ job'[p].of = job[p].of
  <2>1. CASE At(p, "insert")
    <3>1. job'[p].step = "stamp" /\ event' = Reached(p) /\ job[p].step \in Calls
      BY <1>8, <2>1 DEF Afterwards, Answer
    <3>2. Reached(p).status # "none"
      BY <2>1, <3>1, ReachedIs
    <3>3. QED  BY <1>8, <2>1, <3>1, <3>2, CreatedStays DEF ShapeInv, At
  <2>2. CASE ~At(p, "insert")
    <3>1. /\ job'[p].step \in {"unlink", "mark"} /\ event' = Reached(p) /\ job[p].step \in Calls
          /\ job'[p].step = "unlink" => At(p, "takeBack")
      BY <1>8, <2>2 DEF Afterwards, Answer
    <3>2. At(p, "takeBack") => Reached(p).status # "live"
      BY <3>1, ReachedIs
    <3>3. QED  BY <1>8, <3>1, <3>2 DEF ShapeInv, At
  <2>3. QED  BY <2>1, <2>2
<1>9. QED  BY <1>1, <1>2, <1>3, <1>4, <1>5, <1>6, <1>7, <1>8 DEF Advances

LEMMA ReadStays ==
  ASSUME Inv, LinkInv, ReadInv, Tame, [Next]_vars
  PROVE  ReadInv'
<1> SUFFICES ASSUME op' # None, row' # None, op'.state.removes \/ (op'.state.status = "off" /\ ~op'.late)
             PROVE  /\ op'.state.removes \/ row'.status = "calendar"
                    /\ op'.read => op'.state.link = row'.link
  BY DEF ReadInv
<1>1. CASE Gesture
  BY <1>1, Gesturing, TameIs DEF Follows
<1>2. CASE Hydrate
  BY <1>2, Reading DEF ReadInv
<1>3. CASE /\ op # None /\ op'.state = op.state /\ op'.create = op.create
           /\ op'.read => op.read
           /\ op.late => op'.late
  <2>1. op.state.removes \/ (op.state.status = "off" /\ ~op.late)
    BY <1>3
  <2>2. ~\E p \in Pushes : Wins(p)
    BY DEF Wins
  <2>3. CASE ImportWrite
    <3>1. ~op'.read /\ row # None
      BY <2>3, ImportTells DEF LinkInv
    <3>2. op'.state.removes \/ ~op'.late
      OBVIOUS
    <3>3. QED  BY <1>3, <2>1, <2>3, <3>1, <3>2, ImportTells DEF ReadInv, LinkInv
  <2>4. CASE UNCHANGED row
    BY <1>3, <2>1, <2>4 DEF ReadInv
  <2>5. CASE Touches
    <3>1. CASE Outdates
      BY <3>1, Outdated
    <3>2. CASE ~Outdates
      <4>1. ~\E p \in Pushes : Stamp(p) \/ RepairDone(p) \/ Unlink(p)
        BY <2>5, <3>2 DEF Touches, Stamp, RepairDone, Unlink
      <4>2. row'.link = row.link /\ row'.status = row.status /\ row # None
        BY <2>5, <4>1 DEF Touches
      <4>3. QED  BY <1>3, <2>1, <4>2 DEF ReadInv
    <3>3. QED  BY <3>1, <3>2
  <2>6. QED  BY <2>2, <2>3, <2>4, <2>5, RowMoves
<1>4. QED  BY <1>1, <1>2, <1>3, OpMoves

\* What a push does leaves the others as they are.
LEMMA OthersStay ==
  ASSUME Inv, NEW q \in Pushes, Work(q), NEW p \in Pushes, p # q
  PROVE  job'[p] = job[p]
<1>1. CASE Check(q) \/ Stamp(q) \/ Answer(q)
  BY <1>1, CheckMoves, StampMoves, AnswerMoves
<1>2. CASE Unlink(q) \/ Mark(q) \/ Fail(q)
  BY <1>2, Ended DEF Unlink, Mark, Fail
<1>3. CASE Apply(q) \/ Backfill(q) \/ Repush(q) \/ RepairDone(q) \/ \E f \in failed : Retry(q, f)
  <2>1. CASE UNCHANGED job
    BY <2>1
  <2>2. CASE ~UNCHANGED job
    <3>1. PICK s \in States, w \in BOOLEAN : Asks(q, s) /\ Push(q, s, w)
      BY <1>3, <2>2, Asking
    <3>2. QED  BY <3>1, Pushed
  <2>3. QED  BY <2>1, <2>2
<1>4. QED  BY <1>1, <1>2, <1>3 DEF Work

LEMMA Busy ==
  ASSUME Inv, [Next]_vars, NEW p \in Pushes, ~Free(p)
  PROVE  \/ job'[p] = job[p]
         \/ Crash
         \/ Check(p) \/ Stamp(p) \/ Unlink(p) \/ Mark(p) \/ Answer(p) \/ Fail(p)
<1>1. UNCHANGED job \/ Crash \/ \E q \in Pushes : Work(q)
  BY DEF Next, vars, Gesture, Create, Change, Delete, Type, Server, Hydrate, ImportRead, ImportWrite, Dismiss
<1>2. Work(p) => Check(p) \/ Stamp(p) \/ Unlink(p) \/ Mark(p) \/ Answer(p) \/ Fail(p)
  BY DEF Work, Apply, Backfill, Repush, RepairDone, Retry
<1>3. QED  BY <1>1, <1>2, OthersStay

\* A removal that is wanted is wanted until the event is gone.
LEMMA RemovalGoes ==
  ASSUME Inv, ShapeInv, Tame, [Next]_vars, Removing, event'.status = "live"
  PROVE  Removing'
<1>1. ASSUME NEW p \in Pushes, At(p, "remove") PROVE Removing'
  <2>1. CASE job'[p] = job[p]
    BY <1>1, <2>1 DEF Removing, At
  <2>2. CASE Crash
    BY <1>1, <2>2, TameIs DEF Crash, Unseen, At
  <2>3. CASE Fail(p)
    <3>1. Unseen(p)
      BY <1>1 DEF Unseen, At
    <3>2. ~job[p].swept
      BY <2>3, <3>1, TameIs DEF Fail
    <3>3. job[p].of \in failed'
      BY <2>3, <3>2 DEF Fail
    <3>4. FirstStep(job[p].of) = "remove"
      BY <1>1 DEF ShapeInv, At
    <3>5. QED  BY <3>3, <3>4 DEF Removing
  <2>4. CASE Answer(p)
    <3>1. event' = Reached(p) /\ job[p].step \in Calls
      BY <2>4 DEF Answer
    <3>2. QED  BY <1>1, <3>1, ReachedIs
  <2>5. ~Free(p) /\ ~(Check(p) \/ Stamp(p) \/ Unlink(p) \/ Mark(p))
    BY <1>1 DEF At, Free, Check, Stamp, Unlink, Mark
  <2>6. QED  BY <2>1, <2>2, <2>3, <2>4, <2>5, Busy
<1>2. ASSUME NEW f \in failed, FirstStep(f) = "remove" PROVE Removing'
  <2>1. CASE f \in failed'
    BY <1>2, <2>1 DEF Removing
  <2>2. CASE f \notin failed'
    <3>1. (\E p \in Pushes : Retry(p, f)) \/ Dismiss(f)
      BY ZenonT(30), <2>2
       DEF Next, vars, Gesture, Create, Change, Delete, Type, Server, Hydrate, ImportRead, ImportWrite, Crash,
         Dismiss, Work, Apply, Check, Answer, Fail, Backfill, Repush, Retry, Stamp, Unlink, Mark, RepairDone
    <3>2. PICK p \in Pushes : Retry(p, f)
      BY <1>2, <3>1 DEF Dismiss
    <3>3. f \in States /\ Push(p, f, FALSE)
      BY <3>2, Parts DEF Retry, RestFine
    <3>4. job'[p].step = "remove"
      BY <1>2, <3>3, Pushed
    <3>5. QED  BY <3>4 DEF Removing, At
  <2>3. QED  BY <2>1, <2>2
<1>3. QED  BY <1>1, <1>2 DEF Removing

\* A sync links the item it finds, or leaves an item without a link alone.
LEMMA ImportUnlinked ==
  ASSUME Inv, ImportInv, ImportWrite, ~Linked
  PROVE  row' = row \/ (row' # None /\ row'.link)
<1> DEFINE e == import.event
<1>1. row' = Upserted(row, row, e) /\ import # None
  BY DEF ImportWrite, ImportInv
<1>2. e \in Events
  BY <1>1, Parts DEF RestFine
<1>3. CASE e.status = "live" /\ Naked(row, e)
  <2> DEFINE linked == [row EXCEPT !.link = TRUE, !.fresh = TRUE]
  <2>1. row # None /\ row \in Rows
    BY <1>3, RowTypes DEF Naked
  <2>2. linked \in Rows /\ linked.link
    BY <2>1 DEF Rows
  <2>3. row' = Merged(linked, linked, e)
    BY <1>1, <1>3, <2>1 DEF Upserted, Linked
  <2> HIDE DEF linked, e
  <2>4. /\ [linked EXCEPT !.content = e.content, !.synced = e.version, !.fresh = TRUE] \in Rows
        /\ [linked EXCEPT !.content = e.content, !.synced = e.version, !.fresh = TRUE].link
        /\ \A f \in BOOLEAN : /\ [linked EXCEPT !.synced = e.version, !.fresh = f] \in Rows
                              /\ [linked EXCEPT !.synced = e.version, !.fresh = f].link
    BY <1>2, <2>2 DEF Rows, Events
  <2>5. (linked.fresh /\ ~Agrees(linked, e)) \in BOOLEAN
    BY <2>2 DEF Rows
  <2>6. QED  BY <2>2, <2>3, <2>4, <2>5, NoneAssumption DEF Merged
<1>4. CASE ~(e.status = "live" /\ Naked(row, e))
  BY <1>1, <1>4 DEF Upserted, Linked
<1>5. QED  BY <1>3, <1>4

LEMMA EventStatuses == ASSUME Inv PROVE event.status \in {"none", "live", "gone"}
<1>1. event \in Events
  BY Parts DEF RestFine
<1>2. QED  BY <1>1 DEF Events

\* The first event there is: the link's stamp is to come, or a sync will find it.
LEMMA Inserted ==
  ASSUME Inv, LinkInv, KnownInv, ShapeInv, Tame, [Next]_vars,
         event.status = "none", event'.status = "live"
  PROVE  ToBeLinked'
<1>1. NeverLinked /\ ~Linked
  BY DEF KnownInv
<1>2. PICK p \in Pushes : (Answer(p) \/ Fail(p)) /\ job[p].step \in Calls /\ event' = Reached(p)
  BY EventSteps DEF Type
<1>3. At(p, "insert") /\ event'.content = job[p].of.content
  BY <1>2, ReachedIs
<1>4. row # None /\ job[p].of.status = "calendar" /\ UNCHANGED row
  BY <1>2, <1>3 DEF ShapeInv, At, Answer, Fail
<1>5. ~Linking
  BY <1>4, <1>1, RowTypes, StampEffect DEF Linking, Stamp, RepairDone, OrphanedDone, Linked
<1>6. NeverLinked'
  BY <1>1, <1>5, NoneLinked
<1>7. CASE Answer(p)
  <2>1. job'[p].step = "stamp" /\ job'[p].of = job[p].of
    <3>1. Afterwards(p) = "stamp"
      BY <1>3 DEF Afterwards
    <3>2. job' = [job EXCEPT ![p] = [job[p] EXCEPT !.step = "stamp", !.wrote = Reached(p).version]]
      BY <1>7, <3>1 DEF Answer
    <3>3. job[p] \in Jobs /\ job \in [Pushes -> Jobs]
      BY JobTypes, Parts DEF JobsFine
    <3>4. job'[p] = [job[p] EXCEPT !.step = "stamp", !.wrote = Reached(p).version]
      BY <3>2, <3>3
    <3>5. QED  BY <3>3, <3>4 DEF Jobs
  <2>2. Stamping(p)'
    BY <1>3, <2>1 DEF Stamping, At
  <2>3. QED  BY <1>4, <1>6, <2>2 DEF ToBeLinked
<1>8. CASE Fail(p)
  <2>1. ~Unseen(p)
    BY <1>2, <1>3, <1>8, TameIs DEF Fail, At
  <2>2. row.status = "calendar" /\ row.content = event'.content
    BY <1>3, <1>4, <2>1 DEF Unseen, MovedOn, At
  <2>3. Naked(row', event')
    BY <1>1, <1>4, <2>2, RowTypes DEF Naked, Linked
  <2>4. ASSUME NEW q \in Pushes PROVE job'[q].step # "stamp"
    <3>1. job'[p] = Idle /\ (q # p => job'[q] = job[q])
      BY <1>8, Ended DEF Fail
    <3>2. CASE q = p
      BY <3>1, <3>2, IdleJob
    <3>3. CASE q # p
      <4>1. job[p].slot
        BY <1>3 DEF Inv, SlotInv, Slotted, At
      <4>2. ~job[q].slot
        BY <3>3, <4>1, Parts DEF JobsFine
      <4>3. job[q].step # "stamp"
        BY <4>2 DEF Inv, SlotInv, Slotted
      <4>4. QED  BY <3>1, <3>3, <4>3
    <3>4. QED  BY <3>2, <3>3
  <2>5. QED  BY <1>4, <1>6, <2>3, <2>4 DEF ToBeLinked, At
<1>9. QED  BY <1>2, <1>7, <1>8

\* The link is lost only with the item, or off the calendar, and then the event
\* is to be removed.
LEMMA LinkLost ==
  ASSUME Inv, LinkInv, ShapeInv, ReadInv, Tame, [Next]_vars,
         event.status = "live", Linked, ~(row' # None /\ row'.link)
  PROVE  Detached'
<1>1. row # None /\ row.link
  BY DEF Linked
<1>2. ~UNCHANGED row
  BY <1>1
<1>3. ~ImportWrite
  BY <1>1, ImportTells DEF LinkInv
<1>4. ~Touches
  BY <1>1 DEF Touches, Unlink, ShapeInv, At
<1>5. PICK p \in Pushes : Wins(p)
  BY <1>2, <1>3, <1>4, RowMoves
<1>6. op.state.removes \/ op.state.status = "off"
  <2>1. SUFFICES ASSUME ~op.state.removes, op.state.status # "off" PROVE FALSE
    OBVIOUS
  <2>2. op.state.link
    BY <1>1, <1>5, <2>1 DEF LinkInv, CarryInv, Wins, Linked
  <2>3. QED  BY <1>5, <2>1, <2>2 DEF Wins
<1>7. op.state.link
  BY <1>1, <1>5, <1>6 DEF ReadInv, Wins
<1>8. FirstStep(op.state) = "remove"
  BY <1>6, <1>7 DEF FirstStep
<1>9. op.state \in States
  BY <1>5, OpTypes DEF Wins
<1>10. job'[p].step = "remove"
  BY <1>5, <1>8, <1>9, Pushed DEF Wins
<1>11. Removing'
  BY <1>10 DEF Removing, At
<1>12. op' = None /\ (row' = None \/ row'.status = "off")
  BY <1>5, <1>6 DEF Wins
<1>13. QED  BY <1>11, <1>12 DEF Detached

LEMMA DetachedStays ==
  ASSUME Inv, LinkInv, KnownInv, ShapeInv, Tame, [Next]_vars,
         event.status = "live", event'.status = "live", ~Linked, ~(row' # None /\ row'.link), Detached
  PROVE  Detached'
<1>1. Removing'
  BY RemovalGoes DEF Detached
<1>2. CASE row = None
  <2>1. ~\E p \in Pushes : Wins(p)
    BY <1>2 DEF Wins, KnownInv
  <2>2. row' = None
    BY <1>2, <2>1, RowMoves, ImportTells DEF Touches, LinkInv
  <2>3. QED  BY <1>1, <2>2 DEF Detached
<1>3. CASE row # None /\ row.status = "off" /\ (op = None \/ op.state.removes)
  <2>1. row' = None \/ row'.status = "off"
    <3>1. ImportWrite => row' = row
      BY ImportUnlinked DEF LinkInv
    <3>2. \A p \in Pushes : Wins(p) => row' = None
      BY <1>3 DEF Wins
    <3>3. QED  BY <1>3, <3>1, <3>2, RowMoves DEF Touches
  <2>2. op' = None \/ op'.state.removes
    <3>1. CASE Gesture
      BY <1>3, <3>1, Gesturing, TameIs
    <3>2. CASE ~Gesture
      BY <1>3, <3>2, OpMoves, Reading
    <3>3. QED  BY <3>1, <3>2
  <2>3. QED  BY <1>1, <2>1, <2>2 DEF Detached
<1>4. QED  BY <1>2, <1>3 DEF Detached

LEMMA ToBeLinkedStays ==
  ASSUME Inv, LinkInv, ContentInv, KnownInv, ShapeInv, Tame, [Next]_vars,
         event.status = "live", event'.status = "live", ~Linked, ~(row' # None /\ row'.link), ToBeLinked
  PROVE  ToBeLinked'
<1>1. NeverLinked /\ row # None
  BY DEF ToBeLinked
<1>2. ~Linking
  <2>1. \A p \in Pushes : ~Stamp(p)
    BY <1>1, StampEffect
  <2>2. ASSUME NEW p \in Pushes, RepairDone(p) PROVE FALSE
    <3>1. row' = [row EXCEPT !.link = TRUE, !.fresh = TRUE] /\ row \in Rows
      BY <1>1, <2>2, RowTypes DEF RepairDone
    <3>2. row' \in Rows /\ row'.link
      BY <3>1 DEF Rows
    <3>3. QED  BY <3>2, NoneAssumption
  <2>3. QED  BY <2>1, <2>2 DEF Linking
<1>3. NeverLinked'
  BY <1>1, <1>2, NoneLinked
<1>4. UNCHANGED event
  <2>1. ~Type
    BY Typing
  <2>2. ASSUME NEW p \in Pushes, job[p].step \in Calls PROVE At(p, "insert") /\ Reached(p) = event
    <3>1. At(p, "insert")
      BY <1>1, <2>2, OfSaid DEF NeverLinked, ShapeInv, Calls, At
    <3>2. QED  BY <2>2, <3>1, ReachedIs
  <2>3. QED  BY <2>1, <2>2, EventSteps
<1>5. ASSUME NEW p \in Pushes, Wins(p)
      PROVE  /\ ~op.state.removes
             /\ (\A q \in Pushes : ~At(q, "stamp")) =>
                  op.state.content = row.content /\ op.state.status \in {"calendar", "done"}
  <2>1. Awkward(op.state)
    BY <1>5 DEF Wins
  <2>2. CASE \A q \in Pushes : ~At(q, "stamp")
    <3>1. Adrift
      BY <2>2 DEF Adrift
    <3>2. QED  BY <1>1, <2>1, <3>1, TameIs DEF Awkward
  <2>3. CASE \E q \in Pushes : At(q, "stamp")
    <3>1. Creating
      BY <2>3 DEF Creating, At
    <3>2. QED  BY <2>1, <2>3, <3>1, TameIs DEF Awkward
  <2>4. QED  BY <2>2, <2>3
<1>6. row' # None
  BY <1>1, <1>5, RowMoves, ImportTells DEF Touches, LinkInv, Wins
<1>7. ImportWrite => row' = row
  BY ImportUnlinked DEF LinkInv
<1>8. CASE \E p \in Pushes : Stamping(p)
  <2>1. PICK p \in Pushes : Stamping(p)
    BY <1>8
  <2>2. ~Free(p) /\ At(p, "stamp")
    BY <2>1 DEF Stamping, At, Free
  <2>3. job'[p] = job[p] \/ Crash
    BY <1>2, <2>2, Busy DEF Linking, At, Check, Unlink, Mark, Answer, Fail, Calls
  <2>4. CASE job'[p] = job[p]
    <3>1. job[p].of.content = row'.content => event.content = row'.content
      <4>1. CASE UNCHANGED row \/ Touches \/ ImportWrite
        BY <1>7, <2>1, <4>1 DEF Touches, Stamping
      <4>2. ASSUME NEW q \in Pushes, Wins(q)
            PROVE  job[p].of.content = row'.content => event.content = row'.content
        <5>1. row'.content = op.state.content /\ op # None /\ ~op.late /\ ~op.state.removes
          BY <1>5, <4>2 DEF Wins
        <5>2. op.state.content = row.content \/ job[p].of.content # op.state.content
          BY <1>1, <2>2, <5>1 DEF ContentInv
        <5>3. QED  BY <2>1, <5>1, <5>2 DEF Stamping
      <4>3. QED  BY <4>1, <4>2, RowMoves
    <3>2. Stamping(p)'
      BY <1>4, <2>2, <2>4, <3>1 DEF Stamping, At
    <3>3. QED  BY <1>3, <1>6, <3>2 DEF ToBeLinked
  <2>5. CASE Crash
    <3>1. ~Unseen(p) /\ UNCHANGED row /\ \A q \in Pushes : job'[q] = Idle
      BY <2>5, TameIs DEF Crash
    <3>2. row.content = job[p].of.content /\ row.status = "calendar"
      BY <2>2, <3>1 DEF Unseen, MovedOn, ShapeInv, At
    <3>3. Naked(row', event')
      BY <1>1, <1>4, <2>1, <3>1, <3>2 DEF Naked, Stamping, Linked
    <3>4. \A q \in Pushes : job'[q].step # "stamp"
      BY <3>1, IdleJob
    <3>5. QED  BY <1>3, <1>6, <3>3, <3>4 DEF ToBeLinked, At
  <2>6. QED  BY <2>3, <2>4, <2>5
<1>9. CASE (\A p \in Pushes : ~At(p, "stamp")) /\ Naked(row, event)
  <2>1. CASE \E p \in Pushes : job'[p].step = "stamp"
    <3>1. PICK p \in Pushes : job'[p].step = "stamp"
      BY <2>1
    <3>2. Answer(p) /\ job'[p].of = job[p].of
      <4>1. Advances(p)
        BY JobSteps
      <4>2. \A s \in States : FirstStep(s) # "stamp"
        BY DEF FirstStep
      <4>3. job[p].step # "stamp"
        BY <1>9 DEF At
      <4>4. QED  BY <3>1, <4>1, <4>2, <4>3, IdleJob DEF Advances, GoesOn
    <3>3. UNCHANGED row
      BY <3>2 DEF Answer
    <3>4. Stamping(p)'
      BY <1>4, <1>9, <3>1, <3>3 DEF Stamping, Naked, At
    <3>5. QED  BY <1>3, <1>6, <3>4 DEF ToBeLinked
  <2>2. CASE \A p \in Pushes : job'[p].step # "stamp"
    <3>1. row'.content = row.content /\ row'.status \in {"calendar", "done"}
      <4>1. row.status \in {"calendar", "done"}
        BY <1>9 DEF Naked
      <4>2. \A p \in Pushes : Wins(p) => row'.content = row.content /\ row'.status \in {"calendar", "done"}
        BY <1>5, <1>9 DEF Wins
      <4>3. QED  BY <1>7, <4>1, <4>2, RowMoves DEF Touches
    <3>2. Naked(row', event')
      BY <1>4, <1>6, <1>9, <3>1 DEF Naked
    <3>3. QED  BY <1>3, <1>6, <2>2, <3>2 DEF ToBeLinked, At
  <2>3. QED  BY <2>1, <2>2
<1>10. QED  BY <1>8, <1>9 DEF ToBeLinked

LEMMA UnlinkedStays ==
  ASSUME Inv, LinkInv, ContentInv, KnownInv, ShapeInv, ReadInv, UnlinkedInv, Tame, [Next]_vars
  PROVE  UnlinkedInv'
<1> SUFFICES ASSUME event'.status = "live", ~(row' # None /\ row'.link)
             PROVE  Detached' \/ ToBeLinked'
  BY DEF UnlinkedInv, Linked
<1>1. CASE event.status = "none"
  BY <1>1, Inserted
<1>2. CASE event.status = "gone"
  BY <1>2, EventStays
<1>3. CASE event.status = "live" /\ Linked
  BY <1>3, LinkLost
<1>4. CASE event.status = "live" /\ ~Linked
  BY <1>4, DetachedStays, ToBeLinkedStays DEF UnlinkedInv
<1>5. QED  BY <1>1, <1>2, <1>3, <1>4, EventStatuses

\* A sync that begins finds the item's own event linked, or the item by its title.
LEMMA OwnStays ==
  ASSUME Inv, LinkInv, LinkInv', UnlinkedInv, OwnInv, Tame, [Next]_vars
  PROVE  OwnInv'
<1> SUFFICES ASSUME import' # None PROVE ~Strange(import'.row, row', import'.event)
  BY DEF OwnInv
<1>1. CASE UNCHANGED import
  <2>1. row' = row
    BY <1>1 DEF LinkInv, ImportInv
  <2>2. QED  BY <1>1, <2>1 DEF OwnInv
<1>2. CASE ImportRead /\ import' = [event |-> event, row |-> row]
  <2>1. Calm /\ UNCHANGED row
    BY <1>2, TameIs DEF ImportRead
  <2>2. ~Detached /\ \A p \in Pushes : ~At(p, "stamp")
    BY <2>1 DEF Calm, Detached, Removing, Free, At
  <2>3. event.status = "live" /\ ~Linked => Naked(row, event)
    BY <2>2 DEF UnlinkedInv, ToBeLinked, Stamping
  <2>4. import'.row = row /\ import'.event = event /\ row' = row
    BY <1>2, <2>1
  <2>5. QED  BY <2>3, <2>4 DEF Strange, Linked
<1>3. QED  BY <1>1, <1>2, ImportSteps

LEMMA TwinStays ==
  ASSUME Inv, LinkInv, OwnInv, NoTwin, [Next]_vars
  PROVE  NoTwin'
<1>1. CASE ImportWrite
  BY <1>1 DEF ImportWrite, OwnInv, NoTwin
<1>2. CASE ~ImportWrite
  BY <1>2 DEF NoTwin, Next, vars, Gesture, Create, Change, Delete, Type, Server, Hydrate, ImportRead, Crash,
     Dismiss, Work, Apply, Check, Answer, Fail, Backfill, Repush, Retry, Stamp, Unlink, Mark, RepairDone
<1>3. QED  BY <1>1, <1>2

LEMMA EventInit == Init => EventInv
<1> SUFFICES ASSUME Init PROVE EventInv
  OBVIOUS
<1>1. \A p \in Pushes : job[p] = Idle /\ job[p].step = "idle"
  BY IdleJob DEF Init
<1>2. \A s \in Said : s = NoState
  BY <1>1 DEF Said, Init, Idle
<1>3. NoState.content = 0 /\ ~NoState.link
  BY DEF NoState
<1>4. Latest = 0
  BY DEF Init, Latest
<1>5. event.content = 0 /\ event.status = "none" /\ row = None /\ op = None /\ import = None /\ twin = FALSE
  BY DEF Init
<1>6. ContentInv
  BY <1>2, <1>3, <1>4, <1>5 DEF ContentInv
<1>7. KnownInv
  BY <1>2, <1>3, <1>5 DEF KnownInv, NeverLinked, Linked
<1>8. ShapeInv
  BY <1>1 DEF ShapeInv
<1>9. QED  BY <1>5, <1>6, <1>7, <1>8 DEF EventInv, ReadInv, UnlinkedInv, OwnInv, NoTwin

LEMMA EventStep == ASSUME Tame PROVE Inv /\ LinkInv /\ LinkInv' /\ EventInv /\ [Next]_vars => EventInv'
<1> SUFFICES ASSUME Inv, LinkInv, LinkInv', EventInv, [Next]_vars PROVE EventInv'
  OBVIOUS
<1>1. ContentInv'
  <2>1. ContentInv
    BY DEF EventInv
  <2>2. QED  BY <2>1, ContentBound, ContentFresh DEF ContentInv
<1>2. KnownInv' /\ ShapeInv' /\ ReadInv' /\ UnlinkedInv' /\ OwnInv' /\ NoTwin'
  BY KnownStays, ShapeStays, ReadStays, UnlinkedStays, OwnStays, TwinStays DEF EventInv
<1>3. QED  BY <1>1, <1>2 DEF EventInv

-----------------------------------------------------------------------------

\* However often pushes fail, the server restarts, and syncs and changes come
\* between, a sync never takes the item's own event for a stranger's and makes a
\* second item of it (tryRelinkNakedCalendarItem): an event without a linked item
\* awaits the link's stamp or its removal, which an import waits for, or is found
\* by its title and times.  An edit may come late, an operation bring a stale
\* anchor, and any number of pushes in a row be lost.
THEOREM NeverTwice == Races \subseteq {"staleAnchor", "lateEdit", "lostTwice"} => (Spec => []NoTwin)
<1> SUFFICES ASSUME Tame PROVE Spec => []NoTwin
  BY DEF Tame
<1>1. Orderly
  BY TameIs
<1>2. EventInv => NoTwin
  BY DEF EventInv
<1>3. QED  BY <1>1, <1>2, InvInit, InvStep, LinkInit, LinkStep, EventInit, EventStep, PTL DEF Spec

-----------------------------------------------------------------------------

LEMMA Outdating ==
  ASSUME Inv, "lateEdit" \notin Races, [Next]_vars, op # None, op' # None, ~op.late, op'.late
  PROVE  import # None /\ import.event.typed
<1>1. op \in Ops
  BY OpTypes
<1>2. ~Outdates
  BY <1>1 DEF Outdates, Late, Ops
<1>3. ~Gesture /\ ~Hydrate /\ ~Crash
  BY <1>1, Gesturing, Reading DEF Crash, Ops
<1>4. ~UNCHANGED op
  OBVIOUS
<1>5. ImportWrite
  <2>1. ~\E p \in Pushes : Work(p)
    BY <1>2, <1>4 DEF Work, Apply, Check, Stamp, Unlink, Mark, Answer, Fail, Backfill, Repush, RepairDone, Retry
  <2>2. QED  BY <1>3, <1>4, <2>1 DEF Next, vars, Type, Server, Dismiss, ImportRead
<1>6. QED  BY <1>2, <1>4, <1>5 DEF ImportWrite

\* The app's own notes of a push never make a device's change lose, whatever else
\* races: what outdates a change is a sync that brings what Google's user has typed
\* (stampItemLastPushed writes no updatedTs), and the link's stamp, which does give
\* the row a newer updatedTs, only in the race that is named for it.
THEOREM NotesOutdateNothing == "lateEdit" \notin Races => (Spec => OnlyGoogleOutdates)
<1> SUFFICES ASSUME "lateEdit" \notin Races PROVE Spec => OnlyGoogleOutdates
  OBVIOUS
<1>1. Inv /\ [Next]_vars =>
        [op # None /\ op' # None /\ ~op.late /\ op'.late => import # None /\ import.event.typed]_vars
  BY Outdating
<1>2. QED  BY <1>1, InvInit, InvStep, PTL DEF Spec, OnlyGoogleOutdates

-----------------------------------------------------------------------------
(* No steps race: what a step does to the times and the slots *)

Apart == Races \subseteq {"lateEdit", "lostTwice"}

LEMMA ApartIs == ASSUME Apart PROVE Tame /\ Orderly /\ \A r : r \notin {"lateEdit", "lostTwice"} => r \notin Races
<1>1. Tame
  BY DEF Apart, Tame
<1>2. QED  BY <1>1, TameIs DEF Apart

\* An operation under way while the row is given a newer updatedTs comes late.
LateOnly == op' # None => op'.late

\* The numbers and the truth values that types give.
LEMMA Numbers ==
  ASSUME Inv
  PROVE  /\ event.version \in Nat /\ event.typed \in BOOLEAN /\ event.marked \in BOOLEAN
         /\ listed \in Nat /\ listed <= event.version
         /\ anchor \in Nat /\ anchor <= event.version
         /\ row # None => /\ row.pushed \in Nat /\ row.pushed <= event.version
                          /\ row.synced \in Nat /\ row.fresh \in BOOLEAN
         /\ op # None => op.pushed \in Nat /\ op.pushed <= event.version /\ op.synced \in Nat
         /\ \A p \in Pushes : job[p].wrote \in Nat /\ job[p].wrote <= event.version
         /\ import # None => import.event \in Events /\ import.event.version \in Nat
                             /\ import.event.version <= event.version
<1>1. RestFine /\ JobsFine
  BY Parts
<1>2. event.version \in Nat /\ event.typed \in BOOLEAN /\ event.marked \in BOOLEAN
  BY <1>1, VersionType DEF Events
<1>3. row # None => /\ row.pushed \in Nat /\ row.pushed <= event.version
                    /\ row.synced \in Nat /\ row.fresh \in BOOLEAN
  BY <1>1, RowKnown DEF Rows, Versions
<1>4. op # None => op.pushed \in Nat /\ op.pushed <= event.version /\ op.synced \in Nat
  BY <1>1, OpTypes DEF RestFine, Known, Ops, Versions
<1>5. \A p \in Pushes : job[p].wrote \in Nat /\ job[p].wrote <= event.version
  BY <1>1 DEF JobsFine, Jobs, Versions
<1>6. import # None => import.event \in Events /\ import.event.version \in Nat
                       /\ import.event.version <= event.version
  BY <1>1 DEF RestFine, Events, Versions
<1>7. QED  BY <1>1, <1>2, <1>3, <1>4, <1>5, <1>6 DEF RestFine, Versions

\* The stamp of the link, while no operation is under way.
LEMMA StampTimes ==
  ASSUME Inv, Apart, NEW p \in Pushes, Stamp(p), row # None
  PROVE  /\ row'.pushed = job[p].wrote /\ row'.synced = row.synced /\ ~row'.fresh
         /\ anchor' = row'.pushed /\ LateOnly /\ import = None
         /\ UNCHANGED <<event, failed, import, listed, twin, count>>
<1>1. row' = [row EXCEPT !.link = TRUE, !.pushed = job[p].wrote, !.fresh = FALSE]
      /\ anchor' = row'.pushed /\ Outdates /\ Undisturbed
      /\ UNCHANGED <<event, failed, import, listed, twin, count>>
  BY DEF Stamp
<1>2. row \in Rows
  BY RowTypes
<1>3. row'.pushed = job[p].wrote /\ row'.synced = row.synced /\ ~row'.fresh
  BY <1>1, <1>2 DEF Rows
<1>4. LateOnly /\ import = None
  BY <1>1, ApartIs, OpTypes DEF Outdates, Late, Undisturbed, LateOnly, Ops
<1>5. QED  BY <1>1, <1>3, <1>4

LEMMA UnlinkTimes ==
  ASSUME Inv, Apart, NEW p \in Pushes, Unlink(p), row # None
  PROVE  /\ row' # None /\ row'.status = row.status /\ row'.content = row.content /\ ~row'.link
         /\ row'.pushed = row.pushed /\ row'.synced = row.synced
         /\ LateOnly /\ import = None /\ End(p)
         /\ UNCHANGED <<event, failed, import, listed, anchor, twin, count>>
<1>1. row' = [row EXCEPT !.link = FALSE, !.fresh = TRUE]
      /\ Outdates /\ Undisturbed /\ End(p)
      /\ UNCHANGED <<event, failed, import, listed, anchor, twin, count>>
  BY DEF Unlink
<1>2. row \in Rows
  BY RowTypes
<1>3. row' \in Rows /\ row'.status = row.status /\ row'.content = row.content /\ ~row'.link
      /\ row'.pushed = row.pushed /\ row'.synced = row.synced
  BY <1>1, <1>2 DEF Rows
<1>4. LateOnly /\ import = None
  BY <1>1, ApartIs, OpTypes DEF Outdates, Late, Undisturbed, LateOnly, Ops
<1>5. QED  BY <1>1, <1>3, <1>4, NoneAssumption

LEMMA MarkTimes ==
  ASSUME Inv, Apart, NEW p \in Pushes, Mark(p), row # None
  PROVE  /\ row' # None /\ row'.status = row.status /\ row'.content = row.content
         /\ row'.link = row.link /\ row'.pushed = job[p].wrote /\ row'.synced = row.synced
         /\ ~row'.fresh /\ import = None /\ End(p)
         /\ UNCHANGED <<event, op, failed, import, listed, anchor, twin, count>>
<1>1. row' = [row EXCEPT !.pushed = job[p].wrote, !.fresh = FALSE] /\ Undisturbed /\ End(p)
      /\ UNCHANGED <<event, op, failed, import, listed, anchor, twin, count>>
  BY DEF Mark
<1>2. row \in Rows /\ job[p].wrote \in Versions
  BY RowTypes, JobTypes DEF Jobs
<1>3. row' \in Rows /\ row'.status = row.status /\ row'.content = row.content
      /\ row'.link = row.link /\ row'.pushed = job[p].wrote /\ row'.synced = row.synced /\ ~row'.fresh
  BY <1>1, <1>2 DEF Rows
<1>4. QED  BY <1>1, <1>3, ApartIs, NoneAssumption DEF Undisturbed

\* The repair of a done item pushes it, with nothing else at work.
LEMMA RepairTimes ==
  ASSUME Inv, Apart, NEW p \in Pushes, RepairDone(p)
  PROVE  /\ row # None /\ row.status = "done" /\ ~row.link /\ event.status = "live"
         /\ row' # None /\ row'.status = row.status /\ row'.content = row.content /\ row'.link
         /\ row'.pushed = row.pushed /\ row'.synced = row.synced
         /\ anchor' = row.pushed /\ LateOnly /\ import = None
         /\ (\A q \in Pushes : Free(q)) /\ (\A q \in Pushes : q # p => job'[q] = job[q])
         /\ job'[p].step = "write" /\ job'[p].state = StateOf(row') /\ job'[p].of = StateOf(row')
         /\ UNCHANGED <<event, failed, import, listed, twin, count>>
<1>1. /\ row # None /\ row.status = "done" /\ ~row.link /\ event.status = "live"
      /\ row' = [row EXCEPT !.link = TRUE, !.fresh = TRUE] /\ anchor' = row.pushed
      /\ Outdates /\ import = None /\ Push(p, StateOf(row'), FALSE)
      /\ UNCHANGED <<event, failed, import, listed, twin, count>>
  BY DEF RepairDone, OrphanedDone
<1>2. row \in Rows
  BY <1>1, RowTypes
<1>3. row' \in Rows /\ row'.status = row.status /\ row'.content = row.content /\ row'.link
      /\ row'.pushed = row.pushed /\ row'.synced = row.synced
  BY <1>1, <1>2 DEF Rows
<1>4. LateOnly
  BY <1>1, ApartIs, OpTypes DEF Outdates, Late, LateOnly, Ops
<1>5. PICK s : s = StateOf(row')
  OBVIOUS
<1>6. s \in States /\ FirstStep(s) = "write" /\ Push(p, s, FALSE)
  BY <1>1, <1>3, <1>5, RowState DEF FirstStep, StateOf
<1>7. \A q \in Pushes : Free(q)
  BY <1>6, ApartIs DEF Push
<1>8. /\ \A q \in Pushes : q # p => job'[q] = job[q]
      /\ job'[p].step = "write" /\ job'[p].state = s /\ job'[p].of = s
  BY <1>6, Pushed
<1>9. QED  BY <1>1, <1>3, <1>4, <1>5, <1>7, <1>8, NoneAssumption

\* An operation that is applied brings its own times.
LEMMA WinTimes ==
  ASSUME Inv, Apart, NEW p \in Pushes, Wins(p)
  PROVE  /\ op \in Ops /\ op' = None /\ import = None
         /\ ~op.state.removes =>
              /\ row'.fresh
              /\ op.state.status = "off" => row'.pushed = 0 /\ row'.synced = 0
              /\ op.state.status # "off" => row'.pushed = op.pushed /\ row'.synced = op.synced
         /\ ~Overwrites
         /\ FirstStep(op.state) \in {"write", "remove"} => \A q \in Pushes : Free(q)
         /\ UNCHANGED <<event, failed, import, listed, anchor, twin, count>>
<1>1. op # None /\ ~((row = None /\ ~op.create) \/ (op.late /\ ~op.state.removes)) /\ Apply(p)
  BY DEF Wins
<1> DEFINE off == op.state.status = "off"
           r == [status |-> op.state.status, content |-> op.state.content,
                 link |-> op.state.link /\ ~off,
                 pushed |-> IF off THEN 0 ELSE op.pushed,
                 synced |-> IF off THEN 0 ELSE op.synced, fresh |-> TRUE]
<1>2. /\ op' = None /\ row' = (IF op.state.removes THEN None ELSE r)
      /\ Overwrites => (IF row.link /\ ~op.state.link THEN "linkErased" ELSE "staleAnchor") \in Races
      /\ Push(p, op.state, FALSE)
      /\ UNCHANGED <<event, failed, import, listed, anchor, twin, count>>
  BY <1>1 DEF Apply
<1>3. r.fresh /\ (off => r.pushed = 0 /\ r.synced = 0) /\ (~off => r.pushed = op.pushed /\ r.synced = op.synced)
  OBVIOUS
<1> HIDE DEF r
<1>4. QED  BY <1>1, <1>2, <1>3, ApartIs, OpTypes DEF Push, Undisturbed

\* The slots and the versions of the pushes.
LEMMA JobFields ==
  ASSUME Inv, [Next]_vars, NEW p \in Pushes
  PROVE  \/ job'[p] = job[p]
         \/ job'[p] = Idle
         \/ job'[p].step \in {"create", "write", "remove"} /\ ~job'[p].slot /\ job'[p].wrote = 0
         \/ /\ job'[p].step \in {"insert", "write", "takeBack"} /\ job'[p].slot
            /\ job'[p].wrote = job[p].wrote /\ job[p].step \in {"create", "stamp"}
         \/ /\ Answer(p) /\ Afterwards(p) # "idle" /\ job'[p].step = Afterwards(p)
            /\ job'[p].slot = job[p].slot /\ job'[p].wrote = event'.version
<1> DEFINE Q ==
         \/ job'[p] = job[p]
         \/ job'[p] = Idle
         \/ job'[p].step \in {"create", "write", "remove"} /\ ~job'[p].slot /\ job'[p].wrote = 0
         \/ /\ job'[p].step \in {"insert", "write", "takeBack"} /\ job'[p].slot
            /\ job'[p].wrote = job[p].wrote /\ job[p].step \in {"create", "stamp"}
         \/ /\ Answer(p) /\ Afterwards(p) # "idle" /\ job'[p].step = Afterwards(p)
            /\ job'[p].slot = job[p].slot /\ job'[p].wrote = event'.version
<1>0. job \in [Pushes -> Jobs] /\ job[p] \in Jobs
  BY JobTypes, Parts DEF JobsFine
<1>1. ASSUME NEW r \in Rows, job'[p] = FollowUp(p, r), job[p].step \in {"create", "stamp"} PROVE Q
  <2> DEFINE j == [job[p] EXCEPT !.step = IF r.status = "off" THEN "takeBack" ELSE "write",
                                 !.state = StateOf(r), !.slot = TRUE]
  <2>1. j.step \in {"write", "takeBack"} /\ j.slot /\ j.wrote = job[p].wrote
    BY <1>0 DEF Jobs
  <2>2. job'[p] = Idle \/ job'[p] = j
    BY <1>1 DEF FollowUp
  <2> HIDE DEF j
  <2>3. QED  BY <1>1, <2>1, <2>2
<1>2. ASSUME NEW s, NEW w, Push(p, s, w) PROVE Q
  <2> DEFINE j == [Idle EXCEPT !.step = FirstStep(s), !.of = s, !.state = s, !.swept = w]
  <2>1. j.step = FirstStep(s) /\ ~j.slot /\ j.wrote = 0
    BY DEF Idle
  <2>2. FirstStep(s) # "idle" => FirstStep(s) \in {"create", "write", "remove"}
    BY DEF FirstStep
  <2>3. job' = [job EXCEPT ![p] = IF FirstStep(s) = "idle" THEN Idle ELSE j]
    BY <1>2 DEF Push
  <2> HIDE DEF j
  <2>4. QED  BY <1>0, <2>1, <2>2, <2>3
<1>3. CASE UNCHANGED job \/ Crash
  BY <1>3 DEF Crash
<1>4. ASSUME NEW q \in Pushes, Work(q) PROVE Q
  <2>1. CASE q # p
    BY <1>4, <2>1, OthersStay
  <2>2. CASE q = p /\ Check(p)
    <3>1. CASE InFlight
      BY <1>0, <2>2, <3>1 DEF Check
    <3>2. CASE ~InFlight /\ Linked
      <4>1. job'[p] = FollowUp(p, row) /\ row \in Rows /\ job[p].step = "create"
        BY <1>0, <2>2, <3>2, RowTypes DEF Check, At, Linked
      <4>2. QED  BY <1>1, <4>1
    <3>3. CASE ~InFlight /\ ~Linked
      <4>1. job'[p] = [job[p] EXCEPT !.step = "insert", !.slot = TRUE] /\ job[p].step = "create"
        BY <1>0, <2>2, <3>3 DEF Check, At
      <4>2. job'[p].step = "insert" /\ job'[p].slot /\ job'[p].wrote = job[p].wrote
        BY <1>0, <4>1 DEF Jobs
      <4>3. QED  BY <4>1, <4>2
    <3>4. QED  BY <3>1, <3>2, <3>3
  <2>3. CASE q = p /\ Stamp(p)
    <3>1. CASE row = None
      BY <2>3, <3>1, Ended DEF Stamp
    <3>2. CASE row # None
      <4>1. PICK r : r = row'
        OBVIOUS
      <4>2. r \in Rows /\ job'[p] = FollowUp(p, r) /\ job[p].step = "stamp"
        BY <2>3, <3>2, <4>1, StampEffect DEF Stamp, At
      <4>3. QED  BY <1>1, <4>2
    <3>3. QED  BY <3>1, <3>2
  <2>4. CASE q = p /\ Answer(p)
    <3>1. CASE Afterwards(p) = "idle"
      BY <1>0, <2>4, <3>1 DEF Answer
    <3>2. CASE Afterwards(p) # "idle"
      <4>1. job'[p] = [job[p] EXCEPT !.step = Afterwards(p), !.wrote = Reached(p).version] /\ event' = Reached(p)
        BY <1>0, <2>4, <3>2 DEF Answer
      <4>2. job'[p].step = Afterwards(p) /\ job'[p].slot = job[p].slot /\ job'[p].wrote = event'.version
        BY <1>0, <4>1 DEF Jobs
      <4>3. QED  BY <2>4, <3>2, <4>2
    <3>3. QED  BY <3>1, <3>2
  <2>5. CASE q = p /\ (Unlink(p) \/ Mark(p) \/ Fail(p))
    BY <2>5, Ended DEF Unlink, Mark, Fail
  <2>6. CASE q = p /\ (Apply(p) \/ Backfill(p) \/ Repush(p) \/ RepairDone(p) \/ \E f \in failed : Retry(p, f))
    <3>1. UNCHANGED job \/ \E s, w : Push(p, s, w)
      BY <2>6 DEF Apply, Backfill, Repush, RepairDone, Retry
    <3>2. QED  BY <1>2, <3>1
  <2>7. QED  BY <1>4, <2>1, <2>2, <2>3, <2>4, <2>5, <2>6 DEF Work
<1>5. QED
  BY <1>3, <1>4 DEF Next, vars, Gesture, Create, Change, Delete, Type, Server, Hydrate,
     ImportRead, ImportWrite, Dismiss

\* What an operation knows of the times.
LEMMA OpTimes ==
  ASSUME Inv, [Next]_vars, op' # None
  PROVE  \/ /\ Gesture
            /\ \/ op'.pushed = 0 /\ op'.synced = 0
               \/ row # None /\ op'.pushed = anchor /\ op'.synced = row.synced
         \/ /\ Hydrate /\ op # None
            /\ \/ op'.pushed = op.pushed /\ op'.synced = op.synced
               \/ row # None /\ op'.pushed = row.pushed /\ op'.synced = row.synced
         \/ op # None /\ op'.pushed = op.pushed /\ op'.synced = op.synced
<1>1. CASE Gesture
  <2> DEFINE made(c, k, r, s, t) ==
             [state |-> [removes |-> r, status |-> s, content |-> t, link |-> k],
              create |-> c, knows |-> k, read |-> FALSE, late |-> FALSE,
              pushed |-> IF k THEN anchor ELSE 0, synced |-> IF k THEN row.synced ELSE 0]
  <2>1. \E c, k, r, s, t : op' = made(c, k, r, s, t) /\ (k => row # None)
    <3>1. CASE Create
      BY <3>1 DEF Create, Made
    <3>2. CASE Delete
      BY <3>2 DEF Delete, Made
    <3>3. ASSUME NEW s, NEW t, NEW k, Change(s, t, k)
          PROVE  op' = made(FALSE, k, FALSE, s, t) /\ row # None
      BY <3>3 DEF Change, Made
    <3>4. QED  BY <1>1, <3>1, <3>2, <3>3 DEF Gesture
  <2> PICK c, k, r, s, t : op' = made(c, k, r, s, t) /\ (k => row # None)
    BY <2>1
  <2>2. op'.pushed = (IF k THEN anchor ELSE 0) /\ op'.synced = (IF k THEN row.synced ELSE 0)
    OBVIOUS
  <2>3. QED  BY <1>1, <2>2
<1>2. CASE Hydrate
  <2>1. op \in Ops /\ op.state \in States
    BY <1>2, OpTypes DEF Hydrate
  <2>2. CASE row = None
    <3>1. op' = [op EXCEPT !.read = TRUE]
      BY <1>2, <2>2 DEF Hydrate
    <3>2. QED  BY <1>2, <2>1, <3>1, NoneAssumption DEF Ops
  <2>3. CASE row # None /\ (op.state.removes \/ op.state.status = "off")
    <3> DEFINE s == [op.state EXCEPT !.link = row.link /\ (op.state.removes \/ row.status = "calendar")]
    <3>1. op' = [op EXCEPT !.read = TRUE, !.state = s]
      BY <1>2, <2>3 DEF Hydrate
    <3> HIDE DEF s
    <3>2. op'.pushed = op.pushed /\ op'.synced = op.synced
      BY <2>1, <3>1 DEF Ops
    <3>3. QED  BY <1>2, <3>2 DEF Hydrate
  <2>4. CASE row # None /\ ~(op.state.removes \/ op.state.status = "off")
    <3> DEFINE s == [op.state EXCEPT !.link = op.state.link \/ row.link]
               a == IF Unfilled(op) THEN op.pushed ELSE row.pushed
               b == IF Unfilled(op) THEN op.synced ELSE row.synced
    <3>1. op' = [op EXCEPT !.read = TRUE, !.state = s, !.pushed = a, !.synced = b]
      BY <1>2, <2>4 DEF Hydrate
    <3> HIDE DEF s, a, b
    <3>2. op'.pushed = a /\ op'.synced = b
      BY <2>1, <3>1 DEF Ops
    <3>3. QED  BY <1>2, <2>4, <3>2 DEF Hydrate, a, b
  <2>5. QED  BY <2>2, <2>3, <2>4
<1>3. CASE ~Gesture /\ ~Hydrate
  <2>1. UNCHANGED op \/ (op # None /\ op' = [op EXCEPT !.late = TRUE]) \/ (op # None /\ op' = [op EXCEPT !.read = FALSE])
    <3>1. ASSUME NEW p \in Pushes, Work(p)
          PROVE  UNCHANGED op \/ (op # None /\ op' = [op EXCEPT !.late = TRUE])
      BY <3>1 DEF Work, Apply, Check, Stamp, Unlink, Mark, Answer, Fail, Backfill, Repush, RepairDone,
         Retry, Outdates, Late
    <3>2. ImportWrite => UNCHANGED op \/ (op # None /\ op' = [op EXCEPT !.late = TRUE])
      BY DEF ImportWrite, Outdates, Late
    <3>3. CASE Type \/ UNCHANGED vars \/ (\E f \in failed : Dismiss(f)) \/ ImportRead
      BY <3>3 DEF Type, vars, Dismiss, ImportRead
    <3>4. Crash => UNCHANGED op \/ (op # None /\ op' = [op EXCEPT !.read = FALSE])
      BY DEF Crash
    <3>5. QED  BY <1>3, <3>1, <3>2, <3>3, <3>4 DEF Next, Server
  <2>2. op # None => op \in Ops
    BY OpTypes
  <2>3. QED  BY <2>1, <2>2, NoneAssumption DEF Ops
<1>4. QED  BY <1>1, <1>2, <1>3

\* What Google makes of a push, beyond ReachedIs.
LEMMA ReachedTimes ==
  ASSUME Inv, NEW p \in Pushes, job[p].step \in Calls
  PROVE  \/ Reached(p) = event /\ (At(p, "insert") \/ event.status # "live")
         \/ /\ Reached(p).version = event.version + 1 /\ Reached(p).typed = FALSE
            /\ \/ At(p, "insert") /\ event.status = "none" /\ Reached(p).status = "live" /\ Reached(p).marked = FALSE
               \/ /\ At(p, "write") /\ event.status = "live" /\ job[p].state.status # "trash"
                  /\ Reached(p).status = "live" /\ Reached(p).content = job[p].state.content
                  /\ Reached(p).marked = (job[p].state.status = "done")
               \/ /\ event.status = "live" /\ Reached(p).status = "gone"
                  /\ \/ At(p, "write") /\ job[p].state.status = "trash"
                     \/ job[p].step \in {"remove", "takeBack"}
<1>1. event \in Events
  BY Parts DEF RestFine
<1>2. Gone.status = "gone" /\ Gone.version = event.version + 1 /\ Gone.typed = FALSE
  <2>1. Gone = [event EXCEPT !.status = "gone", !.version = event.version + 1, !.typed = FALSE]
    BY DEF Gone
  <2>2. QED  BY <1>1, <2>1 DEF Events
<1> DEFINE g == Gone
<1> HIDE DEF g
<1>3. g.status = "gone" /\ g.version = event.version + 1 /\ g.typed = FALSE
  BY <1>2 DEF g
<1>4. CASE At(p, "insert")
  BY <1>4 DEF Reached, Live
<1>5. CASE ~At(p, "insert") /\ event.status # "live"
  BY <1>5 DEF Reached
<1>6. CASE ~At(p, "insert") /\ event.status = "live" /\ At(p, "write") /\ job[p].state.status # "trash"
  <2>1. Reached(p) = Live(job[p].state.content, job[p].state.status = "done")
    BY <1>6 DEF Reached
  <2>2. \A c, m : LET e == Live(c, m)
                  IN  e.status = "live" /\ e.content = c /\ e.marked = m
                      /\ e.version = event.version + 1 /\ e.typed = FALSE
    BY DEF Live
  <2> DEFINE c == job[p].state.content
             m == job[p].state.status = "done"
  <2>3. Reached(p) = Live(c, m)
    BY <2>1
  <2> HIDE DEF c, m
  <2>4. Reached(p).status = "live" /\ Reached(p).content = c /\ Reached(p).marked = m
        /\ Reached(p).version = event.version + 1 /\ Reached(p).typed = FALSE
    BY <2>2, <2>3
  <2>5. QED  BY <1>6, <2>4 DEF c, m
<1>7. CASE ~At(p, "insert") /\ event.status = "live" /\ ~(At(p, "write") /\ job[p].state.status # "trash")
  <2>1. Reached(p) = g
    BY <1>7 DEF Reached, g
  <2>2. job[p].step \in {"remove", "takeBack"} \/ (At(p, "write") /\ job[p].state.status = "trash")
    BY <1>7 DEF Calls, At
  <2>3. QED  BY <1>3, <1>7, <2>1, <2>2
<1>8. QED  BY <1>4, <1>5, <1>6, <1>7

\* What Google's user does.
LEMMA TypeTimes ==
  ASSUME Inv, Apart, Type
  PROVE  /\ event.status = "live" /\ Linked /\ ~InFlight
         /\ event'.version = event.version + 1 /\ event'.typed /\ event'.marked = event.marked
         /\ event'.status = "live" \/ (event'.status = "gone" /\ event'.content = event.content)
         /\ UNCHANGED <<row, op, job, failed, import, listed, anchor, twin>>
         /\ count'["faults"] = count["faults"]
<1>1. event \in Events /\ count \in [{"gestures", "typed", "faults"} -> Nat]
  BY Parts DEF RestFine
<1>2. count'["faults"] = count["faults"] /\ event.status = "live" /\ Linked /\ ~InFlight
      /\ UNCHANGED <<row, op, job, failed, import, listed, anchor, twin>>
  BY <1>1, ApartIs DEF Type, Counted
<1>3. CASE event' = [event EXCEPT !.content = NextContent, !.version = @ + 1, !.typed = TRUE]
  <2> DEFINE c == NextContent
             v == event.version + 1
  <2>1. event' = [event EXCEPT !.content = c, !.version = v, !.typed = TRUE]
    BY <1>3
  <2> HIDE DEF c, v
  <2>2. event'.version = v /\ event'.typed /\ event'.marked = event.marked /\ event'.status = event.status
    BY <1>1, <2>1 DEF Events
  <2>3. QED  BY <1>2, <2>2 DEF v
<1>4. CASE event' = [Gone EXCEPT !.typed = TRUE]
  <2>1. Gone = [event EXCEPT !.status = "gone", !.version = event.version + 1, !.typed = FALSE]
    BY DEF Gone
  <2>2. event'.status = "gone" /\ event'.version = event.version + 1 /\ event'.typed
        /\ event'.marked = event.marked /\ event'.content = event.content
    BY <1>1, <1>4, <2>1 DEF Events
  <2>3. QED  BY <1>2, <2>2
<1>5. QED  BY <1>2, <1>3, <1>4 DEF Type

\* What a sync makes of the row, by what the row and the event are.
ImportTo(e) ==
  \/ /\ Linked /\ e.status = "gone"
     /\ row' # None /\ row'.link /\ row'.status = "trash" /\ row'.content = row.content
     /\ row'.pushed = row.pushed /\ row'.synced = row.synced
  \/ /\ Linked /\ e.status = "live" /\ row.status = "trash"
     /\ row' # None /\ row'.link /\ row'.status \in {"calendar", "done"} /\ row'.content = e.content
     /\ row'.pushed = row.pushed /\ row'.synced = e.version /\ row'.fresh
  \/ /\ Linked /\ e.status = "live" /\ row.status # "trash" /\ row.content # e.content
     /\ row' # None /\ row'.link /\ row'.status = row.status /\ row'.content = e.content
     /\ row'.pushed = row.pushed /\ row'.synced = e.version /\ row'.fresh
  \/ /\ row # None /\ e.status = "live" /\ row.content = e.content
     /\ (Linked /\ row.status # "trash") \/ (~Linked /\ row.status \in {"calendar", "done"})
     /\ row' # None /\ row'.link /\ row'.status = row.status /\ row'.content = row.content
     /\ row'.pushed = row.pushed /\ row'.synced = e.version
     /\ Linked => row'.fresh = (row.fresh /\ ~Agrees(row, e))
     /\ ~Linked => row'.fresh = ~Agrees(row, e)
  \/ /\ ~Linked /\ UNCHANGED row
     /\ e.status = "live" => ~Naked(row, e)

LEMMA Importing ==
  ASSUME Inv, ImportInv, ImportWrite, row # None => row.synced < import.event.version,
         Linked => import.event.status # "none"
  PROVE  ImportTo(import.event)
<1> DEFINE e == import.event
<1>1. row' = Upserted(row, row, e) /\ import # None
  BY DEF ImportWrite, ImportInv
<1>2. e \in Events /\ e.version \in Nat
  BY <1>1, Numbers
<1>3. row # None => row \in Rows /\ row.synced < e.version /\ row.synced \in Nat
  BY RowTypes, Numbers
<1>4. Linked => e.status \in {"live", "gone"}
  BY <1>2 DEF Events
<1> HIDE DEF e
<1>5. CASE Linked /\ e.status = "gone"
  <2>1. row # None /\ row' = Trashed(row, row)
    BY <1>1, <1>5 DEF Upserted, Linked
  <2>2. CASE row.status = "trash"
    BY <1>5, <2>1, <2>2 DEF Trashed, Linked, ImportTo, e
  <2>3. CASE row.status # "trash"
    <3> DEFINE t == [row EXCEPT !.status = "trash", !.fresh = TRUE]
    <3>1. row' = t
      BY <2>1, <2>3 DEF Trashed
    <3>2. t \in Rows /\ t.status = "trash" /\ t.link = row.link /\ t.content = row.content
          /\ t.pushed = row.pushed /\ t.synced = row.synced
      BY <1>3, <2>1 DEF Rows, Statuses
    <3> HIDE DEF t
    <3>3. QED  BY <1>5, <3>1, <3>2, NoneAssumption DEF Linked, ImportTo, e
  <2>4. QED  BY <2>2, <2>3
<1>6. CASE Linked /\ e.status = "live" /\ row.status = "trash"
  <2> DEFINE s == IF e.marked /\ row.content = e.content THEN "done" ELSE "calendar"
             t == [row EXCEPT !.status = s, !.content = e.content, !.synced = e.version, !.fresh = TRUE]
  <2>1. row' = t
    BY <1>1, <1>6 DEF Upserted, Linked, Revived
  <2>2. s \in Statuses /\ s \in {"calendar", "done"}
    BY DEF Statuses
  <2> HIDE DEF s
  <2>3. t \in Rows /\ t.status = s /\ t.link = row.link /\ t.content = e.content
        /\ t.pushed = row.pushed /\ t.synced = e.version /\ t.fresh
    BY <1>2, <1>3, <1>6, <2>2 DEF Linked, Rows, Events
  <2> HIDE DEF t
  <2>4. QED  BY <1>6, <2>1, <2>2, <2>3, NoneAssumption DEF Linked, ImportTo, e
<1>7. CASE Linked /\ e.status = "live" /\ row.status # "trash" /\ row.content # e.content
  <2> DEFINE t == [row EXCEPT !.content = e.content, !.synced = e.version, !.fresh = TRUE]
  <2>1. row \in Rows /\ ~(e.version <= row.synced)
    BY <1>2, <1>3, <1>7 DEF Linked
  <2>2. row' = t
    BY <1>1, <1>7, <2>1 DEF Upserted, Linked, Merged
  <2>3. t \in Rows /\ t.status = row.status /\ t.link = row.link /\ t.content = e.content
        /\ t.pushed = row.pushed /\ t.synced = e.version /\ t.fresh
    BY <1>2, <2>1 DEF Rows, Events
  <2> HIDE DEF t
  <2>4. QED  BY <1>7, <2>2, <2>3, NoneAssumption DEF Linked, ImportTo, e
<1>8. CASE Linked /\ e.status = "live" /\ row.status # "trash" /\ row.content = e.content
  <2> DEFINE f == row.fresh /\ ~Agrees(row, e)
             t == [row EXCEPT !.synced = e.version, !.fresh = f]
  <2>1. row # None /\ row \in Rows /\ ~(e.version <= row.synced)
    BY <1>2, <1>3, <1>8 DEF Linked
  <2>2. row' = t
    BY <1>1, <1>8, <2>1 DEF Upserted, Linked, Merged
  <2>3. f \in BOOLEAN /\ f = (row.fresh /\ ~Agrees(row, e))
    BY <2>1 DEF Rows
  <2> HIDE DEF f
  <2>4. t \in Rows /\ t.status = row.status /\ t.link = row.link /\ t.content = row.content
        /\ t.pushed = row.pushed /\ t.synced = e.version /\ t.fresh = f
    BY <1>2, <2>1, <2>3 DEF Rows, Events
  <2> HIDE DEF t
  <2>5. QED  BY <1>8, <2>1, <2>2, <2>3, <2>4, NoneAssumption DEF Linked, ImportTo, e
<1>9. CASE ~Linked /\ e.status = "live" /\ Naked(row, e)
  <2> DEFINE l == [row EXCEPT !.link = TRUE, !.fresh = TRUE]
  <2>1. row # None /\ row \in Rows /\ row.status \in {"calendar", "done"} /\ row.content = e.content
    BY <1>3, <1>9 DEF Naked
  <2>2. l \in Rows /\ l.status = row.status /\ l.link /\ l.content = row.content
        /\ l.pushed = row.pushed /\ l.synced = row.synced /\ l.fresh
    BY <2>1 DEF Rows
  <2>3. row' = Merged(l, l, e)
    BY <1>1, <1>9 DEF Upserted, Linked
  <2> HIDE DEF l
  <2>4. l # None /\ ~(e.version <= l.synced) /\ Agrees(l, e) = Agrees(row, e)
    BY <1>2, <1>3, <2>1, <2>2, NoneAssumption DEF Agrees
  <2> DEFINE f == l.fresh /\ ~Agrees(l, e)
             t == [l EXCEPT !.synced = e.version, !.fresh = f]
  <2>5. row' = t
    BY <2>1, <2>2, <2>3, <2>4 DEF Merged
  <2>6. f \in BOOLEAN /\ f = ~Agrees(row, e)
    BY <2>2, <2>4
  <2> HIDE DEF f
  <2>7. t \in Rows /\ t.status = l.status /\ t.link = l.link /\ t.content = l.content
        /\ t.pushed = l.pushed /\ t.synced = e.version /\ t.fresh = f
    BY <1>2, <2>2, <2>6 DEF Rows, Events
  <2> HIDE DEF t
  <2>8. QED  BY <1>9, <2>1, <2>2, <2>5, <2>6, <2>7, NoneAssumption DEF ImportTo, e
<1>10. CASE ~Linked /\ ~(e.status = "live" /\ Naked(row, e))
  <2>1. row' = row
    BY <1>1, <1>10 DEF Upserted, Linked
  <2>2. QED  BY <1>10, <2>1 DEF ImportTo, e
<1>11. QED  BY <1>4, <1>5, <1>6, <1>7, <1>8, <1>9, <1>10

-----------------------------------------------------------------------------
(* No steps race: the pushes tell what the row says *)

Good == Inv /\ LinkInv /\ EventInv /\ InStepInv

\* An event without a linked item, the item being on the calendar or in the trash,
\* has never been linked.
LEMMA NotDetached ==
  ASSUME Good, event.status = "live", ~Linked, row # None, row.status # "off"
  PROVE  ToBeLinked /\ NeverLinked /\ ~event.typed /\ ~event.marked /\ listed # event.version
<1>1. ToBeLinked
  BY DEF Good, EventInv, UnlinkedInv, Detached
<1>2. QED  BY <1>1 DEF ToBeLinked, Good, InStepInv, UnseenInv

\* A change of a linked item is applied with no push at work.
LEMMA WinsFree ==
  ASSUME Good, Apart, NEW p \in Pushes, Wins(p), Linked
  PROVE  \A q \in Pushes : Free(q)
<1>1. op.state.link \/ ~(op.state.removes \/ op.state.status = "off")
  BY DEF Good, EventInv, ReadInv, Wins, Linked
<1>2. op.state.link
  BY <1>1 DEF Good, LinkInv, CarryInv, Wins
<1>3. FirstStep(op.state) \in {"write", "remove"}
  BY <1>2 DEF FirstStep
<1>4. QED  BY <1>3, WinTimes DEF Good

\* What it leaves linked is written as it is.
LEMMA WinsWrite ==
  ASSUME Good, Apart, NEW p \in Pushes, Wins(p), row' # None, row'.link
  PROVE  /\ Linked /\ ~op.state.removes /\ op.state.status # "off"
         /\ job'[p].step = "write" /\ job'[p].of = job'[p].state /\ job'[p].state = StateOf(row')
         /\ row'.status # "off" /\ row'.pushed = op.pushed /\ row'.synced = op.synced
<1>1. ~op.state.removes /\ op.state.link /\ op.state.status # "off" /\ op # None /\ ~op.late
      /\ row'.status = op.state.status /\ row'.content = op.state.content /\ row'.link = op.state.link
  BY OpTypes DEF Wins, Good
<1>2. Linked
  BY <1>1 DEF Good, InStepInv, OpLinkInv
<1>3. op.state \in States /\ FirstStep(op.state) = "write"
  BY <1>1, OpTypes DEF FirstStep, Good
<1>4. job'[p].step = "write" /\ job'[p].of = op.state /\ job'[p].state = op.state
  BY <1>3, Pushed DEF Wins, Good
<1>5. op.state = StateOf(row')
  <2>1. PICK s : s = op.state
    OBVIOUS
  <2>2. s = [removes |-> FALSE, status |-> s.status, content |-> s.content, link |-> s.link]
    BY <1>1, <1>3, <2>1 DEF States
  <2>3. QED  BY <1>1, <2>1, <2>2 DEF StateOf
<1>6. row'.pushed = op.pushed /\ row'.synced = op.synced
  BY <1>1, WinTimes DEF Good
<1>7. QED  BY <1>1, <1>2, <1>4, <1>5, <1>6

\* What is taken off the calendar, or deleted, has its event removed.
LEMMA WinsRemove ==
  ASSUME Good, Apart, NEW p \in Pushes, Wins(p), Linked, row' = None \/ ~row'.link
  PROVE  job'[p].step = "remove" /\ (row' = None \/ row'.status = "off")
<1>1. op.state.removes \/ op.state.status = "off"
  <2>1. ASSUME ~op.state.removes, op.state.status # "off" PROVE FALSE
    <3>1. op.state.link
      BY <2>1 DEF Good, LinkInv, CarryInv, Wins, Linked
    <3>2. row' # None /\ row'.link
      BY <2>1, <3>1 DEF Wins
    <3>3. QED  BY <3>2
  <2>2. QED  BY <2>1
<1>2. op.state.link
  BY <1>1 DEF Good, EventInv, ReadInv, Wins, Linked
<1>3. FirstStep(op.state) = "remove" /\ op.state \in States
  BY <1>1, <1>2, OpTypes DEF FirstStep, Good, Wins
<1>4. job'[p].step = "remove"
  BY <1>3, Pushed DEF Wins, Good
<1>5. QED  BY <1>1, <1>4 DEF Wins

\* The row stays while a push of it is under way.
LEMMA RowHeld ==
  ASSUME Good, Apart, [Next]_vars, NEW p \in Pushes, job[p].step \in {"write", "mark"}
  PROVE  /\ row # None /\ row' # None /\ row'.status = row.status /\ row'.content = row.content
         /\ row.link /\ row'.link
<1>1. Linked /\ row.status # "off" /\ ~Free(p)
  BY DEF Good, InStepInv, TellInv, Free
<1>2. ~ImportWrite
  BY <1>1 DEF ImportWrite, Good, LinkInv, ImportInv
<1>3. \A q \in Pushes : ~Wins(q)
  BY <1>1, WinsFree
<1>4. ASSUME NEW q \in Pushes, Stamp(q) \/ RepairDone(q) \/ Unlink(q) PROVE FALSE
  <2>1. ~Stamp(q)
    BY <1>1 DEF Stamp, At, Good, InStepInv, TellInv
  <2>2. ~RepairDone(q)
    BY <1>1 DEF RepairDone, OrphanedDone, Linked
  <2>3. ~Unlink(q)
    BY <1>1 DEF Unlink, At, Good, LinkInv, TakeBackInv, Linked
  <2>4. QED  BY <1>4, <2>1, <2>2, <2>3
<1>5. UNCHANGED row \/ Touches
  BY <1>2, <1>3, RowMoves DEF Good
<1>6. QED  BY <1>1, <1>4, <1>5 DEF Touches, Linked

\* The link is set by a stamp, a repair, an import, with nothing else creating.
LEMMA NewLink ==
  ASSUME Good, Apart, [Next]_vars, ~Linked, row' # None, row'.link
  PROVE  \/ \E p \in Pushes : Stamp(p) /\ row # None
         \/ ImportWrite
         \/ \E p \in Pushes : RepairDone(p)
<1>1. \A q \in Pushes : ~Wins(q)
  BY WinsWrite
<1>2. QED  BY <1>1, RowMoves DEF Good, Touches, Linked

LEMMA NoneCreates ==
  ASSUME Good, Apart, [Next]_vars, ~Linked, row' # None, row'.link, NEW p \in Pushes
  PROVE  job'[p].step \notin {"insert", "stamp"}
<1>1. CASE ImportWrite
  BY <1>1, IdleJob DEF ImportWrite, Good, LinkInv, ImportInv, Free
<1>2. ASSUME NEW q \in Pushes, RepairDone(q) PROVE job'[p].step \notin {"insert", "stamp"}
  BY <1>2, RepairTimes DEF Good, Free
<1>3. ASSUME NEW q \in Pushes, Stamp(q), row # None PROVE job'[p].step \notin {"insert", "stamp"}
  <2>1. job[q].slot
    BY <1>3 DEF Stamp, At, Good, Inv, SlotInv, Slotted
  <2>2. CASE p # q
    <3>1. ~job[p].slot
      BY <2>1, <2>2, Parts DEF Good, JobsFine
    <3>2. job'[p] = job[p]
      BY <1>3, <2>2, StampEffect DEF Good
    <3>3. QED  BY <3>1, <3>2 DEF Good, Inv, SlotInv, Slotted
  <2>3. CASE p = q
    <3>1. PICK r : r = row'
      OBVIOUS
    <3>2. r \in Rows /\ job'[p] = FollowUp(p, r) /\ job[p] \in Jobs
      BY <1>3, <2>3, <3>1, StampEffect, JobTypes DEF Good
    <3>3. QED  BY <3>2, Following
  <2>4. QED  BY <2>2, <2>3
<1>4. QED  BY <1>1, <1>2, <1>3, NewLink

\* A retried write finds the row it was made of.
LEMMA RetryFinds ==
  ASSUME Good, Apart, NEW p \in Pushes, NEW f \in failed, Retry(p, f), FirstStep(f) = "write"
  PROVE  Linked /\ f = StateOf(row) /\ row.status # "off"
<1>1. f \in States /\ f \in Said
  BY Parts, FailedSaid DEF Good, RestFine
<1>2. f.link /\ ~f.removes /\ f.status # "off"
  BY <1>1, FirstOf DEF States
<1>3. row # None /\ ~MovedOn(f, row)
  BY <1>2, ApartIs DEF Retry, Still
<1>4. event.status # "none" /\ ~NeverLinked
  BY <1>1, <1>2 DEF NeverLinked, Good, EventInv, KnownInv
<1>5. row.status # "off" /\ row.status = f.status /\ row.content = f.content
  BY <1>2, <1>3 DEF MovedOn
<1>6. Linked
  <2>1. SUFFICES ASSUME ~Linked PROVE FALSE
    OBVIOUS
  <2>2. event.status # "live"
    BY <1>3, <1>4, <1>5, <2>1, NotDetached
  <2>3. event.status = "gone"
    BY <1>4, <2>2, EventStatuses DEF Good
  <2>4. QED  BY <1>3, <1>5, <2>1, <2>3 DEF Good, InStepInv, GoneInv
<1>7. f = StateOf(row)
  BY <1>1, <1>2, <1>5, <1>6 DEF States, StateOf, Linked
<1>8. QED  BY <1>5, <1>6, <1>7

\* What a create goes on to is what the row has come to say meanwhile.
LEMMA FollowsMove ==
  ASSUME Inv, NEW p \in Pushes, Check(p) \/ Stamp(p), job'[p].step \in {"write", "takeBack"}
  PROVE  MovedOn(job[p].of, row')
<1>0. job \in [Pushes -> Jobs] /\ job[p] \in Jobs
  BY JobTypes, Parts DEF JobsFine
<1>1. ASSUME NEW r, job'[p] = FollowUp(p, r) PROVE MovedOn(job[p].of, r)
  BY <1>1, IdleJob DEF FollowUp
<1>2. CASE Check(p)
  <2>1. CASE InFlight
    BY <1>0, <1>2, <2>1, IdleJob DEF Check
  <2>2. CASE ~InFlight /\ Linked
    BY <1>0, <1>1, <1>2, <2>2 DEF Check
  <2>3. CASE ~InFlight /\ ~Linked
    <3>1. job'[p] = [job[p] EXCEPT !.step = "insert", !.slot = TRUE]
      BY <1>0, <1>2, <2>3 DEF Check
    <3>2. job'[p].step = "insert"
      BY <1>0, <3>1 DEF Jobs
    <3>3. QED  BY <3>2
  <2>4. QED  BY <2>1, <2>2, <2>3
<1>3. CASE Stamp(p)
  <2>1. CASE row = None
    BY <1>3, <2>1, Ended, IdleJob DEF Stamp
  <2>2. CASE row # None
    <3>1. PICK r : r = row'
      OBVIOUS
    <3>2. job'[p] = FollowUp(p, r)
      BY <1>3, <2>2, <3>1, StampEffect
    <3>3. QED  BY <1>1, <3>1, <3>2 DEF MovedOn
  <2>3. QED  BY <2>1, <2>2
<1>4. QED  BY <1>2, <1>3

\* What a push does after the answer was asked for by its step.
LEMMA AfterwardsIs ==
  ASSUME NEW p \in Pushes, job[p].step \in Calls, Afterwards(p) # "idle"
  PROVE  \/ At(p, "insert") /\ Afterwards(p) = "stamp"
         \/ At(p, "write") /\ Afterwards(p) = "mark" /\ event.status = "live"
         \/ At(p, "takeBack") /\ Afterwards(p) = "unlink" /\ event.status = "live"
BY DEF Afterwards, Calls, At

LEMMA TellStays ==
  ASSUME Good, Apart, [Next]_vars
  PROVE  TellInv'
<1> SUFFICES ASSUME NEW p \in Pushes
      PROVE  /\ job'[p].slot => job'[p].step \notin {"idle", "create", "remove"}
             /\ job'[p].step \in {"write", "mark"} =>
                  row' # None /\ row'.link /\ job'[p].state = StateOf(row') /\ row'.status # "off"
             /\ job'[p].step \in {"insert", "stamp"} => ~(row' # None /\ row'.link)
             /\ job'[p].step \in {"create", "insert", "stamp", "takeBack"} => FirstStep(job'[p].of) = "create"
             /\ job'[p].step = "write" => \/ job'[p].of = job'[p].state
                                          \/ FirstStep(job'[p].of) = "create" /\ MovedOn(job'[p].of, row')
             /\ job'[p].step \in {"stamp", "mark"} => job'[p].wrote > 0
  BY DEF TellInv, At, Linked
<1>0. /\ Inv /\ Advances(p)
      /\ job[p].slot => job[p].step \notin {"idle", "create", "remove"}
      /\ job[p].step \in {"write", "mark"} => Linked /\ job[p].state = StateOf(row) /\ row.status # "off"
      /\ job[p].step \in {"insert", "stamp"} => ~Linked
      /\ job[p].step \in {"create", "insert", "stamp", "takeBack"} => FirstStep(job[p].of) = "create"
      /\ At(p, "write") => \/ job[p].of = job[p].state
                           \/ FirstStep(job[p].of) = "create" /\ MovedOn(job[p].of, row)
      /\ job[p].step \in {"stamp", "mark"} => job[p].wrote > 0
  BY JobSteps DEF Good, InStepInv, TellInv
<1>1. /\ job'[p].slot => job'[p].step \notin {"idle", "create", "remove"}
      /\ job'[p].step \in {"stamp", "mark"} => job'[p].wrote > 0
  <2>1. CASE job'[p] = job[p]
    BY <1>0, <2>1
  <2>2. ASSUME Answer(p), Afterwards(p) # "idle", job'[p].step = Afterwards(p), job'[p].wrote = event'.version
        PROVE  /\ job'[p].slot => job'[p].step \notin {"idle", "create", "remove"}
               /\ job'[p].step \in {"stamp", "mark"} => job'[p].wrote > 0
    <3>1. event' = Reached(p) /\ job[p].step \in Calls
      BY <2>2 DEF Answer
    <3>2. event'.version > 0 \/ At(p, "takeBack")
      <4>1. event.status # "none" => event.version > 0
        BY DEF Good, InStepInv, UnseenInv
      <4>2. CASE Reached(p) = event
        <5>1. At(p, "insert") => event.status # "none"
          BY <1>0, <4>2, <3>1, ReachedIs
        <5>2. QED  BY <2>2, <3>1, <4>1, <4>2, <5>1, AfterwardsIs
      <4>3. CASE Reached(p).version = event.version + 1
        BY <1>0, <3>1, <4>3, Numbers
      <4>4. QED  BY <1>0, <3>1, <4>2, <4>3, ReachedTimes
    <3>3. QED  BY <2>2, <3>1, <3>2, AfterwardsIs DEF At
  <2>3. QED  BY <1>0, <2>1, <2>2, JobFields, IdleJob
<1>2. CASE job'[p] = job[p]
  <2>1. job[p].step \in {"write", "mark"} =>
          /\ row' # None /\ row'.link /\ StateOf(row') = StateOf(row) /\ row'.status # "off"
          /\ MovedOn(job[p].of, row') = MovedOn(job[p].of, row)
    BY <1>0, RowHeld DEF StateOf, MovedOn, Linked
  <2>2. job[p].step \in {"insert", "stamp"} => ~(row' # None /\ row'.link)
    BY <1>0, <1>2, NoneCreates
  <2>3. QED  BY <1>0, <1>1, <1>2, <2>1, <2>2 DEF At
<1>3. CASE job'[p] = Idle
  BY <1>1, <1>3, IdleJob
<1>4. CASE \E s \in States : /\ Asks(p, s) /\ FirstStep(s) # "idle"
                             /\ job'[p].of = s /\ job'[p].state = s /\ job'[p].step = FirstStep(s)
  <2>1. PICK s \in States : /\ Asks(p, s) /\ FirstStep(s) # "idle"
                            /\ job'[p].of = s /\ job'[p].state = s /\ job'[p].step = FirstStep(s)
    BY <1>4
  <2>2. s.link \in BOOLEAN
    BY DEF States
  <2>3. ASSUME FirstStep(s) = "write"
        PROVE  row' # None /\ row'.link /\ s = StateOf(row') /\ row'.status # "off"
    <3>1. s.link /\ ~s.removes /\ s.status # "off"
      BY <2>1, <2>2, <2>3, FirstOf
    <3>2. CASE Apply(p) /\ op # None /\ s = op.state /\ ~(row = None /\ ~op.create) /\ (op.state.removes \/ ~op.late)
      <4>1. Wins(p)
        BY <1>0, <3>1, <3>2, Applying
      <4>2. row' # None /\ row'.link
        BY <3>1, <3>2, <4>1 DEF Wins
      <4>3. QED  BY <2>1, <4>1, <4>2, WinsWrite
    <3>3. CASE (Backfill(p) \/ Repush(p)) /\ row # None /\ s = StateOf(row)
      BY <3>1, <3>3 DEF Backfill, Repush, StateOf
    <3>4. CASE RepairDone(p)
      BY <1>0, <2>1, <3>4, RepairTimes
    <3>5. CASE s \in failed /\ Retry(p, s)
      <4>1. Linked /\ s = StateOf(row) /\ row.status # "off"
        BY <2>3, <3>5, RetryFinds
      <4>2. UNCHANGED row
        BY <3>5 DEF Retry
      <4>3. QED  BY <4>1, <4>2 DEF Linked
    <3>6. QED  BY <2>1, <3>2, <3>3, <3>4, <3>5 DEF Asks
  <2>4. QED  BY <1>1, <2>1, <2>2, <2>3, FirstOf
<1>5. CASE job'[p].of = job[p].of /\ Check(p) /\ ~Linked /\ job'[p].step = "insert"
  BY <1>0, <1>1, <1>5 DEF Check, At, Linked
<1>6. CASE job'[p].of = job[p].of /\ Check(p) /\ Linked /\ GoesOn(p, row)
  <2>1. UNCHANGED row /\ job[p].step = "create" /\ row # None /\ row.link
    BY <1>6 DEF Check, At, Linked
  <2>2. /\ job'[p].step = (IF row'.status = "off" THEN "takeBack" ELSE "write")
        /\ job'[p].state = StateOf(row')
    BY <1>6, <2>1 DEF GoesOn
  <2>3. MovedOn(job[p].of, row')
    BY <1>0, <1>6, <2>2, FollowsMove
  <2>4. QED  BY <1>0, <1>1, <1>6, <2>1, <2>2, <2>3
<1>7. CASE job'[p].of = job[p].of /\ Stamp(p) /\ row' # None /\ row'.link /\ GoesOn(p, row')
  <2>1. /\ job'[p].step = (IF row'.status = "off" THEN "takeBack" ELSE "write")
        /\ job'[p].state = StateOf(row') /\ job[p].step = "stamp"
    BY <1>7 DEF GoesOn, Stamp, At
  <2>2. MovedOn(job[p].of, row')
    BY <1>0, <1>7, <2>1, FollowsMove
  <2>3. QED  BY <1>0, <1>1, <1>7, <2>1, <2>2
<1>8. CASE /\ job'[p].of = job[p].of /\ Answer(p) /\ Afterwards(p) # "idle"
           /\ job'[p].step = Afterwards(p) /\ job'[p].state = job[p].state
  <2>1. UNCHANGED row /\ job[p].step \in Calls
    BY <1>8 DEF Answer
  <2>2. QED  BY <1>0, <1>1, <1>8, <2>1, AfterwardsIs DEF At, Linked
<1>9. QED  BY <1>0, <1>2, <1>3, <1>4, <1>5, <1>6, <1>7, <1>8 DEF Advances

-----------------------------------------------------------------------------
(* Which steps move what *)

LEMMA RowCases ==
  ASSUME Inv, [Next]_vars
  PROVE  \/ UNCHANGED row
         \/ \E p \in Pushes : Stamp(p) /\ row # None
         \/ \E p \in Pushes : Unlink(p) /\ row # None
         \/ \E p \in Pushes : Mark(p) /\ row # None
         \/ \E p \in Pushes : RepairDone(p)
         \/ ImportWrite
         \/ \E p \in Pushes : Wins(p)
<1>1. ASSUME NEW p \in Pushes, Work(p)
      PROVE  \/ UNCHANGED row
             \/ (Stamp(p) \/ Unlink(p) \/ Mark(p)) /\ row # None
             \/ RepairDone(p) \/ Wins(p)
  <2>1. Apply(p) => UNCHANGED row \/ Wins(p)
    BY Applying
  <2>2. QED  BY <1>1, <2>1 DEF Work, Check, Stamp, Unlink, Mark, Answer, Fail, Backfill, Repush, Retry
<1>2. QED
  BY <1>1 DEF Next, vars, Gesture, Create, Change, Delete, Type, Server, Hydrate, ImportRead, Crash, Dismiss

LEMMA ListedSteps ==
  ASSUME [Next]_vars
  PROVE  \/ UNCHANGED listed
         \/ ImportRead /\ Linked /\ row.pushed = event.version /\ listed' = event.version
         \/ ImportWrite /\ listed' = import.event.version
<1>1. ASSUME NEW p \in Pushes, Work(p) PROVE UNCHANGED listed
  BY <1>1 DEF Work, Apply, Check, Stamp, Unlink, Mark, Answer, Fail, Backfill, Repush, RepairDone, Retry
<1>2. QED
  BY <1>1 DEF Next, vars, Gesture, Create, Change, Delete, Type, Server, Hydrate, ImportRead, ImportWrite,
     Crash, Dismiss, OwnEcho

LEMMA AnchorSteps ==
  ASSUME [Next]_vars
  PROVE  \/ UNCHANGED anchor
         \/ \E p \in Pushes : Stamp(p) /\ row # None
         \/ \E p \in Pushes : RepairDone(p)
         \/ ImportWrite /\ row' # None /\ anchor' = row'.pushed
<1>1. ASSUME NEW p \in Pushes, Work(p) PROVE UNCHANGED anchor \/ (Stamp(p) /\ row # None) \/ RepairDone(p)
  BY <1>1 DEF Work, Apply, Check, Stamp, Unlink, Mark, Answer, Fail, Backfill, Repush, Retry
<1>2. QED
  BY <1>1 DEF Next, vars, Gesture, Create, Change, Delete, Type, Server, Hydrate, ImportRead, ImportWrite,
     Crash, Dismiss

\* A failure is counted; only a failure adds an issue.
LEMMA FaultsCount ==
  ASSUME Inv, [Next]_vars
  PROVE  /\ count["faults"] \in Nat /\ count'["faults"] \in Nat
         /\ \/ count'["faults"] = count["faults"] /\ failed' \subseteq failed
            \/ /\ count'["faults"] > 0
               /\ (\E p \in Pushes : Fail(p)) \/ (Crash /\ UNCHANGED failed)
<1>0. count \in [{"gestures", "typed", "faults"} -> Nat]
  BY Parts DEF RestFine
<1>1. ASSUME Counted("faults", MaxFaults) PROVE count'["faults"] \in Nat /\ count'["faults"] > 0
  <2> DEFINE v == count["faults"] + 1
  <2>1. count' = [count EXCEPT !["faults"] = v]
    BY <1>1 DEF Counted
  <2>2. v \in Nat /\ v > 0
    BY <1>0
  <2> HIDE DEF v
  <2>3. QED  BY <1>0, <2>1, <2>2
<1>2. ASSUME NEW k \in {"gestures", "typed"}, NEW max, Counted(k, max) PROVE count'["faults"] = count["faults"]
  <2> DEFINE v == count[k] + 1
  <2>1. count' = [count EXCEPT ![k] = v]
    BY <1>2 DEF Counted
  <2> HIDE DEF v
  <2>2. QED  BY <1>0, <1>2, <2>1
<1>3. CASE \E p \in Pushes : Fail(p)
  BY <1>0, <1>1, <1>3 DEF Fail
<1>4. CASE Crash
  BY <1>0, <1>1, <1>4 DEF Crash
<1>5. CASE Gesture \/ Type
  <2>1. UNCHANGED failed
    BY <1>5 DEF Gesture, Create, Change, Delete, Type
  <2>2. Counted("gestures", MaxGestures) \/ Counted("typed", MaxTyped)
    BY <1>5 DEF Gesture, Create, Change, Delete, Type
  <2>3. QED  BY <1>0, <1>2, <2>1, <2>2
<1>6. ASSUME NEW p \in Pushes, Work(p), ~Fail(p) PROVE UNCHANGED count /\ failed' \subseteq failed
  BY <1>6 DEF Work, Apply, Check, Stamp, Unlink, Mark, Answer, Backfill, Repush, RepairDone, Retry
<1>7. CASE UNCHANGED vars \/ Hydrate \/ ImportRead \/ ImportWrite \/ \E f \in failed : Dismiss(f)
  BY <1>0, <1>7 DEF vars, Hydrate, ImportRead, ImportWrite, Dismiss
<1>8. QED  BY <1>0, <1>3, <1>4, <1>5, <1>6, <1>7 DEF Next, Server

\* A sync's version changes only while no push is at work.
LEMMA ListedHeld ==
  ASSUME Good, Apart, [Next]_vars, NEW p \in Pushes, ~Free(p)
  PROVE  UNCHANGED <<listed, anchor>> \/ (UNCHANGED listed /\ \E q \in Pushes : Stamp(q) /\ row # None)
<1>1. ~ImportRead
  BY ApartIs DEF ImportRead, Calm
<1>2. ~ImportWrite
  BY DEF ImportWrite, Good, LinkInv, ImportInv
<1>3. \A q \in Pushes : ~RepairDone(q)
  BY RepairTimes DEF Good
<1>4. QED  BY <1>1, <1>2, <1>3, ListedSteps, AnchorSteps

LEMMA EventVersions ==
  ASSUME Good, Apart, [Next]_vars
  PROVE  UNCHANGED event \/ (event'.version = event.version + 1 /\ listed' <= event.version)
<1>1. CASE Type
  BY <1>1, TypeTimes, Numbers DEF Good
<1>2. ASSUME NEW p \in Pushes, Answer(p) \/ Fail(p), job[p].step \in Calls, event' = Reached(p)
      PROVE  UNCHANGED event \/ (event'.version = event.version + 1 /\ UNCHANGED listed)
  BY <1>2, ReachedTimes DEF Good, Answer, Fail
<1>3. QED  BY <1>1, <1>2, EventSteps, Numbers DEF Good

\* A write that is answered makes the event say what the row says.
LEMMA WriteAgrees ==
  ASSUME Good, NEW p \in Pushes, At(p, "write"), Reached(p).status = "live", event.status = "live"
  PROVE  /\ Linked /\ OnCalendar /\ row.content = Reached(p).content
         /\ (row.status = "done") = Reached(p).marked
<1>1. Linked /\ job[p].state = StateOf(row) /\ row.status # "off"
  BY DEF Good, InStepInv, TellInv, At
<1>2. /\ job[p].state.status # "trash" /\ Reached(p).content = job[p].state.content
      /\ Reached(p).marked = (job[p].state.status = "done")
  BY ReachedTimes DEF Good, At, Calls
<1>3. row.status # "trash" /\ row.content = Reached(p).content /\ (row.status = "done") = Reached(p).marked
  BY <1>1, <1>2, StateFields
<1>4. row.status \in {"calendar", "done"}
  BY <1>1, <1>3, RowTypes DEF Good, Linked, Statuses
<1>5. QED  BY <1>1, <1>3, <1>4 DEF OnCalendar, Linked

\* What the event comes to say while a linked item is being written or marked.
LEMMA LiveEvent ==
  ASSUME Good, Apart, [Next]_vars, event'.status = "live", Linked
  PROVE  \/ UNCHANGED event
         \/ Type /\ event.status = "live" /\ event'.typed /\ event'.marked = event.marked
            /\ UNCHANGED <<row, op, job, failed, import, listed, anchor>>
            /\ listed' # event'.version
         \/ \E q \in Pushes : /\ (Answer(q) \/ Fail(q)) /\ At(q, "write") /\ event.status = "live"
                              /\ event' = Reached(q) /\ OnCalendar /\ row.content = event'.content
                              /\ (row.status = "done") = event'.marked /\ ~event'.typed
                              /\ UNCHANGED row
<1>1. CASE Type
  <2>1. listed' # event'.version
    BY <1>1, TypeTimes, Numbers DEF Good
  <2>2. QED  BY <1>1, <2>1, TypeTimes DEF Good
<1>2. ASSUME NEW q \in Pushes, Answer(q) \/ Fail(q), job[q].step \in Calls, event' = Reached(q), ~UNCHANGED event
      PROVE  /\ At(q, "write") /\ event.status = "live" /\ OnCalendar /\ row.content = event'.content
             /\ (row.status = "done") = event'.marked /\ ~event'.typed /\ UNCHANGED row
  <2>1. event.status # "none"
    BY DEF Good, EventInv, KnownInv
  <2>2. At(q, "write") /\ event.status = "live" /\ ~event'.typed
    BY <1>2, <2>1, ReachedTimes DEF Good
  <2>3. UNCHANGED row
    BY <1>2 DEF Answer, Fail
  <2>4. QED  BY <1>2, <2>2, <2>3, WriteAgrees
<1>3. QED  BY <1>1, <1>2, EventSteps DEF Good

LEMMA ToldStays ==
  ASSUME Good, Apart, [Next]_vars
  PROVE  ToldInv'
<1> SUFFICES ASSUME NEW p \in Pushes, job'[p].step = "mark", event'.status = "live"
      PROVE  /\ row' # None /\ row'.status \in {"calendar", "done"}
             /\ (row'.status = "done") = event'.marked
             /\ row'.content = event'.content \/ (event'.typed /\ listed' # event'.version)
  BY DEF ToldInv, At, StatusAgrees, ContentAgrees, OnCalendar, Awaited
<1>1. CASE job'[p] = job[p]
  <2>1. At(p, "mark") /\ Linked /\ ~Free(p)
    BY <1>1 DEF Good, InStepInv, TellInv, At, Free
  <2>2. row' # None /\ row'.status = row.status /\ row'.content = row.content
    BY <2>1, RowHeld DEF At
  <2>3. CASE UNCHANGED event
    <3>1. StatusAgrees /\ ContentAgrees
      BY <2>1, <2>3 DEF Good, InStepInv, ToldInv
    <3>2. UNCHANGED listed
      BY <2>1, ListedHeld
    <3>3. QED  BY <2>2, <2>3, <3>1, <3>2 DEF StatusAgrees, ContentAgrees, Awaited, OnCalendar
  <2>4. CASE event.status = "live" /\ event'.typed /\ event'.marked = event.marked /\ listed' # event'.version
    <3>1. StatusAgrees
      BY <2>1, <2>4 DEF Good, InStepInv, ToldInv
    <3>2. QED  BY <2>2, <2>4, <3>1 DEF StatusAgrees, OnCalendar
  <2>5. CASE OnCalendar /\ row.content = event'.content /\ (row.status = "done") = event'.marked
    BY <2>2, <2>5 DEF OnCalendar
  <2>6. QED  BY <2>1, <2>3, <2>4, <2>5, LiveEvent
<1>2. CASE Answer(p) /\ Afterwards(p) # "idle" /\ job'[p].step = Afterwards(p)
  <2>1. At(p, "write") /\ event.status = "live" /\ event' = Reached(p) /\ UNCHANGED row
    BY <1>2, AfterwardsIs DEF Answer
  <2>2. QED  BY <2>1, WriteAgrees DEF OnCalendar
<1>3. QED  BY <1>1, <1>2, JobFields, IdleJob DEF Good

\* What a sync writes, and of what.
LEMMA Imports ==
  ASSUME Good, Apart, ImportWrite
  PROVE  /\ import # None /\ ImportTo(import.event) /\ listed' = import.event.version /\ import' = None
         /\ \A p \in Pushes : Free(p)
         /\ UNCHANGED <<event, job, failed, count>>
         /\ op # None => ~op.read
         /\ listed < import.event.version
         /\ \/ import.event = event
            \/ /\ event.typed /\ listed' # event.version /\ import.event.version < event.version
               /\ import.event.status = "live" /\ event.marked = import.event.marked
<1>1. import # None /\ (\A p \in Pushes : Free(p)) /\ UNCHANGED <<event, job, failed, count>>
      /\ (op # None => ~op.read) /\ listed' = import.event.version /\ import' = None
  BY DEF ImportWrite, Good, LinkInv, ImportInv
<1>2. /\ listed < import.event.version
      /\ \/ import.event = event
         \/ /\ event.typed /\ import.event.version < event.version
            /\ import.event.status = "live" /\ event.marked = import.event.marked
  BY <1>1 DEF Good, InStepInv, SyncInv
<1>3. row # None => row.synced < import.event.version
  BY <1>1, <1>2, Numbers DEF Good, InStepInv, AnchorInv
<1>4. Linked => import.event.status # "none"
  BY <1>2 DEF Good, EventInv, KnownInv
<1>5. ImportTo(import.event)
  BY <1>3, <1>4, Importing DEF Good, LinkInv
<1>6. QED  BY <1>1, <1>2, <1>5, Numbers DEF Good

\* A linked item and its event agree, or that is being dealt with.
InLine ==
  /\ StatusAgrees \/ Telling \/ Owed
  /\ OnCalendar => ContentAgrees \/ Telling \/ Owed

LEMMA AgreeIs == AgreeInv <=> (Linked /\ event.status = "live" => InLine)
BY DEF AgreeInv, InLine

\* The one push that stamps the link says whether the row has moved on.
LEMMA StampAgrees ==
  ASSUME Good, Apart, NEW p \in Pushes, Stamp(p), row # None, ~Linked, event.status = "live",
         ~MovedOn(job[p].of, row')
  PROVE  /\ row'.status = "calendar" /\ row'.content = row.content /\ row.status = "calendar"
         /\ ~event.marked /\ ~event.typed /\ row.content = event.content
<1>1. At(p, "stamp") /\ job[p].of.status = "calendar" /\ job[p].slot
  BY DEF Stamp, At, Good, EventInv, ShapeInv, Inv, SlotInv, Slotted
<1>2. row'.status = row.status /\ row'.content = row.content
  BY StampEffect DEF Good
<1>3. row.status = "calendar" /\ job[p].of.content = row.content
  BY <1>1, <1>2 DEF MovedOn
<1>4. ToBeLinked /\ ~event.typed /\ ~event.marked
  BY <1>3, NotDetached
<1>5. PICK q \in Pushes : Stamping(q)
  BY <1>1, <1>4 DEF ToBeLinked
<1>6. q = p
  <2>1. job[q].slot
    BY <1>5 DEF Stamping, At, Good, Inv, SlotInv, Slotted
  <2>2. QED  BY <1>1, <2>1, Parts DEF Good, JobsFine
<1>7. QED  BY <1>2, <1>3, <1>4, <1>5, <1>6 DEF Stamping

\* Who is linked comes to be in line.
LEMMA AgreeNew ==
  ASSUME Good, Apart, [Next]_vars, ~Linked, row' # None, row'.link, event'.status = "live"
  PROVE  InLine'
<1>1. ASSUME NEW p \in Pushes, RepairDone(p) PROVE InLine'
  <2>1. job'[p].step = "write"
    BY <1>1, RepairTimes DEF Good
  <2>2. QED  BY <2>1 DEF InLine, Telling
<1>2. ASSUME NEW p \in Pushes, Stamp(p), row # None PROVE InLine'
  <2>1. UNCHANGED event
    BY <1>2 DEF Stamp
  <2>2. PICK r : r = row'
    OBVIOUS
  <2>3. job'[p] = FollowUp(p, r) /\ job[p] \in Jobs
    BY <1>2, <2>2, StampEffect, JobTypes DEF Good
  <2>4. CASE MovedOn(job[p].of, r)
    <3>1. job'[p] = [job[p] EXCEPT !.step = IF r.status = "off" THEN "takeBack" ELSE "write",
                                   !.state = StateOf(r), !.slot = TRUE]
      BY <2>3, <2>4 DEF FollowUp
    <3>2. job'[p].step \in {"write", "takeBack"}
      BY <2>3, <3>1 DEF Jobs
    <3>3. QED  BY <3>2 DEF InLine, Telling
  <2>5. CASE ~MovedOn(job[p].of, r)
    <3>1. /\ row'.status = "calendar" /\ row'.content = row.content
          /\ ~event.marked /\ row.content = event.content
      BY <1>2, <2>1, <2>2, <2>5, StampAgrees
    <3>2. QED  BY <2>1, <3>1, Numbers DEF Good, InLine, StatusAgrees, ContentAgrees, OnCalendar
  <2>6. QED  BY <2>4, <2>5
<1>3. CASE ImportWrite
  <2> DEFINE e == import.event
  <2>1. ImportTo(e) /\ UNCHANGED <<event, job, failed, count>> /\ (\A p \in Pushes : Free(p))
        /\ (e = event \/ event.typed)
    BY <1>3, Imports
  <2> HIDE DEF e
  <2>2. /\ row # None /\ row.status \in {"calendar", "done"} /\ row.content = e.content
        /\ row'.status = row.status /\ row'.content = row.content /\ row'.fresh = ~Agrees(row, e)
    BY <2>1 DEF ImportTo, Linked
  <2>3. ~event.typed /\ ~event.marked
    BY <2>1, <2>2, NotDetached
  <2>4. e = event
    BY <2>1, <2>3
  <2>5. ContentAgrees'
    BY <2>1, <2>2, <2>4 DEF ContentAgrees
  <2>6. CASE row.status = "calendar"
    BY <2>1, <2>2, <2>3, <2>5, <2>6, Numbers DEF Good, InLine, StatusAgrees, OnCalendar
  <2>7. CASE row.status = "done"
    <3>1. row'.fresh
      BY <2>2, <2>3, <2>4, <2>7 DEF Agrees
    <3>2. count["faults"] > 0
      BY <2>1, FaultsCount DEF Good, InStepInv, FaultInv, Free, At
    <3>3. Owed'
      BY <2>1, <2>2, <3>1, <3>2 DEF Owed, OnCalendar
    <3>4. QED  BY <3>3 DEF InLine
  <2>8. QED  BY <2>2, <2>6, <2>7
<1>4. QED  BY <1>1, <1>2, <1>3, NewLink

\* What an issue leads to depends on the row's status and content alone.
LEMMA LeadsSame ==
  ASSUME row # None, row' # None, row'.status = row.status, row'.content = row.content, NEW f
  PROVE  Leads(f)' = Leads(f) /\ Still(f)' = Still(f)
BY DEF Leads, Still, MovedOn

\* Whoever is in line stays so while nothing of it moves.
LEMMA InLineStays ==
  ASSUME InLine, UNCHANGED event, row # None, row' # None,
         row'.status = row.status, row'.content = row.content, row'.fresh = row.fresh,
         count["faults"] > 0 => count'["faults"] > 0,
         \/ UNCHANGED listed
         \/ OnCalendar => ~event.typed,
         Telling => InLine' \/ Telling',
         \A f \in failed : Leads(f) => f \in failed' \/ Telling'
  PROVE  InLine'
<1>1. StatusAgrees => StatusAgrees'
  BY DEF StatusAgrees, OnCalendar
<1>2. OnCalendar' = OnCalendar
  BY DEF OnCalendar
<1>3. ContentAgrees /\ OnCalendar => ContentAgrees'
  BY DEF ContentAgrees, Awaited
<1>4. Owed => Owed' \/ Telling'
  <2>1. CASE \E f \in failed : Leads(f)
    <3>1. PICK f \in failed : Leads(f)
      BY <2>1
    <3>2. Leads(f)'
      BY <3>1, LeadsSame
    <3>3. QED  BY <3>1, <3>2 DEF Owed
  <2>2. CASE row.fresh /\ OnCalendar
    BY <1>2, <2>2 DEF Owed
  <2>3. QED  BY <2>1, <2>2 DEF Owed
<1>5. QED  BY <1>1, <1>2, <1>3, <1>4 DEF InLine

\* A push that is lost leaves an issue, or a row that a sweep finds.
LEMMA AgreeFail ==
  ASSUME Good, Apart, [Next]_vars, Linked, InLine, NEW p \in Pushes, Fail(p), UNCHANGED event,
         event.status = "live"
  PROVE  InLine'
<1>0. /\ job[p].step \in Calls /\ UNCHANGED <<row, listed>> /\ End(p)
      /\ failed' = (IF job[p].swept THEN failed ELSE failed \cup {job[p].of})
      /\ count'["faults"] > 0 /\ (Unseen(p) => ~job[p].swept)
  <2>1. count'["faults"] > 0
    <3>1. Counted("faults", MaxFaults)
      BY DEF Fail
    <3>2. count \in [{"gestures", "typed", "faults"} -> Nat]
      BY Parts DEF Good, RestFine
    <3> DEFINE v == count["faults"] + 1
    <3>3. count' = [count EXCEPT !["faults"] = v] /\ v > 0
      BY <3>1, <3>2 DEF Counted
    <3> HIDE DEF v
    <3>4. QED  BY <3>2, <3>3
  <2>2. QED  BY <2>1, ApartIs DEF Fail
<1>1. \A q \in Pushes : q # p => job'[q] = job[q]
  BY <1>0, Ended DEF Good
<1>2. ASSUME At(p, "write") PROVE Owed'
  <2>1. /\ job[p].state = StateOf(row) /\ row.status # "off" /\ row # None /\ row.link
        /\ job[p].of = job[p].state \/ (FirstStep(job[p].of) = "create" /\ MovedOn(job[p].of, row))
    BY <1>2 DEF Good, InStepInv, TellInv, At, Linked
  <2>2. CASE ~job[p].swept
    <3>1. PICK f : f = job[p].of
      OBVIOUS
    <3>2. f \in failed'
      BY <1>0, <2>2, <3>1
    <3>3. CASE f = StateOf(row)
      <4>1. FirstStep(f) = "write" /\ Still(f)
        BY <2>1, <3>3 DEF FirstStep, Still, StateOf, MovedOn
      <4>2. QED  BY <1>0, <2>1, <3>2, <4>1, LeadsSame DEF Leads, Owed
    <3>4. CASE FirstStep(f) = "create" /\ MovedOn(f, row)
      BY <1>0, <2>1, <3>2, <3>4, LeadsSame DEF Leads, Owed
    <3>5. QED  BY <2>1, <3>1, <3>3, <3>4
  <2>3. CASE job[p].swept
    <3>1. row.fresh /\ job[p].state.status # "trash"
      BY <1>0, <1>2, <2>1, <2>3, Numbers DEF Good, Unseen
    <3>2. row.status \in {"calendar", "done"}
      BY <2>1, <3>1, StateFields, RowTypes DEF Good, Statuses
    <3>3. QED  BY <1>0, <2>1, <3>1, <3>2 DEF Owed, OnCalendar
  <2>4. QED  BY <2>2, <2>3, JobTypes DEF Good, Jobs
<1>3. ASSUME At(p, "takeBack") PROVE Owed'
  <2>1. ~job[p].swept
    BY <1>0, <1>3 DEF Unseen, At
  <2>2. PICK f : f = job[p].of
    OBVIOUS
  <2>3. f \in failed' /\ FirstStep(f) = "create" /\ f.status = "calendar"
    BY <1>0, <1>3, <2>1, <2>2, FirstOf, JobTypes DEF Good, InStepInv, TellInv, At
  <2>4. row.status = "off"
    BY <1>3 DEF Good, LinkInv, TakeBackInv, At, Linked
  <2>5. Leads(f)'
    BY <1>0, <2>3, <2>4 DEF Leads, MovedOn
  <2>6. QED  BY <1>0, <2>3, <2>5 DEF Owed
<1>4. CASE job[p].step \in {"write", "takeBack"}
  BY <1>2, <1>3, <1>4 DEF InLine, At
<1>5. CASE job[p].step \notin {"write", "takeBack"}
  <2>1. Telling => Telling'
    <3>1. job[p].step # "create"
      BY <1>0 DEF Calls
    <3>2. \A q \in Pushes : (\/ job[q].step \in {"write", "takeBack"}
                             \/ At(q, "create") /\ MovedOn(job[q].of, row)) => q # p
      BY <1>5, <3>1 DEF At
    <3>3. QED  BY <1>0, <1>1, <3>2 DEF Telling, At
  <2>2. failed \subseteq failed'
    BY <1>0
  <2>3. QED  BY <1>0, <2>1, <2>2, InLineStays DEF Linked
<1>6. QED  BY <1>4, <1>5

\* So does a restart.
LEMMA AgreeCrash ==
  ASSUME Good, Apart, [Next]_vars, Linked, InLine, Crash
  PROVE  InLine'
<1>1. /\ UNCHANGED <<row, event, failed, listed>> /\ \A p \in Pushes : ~Unseen(p)
  BY ApartIs DEF Crash
<1>2. count'["faults"] > 0
  <2>1. Counted("faults", MaxFaults) /\ count \in [{"gestures", "typed", "faults"} -> Nat]
    BY Parts DEF Crash, Good, RestFine
  <2> DEFINE v == count["faults"] + 1
  <2>2. count' = [count EXCEPT !["faults"] = v] /\ v > 0
    BY <2>1 DEF Counted
  <2> HIDE DEF v
  <2>3. QED  BY <2>1, <2>2
<1>3. Telling => InLine'
  <2> SUFFICES ASSUME NEW p \in Pushes, \/ job[p].step \in {"write", "takeBack"}
                                        \/ At(p, "create") /\ MovedOn(job[p].of, row)
               PROVE  InLine'
    BY DEF Telling
  <2>1. At(p, "write") /\ row.fresh /\ job[p].state.status # "trash"
    BY <1>1, Numbers DEF Unseen, At, Good, Linked
  <2>2. job[p].state = StateOf(row) /\ row.status # "off"
    BY <2>1 DEF Good, InStepInv, TellInv, At
  <2>3. row.status \in {"calendar", "done"}
    BY <2>1, <2>2, StateFields, RowTypes DEF Good, Statuses, Linked
  <2>4. Owed'
    BY <1>1, <1>2, <2>1, <2>3 DEF Owed, OnCalendar, Linked
  <2>5. QED  BY <2>4 DEF InLine
<1>4. QED  BY <1>1, <1>2, <1>3, InLineStays DEF Linked

\* A create that is dropped leaves it to the one that is under way.
LEMMA AgreeCheck ==
  ASSUME Good, Apart, [Next]_vars, Linked, InLine, event.status = "live", NEW p \in Pushes, Check(p)
  PROVE  InLine'
<1>0. At(p, "create") /\ UNCHANGED <<row, event, failed, listed, count>> /\ job[p] \in Jobs
      /\ \A q \in Pushes : q # p => job'[q] = job[q]
  BY CheckMoves, JobTypes DEF Check, Good
<1>1. CASE InFlight
  <2>1. PICK q \in Pushes : job[q].slot
    BY <1>1 DEF InFlight
  <2>2. job[q].step \in {"write", "takeBack", "mark"}
    <3>1. job[q].step \notin {"idle", "create", "remove", "insert", "stamp"}
      BY <2>1 DEF Good, InStepInv, TellInv
    <3>2. job[q].step # "unlink"
      BY DEF Good, EventInv, ShapeInv
    <3>3. QED  BY <3>1, <3>2, JobTypes DEF Good, Jobs, Steps
  <2>3. CASE job[q].step \in {"write", "takeBack"}
    <3>1. job'[q] = job[q]
      BY <1>0, <2>3 DEF At
    <3>2. QED  BY <2>3, <3>1 DEF InLine, Telling
  <2>4. CASE At(q, "mark")
    <3>1. StatusAgrees /\ ContentAgrees
      BY <2>4 DEF Good, InStepInv, ToldInv
    <3>2. StatusAgrees' /\ ContentAgrees'
      BY <1>0, <3>1 DEF StatusAgrees, ContentAgrees, OnCalendar, Awaited
    <3>3. QED  BY <3>2 DEF InLine
  <2>5. QED  BY <2>2, <2>3, <2>4 DEF At
<1>2. CASE ~InFlight
  <2>1. job'[p] = FollowUp(p, row)
    BY <1>2, Parts DEF Check, Good, JobsFine
  <2>2. CASE MovedOn(job[p].of, row)
    <3>1. job'[p] = [job[p] EXCEPT !.step = IF row.status = "off" THEN "takeBack" ELSE "write",
                                   !.state = StateOf(row), !.slot = TRUE]
      BY <2>1, <2>2 DEF FollowUp
    <3>2. job'[p].step \in {"write", "takeBack"}
      BY <1>0, <3>1 DEF Jobs
    <3>3. QED  BY <3>2 DEF InLine, Telling
  <2>3. CASE ~MovedOn(job[p].of, row)
    <3>1. \A q \in Pushes : (\/ job[q].step \in {"write", "takeBack"}
                             \/ At(q, "create") /\ MovedOn(job[q].of, row)) => q # p
      BY <1>0, <2>3 DEF At
    <3>2. Telling => Telling'
      BY <1>0, <3>1 DEF Telling, At
    <3>3. QED  BY <1>0, <3>2, InLineStays DEF Linked
  <2>4. QED  BY <2>2, <2>3
<1>3. QED  BY <1>1, <1>2

\* An issue that is retried is pushed again, if there is something to tell.
LEMMA AgreeRetry ==
  ASSUME Good, Apart, Linked, InLine, NEW p \in Pushes, NEW f \in failed, Retry(p, f)
  PROVE  InLine'
<1>0. Free(p) /\ UNCHANGED <<row, event, listed, count>> /\ failed' = failed \ {f} /\ Push(p, f, FALSE)
      /\ f \in States
  BY Parts DEF Retry, Good, RestFine
<1>1. \A q \in Pushes : q # p => job'[q] = job[q]
  BY <1>0, Pushed DEF Good
<1>2. Telling => Telling'
  <2>1. \A q \in Pushes : (\/ job[q].step \in {"write", "takeBack"}
                           \/ At(q, "create") /\ MovedOn(job[q].of, row)) => q # p
    BY <1>0 DEF At, Free
  <2>2. QED  BY <1>0, <1>1, <2>1 DEF Telling, At
<1>3. Leads(f) => Telling'
  <2>1. ASSUME Leads(f) PROVE FirstStep(f) \in {"create", "write"} /\ (FirstStep(f) = "create" => MovedOn(f, row))
    BY <2>1 DEF Leads
  <2>2. FirstStep(f) # "idle" => job'[p].step = FirstStep(f) /\ job'[p].of = f
    BY <1>0, Pushed DEF Good
  <2>3. QED  BY <1>0, <2>1, <2>2 DEF Telling, At
<1>4. QED  BY <1>0, <1>2, <1>3, InLineStays DEF Linked

\* What a sync brings to a linked item puts it in line, or finds it so.
LEMMA AgreeImport ==
  ASSUME Good, Apart, Linked, InLine, event.status = "live", ImportWrite
  PROVE  InLine'
<1> DEFINE e == import.event
<1>0. /\ ImportTo(e) /\ listed' = e.version /\ (\A p \in Pushes : Free(p))
      /\ UNCHANGED <<event, job, failed, count>>
      /\ e = event \/ (event.typed /\ listed' # event.version /\ e.status = "live" /\ event.marked = e.marked)
  BY Imports
<1> HIDE DEF e
<1>1. e.status = "live" /\ event.marked = e.marked
  BY <1>0
<1>2. ~Telling
  BY <1>0 DEF Telling, Free, At
<1>3. row # None /\ row.link
  BY DEF Linked
<1>4. ASSUME row'.content = e.content PROVE ContentAgrees'
  BY <1>0, <1>4 DEF ContentAgrees, Awaited
<1>5. CASE /\ row.status = "trash" /\ row' # None /\ row'.status \in {"calendar", "done"}
           /\ row'.content = e.content /\ row'.fresh
  <2>1. Owed
    BY <1>2, <1>5 DEF InLine, StatusAgrees, OnCalendar
  <2>2. Owed'
    BY <1>0, <1>5, <2>1 DEF Owed, OnCalendar
  <2>3. QED  BY <2>2 DEF InLine
<1>6. CASE /\ row.status # "trash" /\ row' # None /\ row'.status = row.status
           /\ row'.content = e.content /\ row'.fresh
  <2>1. StatusAgrees => StatusAgrees'
    BY <1>0, <1>6 DEF StatusAgrees, OnCalendar
  <2>2. ASSUME Owed PROVE Owed'
    <3>1. CASE OnCalendar
      BY <1>0, <1>6, <2>2, <3>1 DEF Owed, OnCalendar
    <3>2. CASE ~OnCalendar
      <4>1. row.status = "off"
        BY <1>3, <1>6, <3>2, RowTypes DEF OnCalendar, Statuses, Good
      <4>2. PICK f \in failed : Leads(f)
        BY <2>2, <3>2 DEF Owed
      <4>3. f \in States
        BY Parts DEF Good, RestFine
      <4>4. FirstStep(f) = "create"
        <5>1. ASSUME FirstStep(f) = "write", Still(f) PROVE FALSE
          <6>1. f.status # "off"
            BY <4>3, <5>1, FirstOf DEF States
          <6>2. QED  BY <1>3, <4>1, <5>1, <6>1 DEF Still, MovedOn
        <5>2. QED  BY <4>2, <5>1 DEF Leads
      <4>5. f.status = "calendar"
        BY <4>3, <4>4, FirstOf DEF States
      <4>6. Leads(f)'
        BY <1>6, <4>1, <4>4, <4>5 DEF Leads, MovedOn
      <4>7. QED  BY <1>0, <2>2, <4>2, <4>6 DEF Owed
    <3>3. QED  BY <3>1, <3>2
  <2>3. QED  BY <1>2, <1>4, <1>6, <2>1, <2>2 DEF InLine
<1>7. CASE /\ row.status # "trash" /\ row' # None /\ row'.status = row.status /\ row.content = e.content
           /\ row'.content = row.content /\ row'.fresh = (row.fresh /\ ~Agrees(row, e))
  <2>1. StatusAgrees => StatusAgrees'
    BY <1>0, <1>7 DEF StatusAgrees, OnCalendar
  <2>2. ASSUME Owed PROVE Owed' \/ StatusAgrees'
    <3>1. CASE \E f \in failed : Leads(f)
      <4>1. PICK f \in failed : Leads(f)
        BY <3>1
      <4>2. Leads(f)'
        BY <1>3, <1>7, <4>1, LeadsSame
      <4>3. QED  BY <1>0, <2>2, <4>1, <4>2 DEF Owed
    <3>2. CASE row.fresh /\ OnCalendar /\ ~Agrees(row, e)
      BY <1>0, <1>7, <2>2, <3>2 DEF Owed, OnCalendar
    <3>3. CASE OnCalendar /\ Agrees(row, e)
      BY <1>0, <1>1, <1>7, <3>3 DEF StatusAgrees, Agrees, OnCalendar
    <3>4. QED  BY <2>2, <3>1, <3>2, <3>3 DEF Owed
  <2>3. ContentAgrees'
    BY <1>4, <1>7
  <2>4. QED  BY <1>2, <2>1, <2>2, <2>3 DEF InLine
<1>8. QED  BY <1>0, <1>1, <1>3, <1>5, <1>6, <1>7 DEF ImportTo, Linked

\* What a device or a sync does without telling Google leaves it so.
LEMMA AgreeQuiet ==
  ASSUME Good, Apart, [Next]_vars, Linked, InLine,
         UNCHANGED <<row, event, job, failed>>, count["faults"] > 0 => count'["faults"] > 0,
         UNCHANGED listed \/ ImportRead
  PROVE  InLine'
<1>1. Telling => Telling'
  BY DEF Telling, At
<1>2. UNCHANGED listed \/ (OnCalendar => ~event.typed)
  <2>1. CASE ImportRead /\ ~UNCHANGED listed
    <3>1. row.pushed = event.version
      BY <2>1 DEF ImportRead, OwnEcho
    <3>2. ~(row.pushed < event.version)
      BY <3>1, Numbers DEF Good
    <3>3. QED  BY <3>2 DEF Good, InStepInv, AnchorInv
  <2>2. QED  BY <2>1
<1>3. QED  BY <1>1, <1>2, InLineStays DEF Linked

LEMMA AgreeStays ==
  ASSUME Good, Apart, [Next]_vars
  PROVE  AgreeInv'
<1> SUFFICES ASSUME row' # None, row'.link, event'.status = "live" PROVE InLine'
  BY AgreeIs DEF AgreeInv, InLine, Linked
<1>1. CASE ~Linked
  BY <1>1, AgreeNew
<1> SUFFICES ASSUME Linked PROVE InLine'
  BY <1>1
<1>2. event.status = "live" /\ row # None /\ row.link
  BY EventStays, EventStatuses, ApartIs DEF Good, EventInv, KnownInv, Linked
<1>3. InLine
  BY <1>2, AgreeIs DEF Good, InStepInv
<1>4. CASE Type
  <2>1. /\ event'.typed /\ event'.marked = event.marked /\ listed' # event'.version
        /\ UNCHANGED <<row, job, failed>> /\ count'["faults"] = count["faults"]
    BY <1>4, TypeTimes, Numbers DEF Good
  <2>2. ContentAgrees'
    BY <2>1 DEF ContentAgrees, Awaited
  <2>3. (StatusAgrees => StatusAgrees') /\ (Telling => Telling') /\ (Owed => Owed')
    BY <2>1 DEF StatusAgrees, OnCalendar, Telling, At, Owed, Leads, Still
  <2>4. QED  BY <1>3, <2>2, <2>3 DEF InLine
<1>5. ASSUME NEW q \in Pushes, OnCalendar, row.content = event'.content,
             (row.status = "done") = event'.marked, UNCHANGED row
      PROVE  InLine'
  <2>1. StatusAgrees' /\ ContentAgrees'
    BY <1>5 DEF StatusAgrees, ContentAgrees, OnCalendar
  <2>2. QED  BY <2>1 DEF InLine
<1>6. CASE ~UNCHANGED event
  BY <1>4, <1>5, <1>6, LiveEvent
<1> SUFFICES ASSUME UNCHANGED event, ~Type PROVE InLine'
  BY <1>4, <1>6
<1>7. ASSUME NEW p \in Pushes, Work(p) PROVE InLine'
  <2>1. CASE Apply(p)
    <3>1. CASE Wins(p)
      <4>1. job'[p].step = "write"
        BY <3>1, WinsWrite
      <4>2. QED  BY <4>1 DEF InLine, Telling
    <3>2. CASE UNCHANGED <<row, job>>
      BY <1>3, <2>1, <3>2, AgreeQuiet DEF Apply
    <3>3. QED  BY <2>1, <3>1, <3>2, Applying DEF Good
  <2>2. CASE Check(p)
    BY <1>2, <1>3, <2>2, AgreeCheck
  <2>3. CASE Stamp(p) \/ Unlink(p) \/ RepairDone(p)
    <3>1. ~Stamp(p)
      BY <1>2 DEF Stamp, At, Good, InStepInv, TellInv
    <3>2. ~Unlink(p)
      BY <1>2 DEF Unlink, At, Good, EventInv, ShapeInv
    <3>3. ~RepairDone(p)
      BY <1>2 DEF RepairDone, OrphanedDone
    <3>4. QED  BY <2>3, <3>1, <3>2, <3>3
  <2>4. CASE Mark(p)
    <3>1. StatusAgrees /\ ContentAgrees
      BY <1>2, <2>4 DEF Mark, Good, InStepInv, ToldInv
    <3>2. StatusAgrees' /\ ContentAgrees'
      BY <1>2, <2>4, <3>1, MarkTimes DEF Good, StatusAgrees, ContentAgrees, OnCalendar, Awaited
    <3>3. QED  BY <3>2 DEF InLine
  <2>5. CASE Answer(p)
    <3>1. job[p].step \in Calls /\ Reached(p) = event
      BY <2>5 DEF Answer
    <3>2. ~At(p, "insert")
      BY <1>2 DEF At, Good, InStepInv, TellInv
    <3>3. event.version \in Nat
      BY Numbers DEF Good
    <3>4. Reached(p).version = event.version + 1
      BY <1>2, <3>1, <3>2, ReachedTimes DEF Good
    <3>5. QED  BY <3>1, <3>3, <3>4
  <2>6. CASE Fail(p)
    BY <1>2, <1>3, <2>6, AgreeFail
  <2>7. CASE Backfill(p)
    BY <1>2, <2>7 DEF Backfill
  <2>8. CASE Repush(p)
    <3>1. PICK s : s = StateOf(row)
      OBVIOUS
    <3>2. s \in States /\ FirstStep(s) = "write" /\ Push(p, s, TRUE)
      BY <1>2, <2>8, <3>1, StateFields, RowTypes, RowState DEF Repush, MissedPush, FirstStep, Good
    <3>3. job'[p].step = "write"
      BY <3>2, Pushed DEF Good
    <3>4. QED  BY <3>3 DEF InLine, Telling
  <2>9. ASSUME NEW f \in failed, Retry(p, f) PROVE InLine'
    BY <1>3, <2>9, AgreeRetry
  <2>10. QED
    BY <1>7, <2>1, <2>2, <2>3, <2>4, <2>5, <2>6, <2>7, <2>8, <2>9 DEF Work
<1>8. CASE Crash
  BY <1>3, <1>8, AgreeCrash
<1>9. CASE ImportWrite
  BY <1>2, <1>3, <1>9, AgreeImport
<1>10. ASSUME NEW f \in failed, Dismiss(f) PROVE InLine'
  <2>1. ~Leads(f) /\ UNCHANGED <<row, event, job, listed, count>> /\ failed' = failed \ {f}
    BY <1>10 DEF Dismiss, Leads
  <2>2. Telling => Telling'
    BY <2>1 DEF Telling, At
  <2>3. QED  BY <1>2, <1>3, <2>1, <2>2, InLineStays
<1>11. CASE Gesture
  <2>1. UNCHANGED <<row, event, job, failed, listed>>
    BY <1>11, Gesturing DEF Good
  <2>2. count["faults"] > 0 => count'["faults"] > 0
    BY FaultsCount DEF Good
  <2>3. QED  BY <1>3, <2>1, <2>2, AgreeQuiet
<1>12. CASE Hydrate \/ ImportRead \/ UNCHANGED vars
  <2>1. UNCHANGED <<row, event, job, failed, count>> /\ (UNCHANGED listed \/ ImportRead)
    BY <1>12 DEF Hydrate, ImportRead, vars
  <2>2. QED  BY <1>3, <2>1, AgreeQuiet
<1>13. QED  BY <1>7, <1>8, <1>9, <1>10, <1>11, <1>12 DEF Next, Server

\* An answer about an event of a linked item changes it.
LEMMA AnswerChanges ==
  ASSUME Good, event.status = "live", NEW p \in Pushes, Answer(p), Linked
  PROVE  ~UNCHANGED event
<1>1. job[p].step \in Calls /\ event' = Reached(p)
  BY DEF Answer
<1>2. ~At(p, "insert")
  BY DEF At, Good, InStepInv, TellInv
<1>3. event.version \in Nat
  BY Numbers DEF Good
<1>4. Reached(p).version = event.version + 1
  BY <1>1, <1>2, ReachedTimes DEF Good
<1>5. QED  BY <1>1, <1>3, <1>4

\* A push that tells goes on doing so, is answered, or is lost.
LEMMA TellingGoes ==
  ASSUME Good, Apart, [Next]_vars, Linked, row' # None, row'.link,
         event.status = "live", UNCHANGED event, Telling
  PROVE  Telling' \/ ContentAgrees \/ (\E p \in Pushes : Fail(p)) \/ Crash
<1>1. PICK p \in Pushes : \/ job[p].step \in {"write", "takeBack"}
                          \/ At(p, "create") /\ MovedOn(job[p].of, row)
  BY DEF Telling
<1>2. ~Free(p) /\ job[p].step \in {"write", "takeBack", "create"}
  BY <1>1 DEF Free, At
<1>3. ~Answer(p)
  BY AnswerChanges
<1>4. ~Stamp(p) /\ ~Unlink(p) /\ ~Mark(p)
  BY <1>2 DEF Stamp, Unlink, Mark, At
<1>5. CASE Check(p)
  <2>0. At(p, "create") /\ job[p] \in Jobs /\ \A q \in Pushes : q # p => job'[q] = job[q]
    BY <1>5, CheckMoves, JobTypes DEF Check, Good
  <2>1. CASE InFlight
    <3>1. PICK q \in Pushes : job[q].slot
      BY <2>1 DEF InFlight
    <3>2. job[q].step \in {"write", "takeBack", "mark"}
      <4>1. job[q].step \notin {"idle", "create", "remove", "insert", "stamp"}
        BY <3>1 DEF Good, InStepInv, TellInv
      <4>2. job[q].step # "unlink"
        BY DEF Good, EventInv, ShapeInv
      <4>3. QED  BY <4>1, <4>2, JobTypes DEF Good, Jobs, Steps
    <3>3. CASE job[q].step \in {"write", "takeBack"}
      <4>1. job'[q] = job[q]
        BY <2>0, <3>3 DEF At
      <4>2. QED  BY <3>3, <4>1 DEF Telling
    <3>4. CASE At(q, "mark")
      BY <3>4 DEF Good, InStepInv, ToldInv
    <3>5. QED  BY <3>2, <3>3, <3>4 DEF At
  <2>2. CASE ~InFlight
    <3>1. job'[p] = FollowUp(p, row) /\ MovedOn(job[p].of, row)
      BY <1>1, <1>5, <2>0, <2>2, Parts DEF Check, Good, JobsFine, At
    <3>2. job'[p] = [job[p] EXCEPT !.step = IF row.status = "off" THEN "takeBack" ELSE "write",
                                   !.state = StateOf(row), !.slot = TRUE]
      BY <3>1 DEF FollowUp
    <3>3. job'[p].step \in {"write", "takeBack"}
      BY <2>0, <3>2 DEF Jobs
    <3>4. QED  BY <3>3 DEF Telling
  <2>3. QED  BY <2>1, <2>2
<1>6. CASE job'[p] = job[p]
  <2>1. CASE job[p].step \in {"write", "takeBack"}
    BY <1>6, <2>1 DEF Telling
  <2>2. CASE At(p, "create") /\ MovedOn(job[p].of, row)
    <3>1. ASSUME NEW q \in Pushes, Wins(q) PROVE Telling'
      <4>1. job'[q].step = "write"
        BY <3>1, WinsWrite
      <4>2. QED  BY <4>1 DEF Telling
    <3>2. ~ImportWrite
      BY <1>2 DEF ImportWrite, Good, LinkInv, ImportInv
    <3>3. CASE row'.status = row.status /\ row'.content = row.content
      BY <1>6, <2>2, <3>3 DEF Telling, At, MovedOn
    <3>4. QED  BY <3>1, <3>2, <3>3, RowMoves DEF Good, Touches
  <2>3. QED  BY <1>1, <2>1, <2>2
<1>7. QED  BY <1>2, <1>3, <1>4, <1>5, <1>6, Busy DEF Good

LEMMA NotedStays ==
  ASSUME Good, Apart, NotedInv, "lostTwice" \notin Races, [Next]_vars
  PROVE  NotedInv'
<1> SUFFICES ASSUME row' # None, row'.link, event'.status = "live", ~event'.typed,
                    event'.version # listed', row'.content # event'.content,
                    row'.pushed # event'.version
             PROVE  Telling'
  BY DEF NotedInv, Unnoted, Linked
<1>1. CASE ~Linked
  <2>1. ASSUME NEW p \in Pushes, RepairDone(p) PROVE Telling'
    <3>1. job'[p].step = "write"
      BY <2>1, RepairTimes DEF Good
    <3>2. QED  BY <3>1 DEF Telling
  <2>2. ASSUME NEW p \in Pushes, Stamp(p), row # None PROVE Telling'
    <3>1. PICK r : r = row'
      OBVIOUS
    <3>2. job'[p] = FollowUp(p, r) /\ job[p] \in Jobs /\ UNCHANGED event
      BY <2>2, <3>1, StampEffect, JobTypes DEF Good, Stamp
    <3>3. MovedOn(job[p].of, r)
      BY <1>1, <2>2, <3>1, <3>2, StampAgrees
    <3>4. job'[p] = [job[p] EXCEPT !.step = IF r.status = "off" THEN "takeBack" ELSE "write",
                                   !.state = StateOf(r), !.slot = TRUE]
      BY <3>2, <3>3 DEF FollowUp
    <3>5. job'[p].step \in {"write", "takeBack"}
      BY <3>2, <3>4 DEF Jobs
    <3>6. QED  BY <3>5 DEF Telling
  <2>3. ~ImportWrite
    <3> SUFFICES ASSUME ImportWrite PROVE FALSE
      OBVIOUS
    <3> DEFINE e == import.event
    <3>1. ImportTo(e) /\ UNCHANGED event /\ listed' = e.version /\ (e = event \/ event.typed)
      BY Imports
    <3>2. QED  BY <3>1
  <2>4. QED  BY <1>1, <2>1, <2>2, <2>3, NewLink
<1> SUFFICES ASSUME Linked PROVE Telling'
  BY <1>1
<1>2. event.status = "live" /\ row # None /\ row.link
  BY EventStays, EventStatuses, ApartIs DEF Good, EventInv, KnownInv, Linked
<1>3. UNCHANGED event
  BY LiveEvent
<1>4. ASSUME NEW p \in Pushes, Wins(p) PROVE Telling'
  <2>1. job'[p].step = "write"
    BY <1>4, WinsWrite
  <2>2. QED  BY <2>1 DEF Telling
<1>5. ~ImportWrite
  <2> SUFFICES ASSUME ImportWrite PROVE FALSE
    OBVIOUS
  <2> DEFINE e == import.event
  <2>1. listed' = e.version /\ (e = event \/ event.typed)
    BY Imports
  <2>2. QED  BY <1>3, <2>1
<1>6. UNCHANGED listed
  BY <1>3, <1>5, ListedSteps
<1>7. ASSUME NEW p \in Pushes, Mark(p) PROVE FALSE
  <2>1. ContentAgrees
    BY <1>2, <1>7 DEF Mark, Good, InStepInv, ToldInv
  <2>2. QED  BY <1>2, <1>3, <1>7, <2>1, MarkTimes DEF Good, ContentAgrees, Awaited
<1>8. CASE UNCHANGED row
  <2>1. Unnoted
    BY <1>2, <1>3, <1>6, <1>8 DEF Unnoted
  <2>2. Telling
    BY <2>1 DEF NotedInv
  <2>3. ~ContentAgrees
    BY <1>2, <1>3, <1>8 DEF ContentAgrees, Awaited
  <2>4. (\A p \in Pushes : ~Fail(p)) /\ ~Crash
    BY <1>3, <2>1 DEF Fail, Crash
  <2>5. QED  BY <1>2, <1>3, <2>2, <2>3, <2>4, TellingGoes
<1>9. ASSUME NEW p \in Pushes, Stamp(p) \/ Unlink(p) \/ RepairDone(p) PROVE FALSE
  <2>1. ~Stamp(p)
    BY <1>2 DEF Stamp, At, Good, InStepInv, TellInv
  <2>2. ~Unlink(p)
    BY <1>2 DEF Unlink, At, Good, EventInv, ShapeInv
  <2>3. ~RepairDone(p)
    BY <1>2 DEF RepairDone, OrphanedDone
  <2>4. QED  BY <1>9, <2>1, <2>2, <2>3
<1>10. QED  BY <1>4, <1>5, <1>7, <1>8, <1>9, RowCases DEF Good

\* The invariants that are shown already.
LEMMA GoodNext ==
  ASSUME Good, Apart, [Next]_vars
  PROVE  Inv' /\ LinkInv' /\ EventInv'
<1>1. Inv' /\ LinkInv'
  BY InvStep, LinkStep, ApartIs DEF Good
<1>2. QED  BY <1>1, EventStep, ApartIs DEF Good

\* A removal, under way or to be tried again, tells of a link.
LEMMA RemovingSays ==
  ASSUME Inv', ShapeInv', Removing'
  PROVE  ~NeverLinked'
<1>1. ASSUME NEW s, s \in Said', s \in States, FirstStep(s) = "remove" PROVE ~NeverLinked'
  <2>1. s.link
    BY <1>1, FirstOf DEF States
  <2>2. QED  BY <1>1, <2>1 DEF NeverLinked
<1>2. ASSUME NEW p \in Pushes, job'[p].step = "remove" PROVE ~NeverLinked'
  <2>1. PICK s : s = job'[p].of
    OBVIOUS
  <2>2. s \in Said' /\ FirstStep(s) = "remove"
    BY <1>2, <2>1 DEF Said, ShapeInv
  <2>3. job' \in [Pushes -> Jobs]
    BY PartsNext DEF JobsFine
  <2>4. s \in States
    BY <2>1, <2>3 DEF Jobs
  <2>5. QED  BY <1>1, <2>2, <2>4
<1>3. ASSUME NEW f \in failed', FirstStep(f) = "remove" PROVE ~NeverLinked'
  BY <1>1, <1>3, PartsNext DEF Said, RestFine
<1>4. QED  BY <1>2, <1>3 DEF Removing, At

LEMMA UnseenStays ==
  ASSUME Good, Apart, [Next]_vars
  PROVE  UnseenInv'
<1>0. Inv' /\ ShapeInv'
  BY GoodNext DEF EventInv
<1>1. ASSUME event'.status = "none" PROVE ~event'.typed
  <2>1. event.status = "none"
    BY <1>1, EventStays, ApartIs DEF Good
  <2>2. ~event.typed
    BY <2>1 DEF Good, InStepInv, UnseenInv
  <2>3. QED  BY <2>1, <2>2, EventSteps, ReachedTimes, TypeTimes DEF Good
<1>2. ASSUME event'.status # "none" PROVE event'.version > 0
  <2>1. event.version \in Nat
    BY Numbers DEF Good
  <2>2. event.status # "none" => event.version > 0
    BY DEF Good, InStepInv, UnseenInv
  <2>3. QED  BY <1>2, <2>1, <2>2, EventVersions
<1>3. ASSUME event'.status = "live", ~(row' # None /\ row'.link), NeverLinked'
      PROVE  ~event'.marked /\ ~event'.typed /\ listed' # event'.version
  <2>1. CASE event.status = "none"
    <3>1. ~UNCHANGED event
      BY <1>3, <2>1
    <3>2. PICK q \in Pushes : job[q].step \in Calls /\ event' = Reached(q)
      BY <2>1, <3>1, EventSteps, TypeTimes DEF Good
    <3>3. event'.typed = FALSE /\ event'.marked = FALSE
      BY <2>1, <3>1, <3>2, ReachedTimes DEF Good
    <3>4. QED  BY <3>1, <3>3, EventVersions, Numbers DEF Good
  <2>2. CASE event.status = "gone"
    BY <1>3, <2>2, EventStays, ApartIs DEF Good
  <2>3. CASE event.status = "live" /\ Linked
    <3>1. Detached'
      BY <1>3, <2>3, LinkLost, ApartIs DEF Good, EventInv
    <3>2. QED  BY <1>0, <1>3, <3>1, RemovingSays DEF Detached
  <2>4. CASE event.status = "live" /\ ~Linked
    <3>1. ASSUME Detached PROVE FALSE
      <4>1. Removing'
        BY <1>3, <3>1, RemovalGoes, ApartIs DEF Good, EventInv, Detached
      <4>2. QED  BY <1>0, <1>3, <4>1, RemovingSays
    <3>2. ToBeLinked /\ NeverLinked
      BY <2>4, <3>1 DEF Good, EventInv, UnlinkedInv, ToBeLinked
    <3>3. ~event.marked /\ ~event.typed /\ listed # event.version
      BY <2>4, <3>2 DEF Good, InStepInv, UnseenInv
    <3>4. UNCHANGED event
      <4>1. ~Type
        BY <2>4, TypeTimes DEF Good
      <4>2. ASSUME NEW q \in Pushes, job[q].step \in Calls, event' = Reached(q) PROVE UNCHANGED event
        <5>1. ~job[q].state.link
          BY <3>2, OfSaid DEF NeverLinked
        <5>2. At(q, "insert")
          BY <4>2, <5>1 DEF Good, EventInv, ShapeInv, Calls, At
        <5>3. QED  BY <2>4, <4>2, <5>2, ReachedIs DEF Good
      <4>3. QED  BY <4>1, <4>2, EventSteps DEF Good
    <3>5. ~ImportWrite
      <4> SUFFICES ASSUME ImportWrite PROVE FALSE
        OBVIOUS
      <4> DEFINE e == import.event
      <4>1. ImportTo(e) /\ e = event /\ import # None
        BY <3>3, Imports
      <4>2. ~Strange(import.row, row, e) /\ import.row = row
        BY <4>1 DEF Good, EventInv, OwnInv, LinkInv, ImportInv
      <4>3. Naked(row, e)
        BY <2>4, <4>1, <4>2 DEF Strange, Linked
      <4>4. QED  BY <1>3, <2>4, <4>1, <4>3 DEF ImportTo
    <3>6. QED  BY <2>4, <3>3, <3>4, <3>5, ListedSteps
  <2>5. QED  BY <2>1, <2>2, <2>3, <2>4, EventStatuses DEF Good
<1>4. QED  BY <1>1, <1>2, <1>3 DEF UnseenInv, Linked

LEMMA GoneStays ==
  ASSUME Good, Apart, [Next]_vars
  PROVE  GoneInv'
<1> SUFFICES ASSUME event'.status = "gone"
             PROVE  /\ ~(row' # None /\ row'.link) => row' = None \/ row'.status = "off"
                    /\ row' # None /\ row'.link /\ row'.status \in {"calendar", "done"}
                         => event'.typed /\ listed' # event'.version
  BY DEF GoneInv, Linked, OnCalendar, Awaited
<1>1. CASE event.status = "gone"
  <2>0. UNCHANGED event
    BY <1>1, EventStays, ApartIs DEF Good
  <2>1. /\ ~Linked => row = None \/ row.status = "off"
        /\ Linked /\ OnCalendar => Awaited
    BY <1>1 DEF Good, InStepInv, GoneInv
  <2>2. ASSUME NEW p \in Pushes, RepairDone(p) PROVE FALSE
    BY <1>1, <2>2, RepairTimes DEF Good
  <2>3. ASSUME NEW p \in Pushes, Wins(p), ~Linked \/ ~OnCalendar PROVE row' = None
    <3>1. ~op.create
      BY <1>1, <2>3 DEF Wins, Good, EventInv, KnownInv
    <3>2. op # None /\ row # None /\ (op.state.removes \/ ~op.late)
      BY <2>3, <3>1 DEF Wins
    <3>3. row.status \in Statuses
      BY <3>2, RowTypes DEF Good
    <3>4. op.late \/ op.state.removes
      BY <1>1, <2>3, <3>2, <3>3 DEF Good, InStepInv, AwayInv, OnCalendar, Statuses
    <3>5. QED  BY <2>3, <3>2, <3>4 DEF Wins
  <2>4. CASE ImportWrite
    <3> DEFINE e == import.event
    <3>1. /\ ImportTo(e) /\ listed' = e.version
          /\ e = event \/ (event.typed /\ listed' # event.version)
      BY <2>4, Imports
    <3>2. CASE event.typed /\ listed' # event.version
      <4>1. row' = None \/ ~row'.link => row' = None \/ row'.status = "off"
        BY <2>1, <3>1 DEF ImportTo, Linked
      <4>2. QED  BY <2>0, <3>2, <4>1
    <3>3. CASE e = event
      BY <1>1, <2>1, <3>1, <3>3 DEF ImportTo, Linked
    <3>4. QED  BY <3>1, <3>2, <3>3
  <2>5. ASSUME NEW p \in Pushes, Unlink(p), row # None
        PROVE  row' # None /\ ~row'.link /\ row'.status = "off"
    BY <2>5, UnlinkTimes DEF Unlink, At, Good, LinkInv, TakeBackInv
  <2>6. CASE ~Linked /\ ~ImportWrite
    <3>1. row' = None \/ row'.status = "off"
      <4>1. ASSUME NEW p \in Pushes, Stamp(p), row # None PROVE row'.status = "off"
        BY <2>1, <2>6, <4>1, StampEffect DEF Good
      <4>2. ASSUME NEW p \in Pushes, Mark(p), row # None PROVE row'.status = "off"
        BY <2>1, <2>6, <4>2, MarkTimes DEF Good
      <4>3. QED  BY <2>1, <2>2, <2>3, <2>5, <2>6, <4>1, <4>2, RowCases DEF Good
    <3>2. QED  BY <3>1
  <2>7. CASE Linked /\ ~ImportWrite
    <3>1. ASSUME ~(row' # None /\ row'.link) PROVE row' = None \/ row'.status = "off"
      <4>1. ASSUME NEW p \in Pushes, Wins(p) PROVE row' = None \/ row'.status = "off"
        BY <2>7, <3>1, <4>1, WinsRemove
      <4>2. ASSUME NEW p \in Pushes, Stamp(p) \/ Mark(p), row # None PROVE row' # None /\ row'.link
        BY <2>7, <4>2, StampEffect, MarkTimes DEF Good, Linked
      <4>3. QED  BY <2>2, <2>5, <2>7, <3>1, <4>1, <4>2, RowCases DEF Good, Linked
    <3>2. ASSUME row' # None, row'.link, row'.status \in {"calendar", "done"}
          PROVE  event'.typed /\ listed' # event'.version
      <4>1. OnCalendar
        <5> SUFFICES ASSUME ~OnCalendar PROVE FALSE
          OBVIOUS
        <5>1. row'.status # row.status
          BY <2>7, <3>2 DEF OnCalendar, Linked
        <5>2. ASSUME NEW p \in Pushes, Wins(p) PROVE FALSE
          BY <2>3, <3>2, <5>2
        <5>3. QED  BY <2>7, <5>1, <5>2, RowMoves DEF Good, Touches
      <4>2. Awaited
        BY <2>1, <2>7, <4>1
      <4>3. UNCHANGED listed
        <5>1. ~(row.pushed = event.version)
          <6>1. row.pushed < event.version
            BY <4>1, <4>2 DEF Good, InStepInv, AnchorInv, Awaited
          <6>2. QED  BY <2>7, <6>1, Numbers DEF Good, Linked
        <5>2. QED  BY <2>7, <5>1, ListedSteps
      <4>4. QED  BY <2>0, <4>2, <4>3 DEF Awaited
    <3>3. QED  BY <3>1, <3>2
  <2>8. QED  BY <2>4, <2>6, <2>7
<1>2. CASE event.status # "gone"
  <2>1. CASE Type
    <3>1. /\ row' # None /\ row'.link /\ event'.typed /\ UNCHANGED listed
          /\ event'.version = event.version + 1
      BY <2>1, TypeTimes DEF Good, Linked
    <3>2. QED  BY <3>1, Numbers DEF Good
  <2>2. ASSUME NEW q \in Pushes, Answer(q) \/ Fail(q), job[q].step \in Calls, event' = Reached(q)
        PROVE  row' = None \/ row'.status = "off" \/ (row'.link /\ row'.status = "trash")
    <3>0. UNCHANGED row
      BY <2>2 DEF Answer, Fail
    <3>1. \/ At(q, "write") /\ job[q].state.status = "trash"
          \/ job[q].step \in {"remove", "takeBack"}
      BY <1>2, <2>2, ReachedTimes DEF Good
    <3>2. CASE At(q, "write") /\ job[q].state.status = "trash"
      <4>1. Linked /\ job[q].state = StateOf(row)
        BY <3>2 DEF Good, InStepInv, TellInv, At
      <4>2. QED  BY <3>0, <3>2, <4>1, StateFields DEF Linked
    <3>3. CASE job[q].step = "remove"
      BY <3>0, <3>3 DEF Good, InStepInv, RemovalInv, Removing, At
    <3>4. CASE job[q].step = "takeBack"
      BY <3>0, <3>4 DEF Good, LinkInv, TakeBackInv
    <3>5. QED  BY <3>1, <3>2, <3>3, <3>4
  <2>3. QED  BY <1>2, <2>1, <2>2, EventSteps DEF Good
<1>3. QED  BY <1>1, <1>2

\* A removal is only begun by an operation.
LEMMA RemovingComes ==
  ASSUME Good, Apart, [Next]_vars, Removing'
  PROVE  Removing \/ \E p \in Pushes : Wins(p) /\ FirstStep(op.state) = "remove"
<1>1. ASSUME NEW f \in failed', FirstStep(f) = "remove" PROVE Removing
  <2>1. CASE f \in failed
    BY <1>1, <2>1 DEF Removing
  <2>2. ASSUME NEW p \in Pushes, f = job[p].of, job[p].step \in Calls PROVE Removing
    <3>1. CASE job[p].step = "remove"
      BY <3>1 DEF Removing, At
    <3>2. CASE job[p].step \in {"insert", "takeBack"}
      BY <1>1, <2>2, <3>2 DEF Good, InStepInv, TellInv
    <3>3. CASE At(p, "write")
      <4>1. /\ job[p].state = StateOf(row) /\ row.status # "off" /\ Linked
            /\ f = job[p].state \/ FirstStep(f) = "create"
        BY <2>2, <3>3 DEF Good, InStepInv, TellInv, At
      <4>2. f = StateOf(row)
        BY <1>1, <4>1
      <4>3. f.link \in BOOLEAN
        BY <2>2, JobTypes DEF Good
      <4>4. f.removes = FALSE /\ f.status = row.status
        BY <4>2, StateFields
      <4>5. QED  BY <1>1, <4>1, <4>3, <4>4, FirstOf
    <3>4. QED  BY <2>2, <3>1, <3>2, <3>3 DEF Calls, At
  <2>3. QED  BY <2>1, <2>2, FailedMoves DEF Good
<1>2. ASSUME NEW p \in Pushes, job'[p].step = "remove"
      PROVE  Removing \/ \E q \in Pushes : Wins(q) /\ FirstStep(op.state) = "remove"
  <2>1. CASE job'[p] = job[p]
    BY <1>2, <2>1 DEF Removing, At
  <2>2. ASSUME NEW s \in States, Asks(p, s), FirstStep(s) = "remove"
        PROVE  Removing \/ \E q \in Pushes : Wins(q) /\ FirstStep(op.state) = "remove"
    <3>1. CASE Apply(p) /\ op # None /\ s = op.state /\ ~(row = None /\ ~op.create) /\ (op.state.removes \/ ~op.late)
      <4>1. Wins(p)
        BY <3>1, Applying, OpTypes DEF Good
      <4>2. QED  BY <2>2, <3>1, <4>1
    <3>2. CASE s \in failed
      BY <2>2, <3>2 DEF Removing
    <3>3. CASE (Backfill(p) \/ Repush(p)) /\ row # None /\ s = StateOf(row)
      <4>1. row.status \in {"calendar", "done"}
        BY <3>3 DEF Backfill, Repush, MissedPush
      <4>2. ~s.removes /\ s.status # "off"
        BY <3>3, <4>1, StateFields
      <4>3. QED  BY <2>2, <4>2 DEF FirstStep
    <3>4. CASE RepairDone(p) /\ row # None /\ row' # None /\ row'.link /\ s = StateOf(row')
      <4>1. row'.status = "done"
        BY <3>4, RepairTimes DEF Good
      <4>2. PICK r : r = row'
        OBVIOUS
      <4>3. ~s.removes /\ s.status # "off"
        BY <3>4, <4>1, <4>2, StateFields
      <4>4. QED  BY <2>2, <4>3 DEF FirstStep
    <3>5. QED  BY <2>2, <3>1, <3>2, <3>3, <3>4 DEF Asks
  <2>3. CASE Answer(p) /\ Afterwards(p) # "idle" /\ job'[p].step = Afterwards(p)
    BY <1>2, <2>3, AfterwardsIs DEF Answer
  <2>4. QED  BY <1>2, <2>1, <2>2, <2>3, JobSteps, IdleJob DEF Good, Advances, GoesOn
<1>3. QED  BY <1>1, <1>2 DEF Removing, At

\* An item that is away: in the trash, or off the calendar for good.
Away == row # None /\ (IF Linked THEN row.status \in {"off", "trash"} ELSE Removing \/ event.status = "gone")

LEMMA AwayWins ==
  ASSUME Good, Away, NEW p \in Pushes, Wins(p)
  PROVE  op.state.removes /\ row' = None
<1>1. op # None /\ (op.state.removes \/ ~op.late)
  BY DEF Wins
<1>2. op.late \/ op.state.removes
  BY <1>1 DEF Good, InStepInv, AwayInv, Away
<1>3. QED  BY <1>1, <1>2 DEF Wins

\* While an operation waits, the row keeps its status and its link.
LEMMA WaitsFor ==
  ASSUME Good, Apart, [Next]_vars, op # None, op' # None, ~op'.late, row' # None
  PROVE  row # None /\ row'.status = row.status /\ row'.link = row.link /\ row'.content = row.content
<1>1. \A p \in Pushes : ~Wins(p)
  BY DEF Wins
<1>2. ASSUME NEW p \in Pushes PROVE ~(Stamp(p) /\ row # None) /\ ~(Unlink(p) /\ row # None) /\ ~RepairDone(p)
  BY StampTimes, UnlinkTimes, RepairTimes DEF Good, LateOnly
<1>3. ASSUME ImportWrite
      PROVE  row # None /\ row'.status = row.status /\ row'.link = row.link /\ row'.content = row.content
  BY <1>3, ImportTells, ApartIs DEF Good, LinkInv
<1>4. QED  BY <1>1, <1>2, <1>3, RowCases, MarkTimes DEF Good

LEMMA AwayStays ==
  ASSUME Good, Apart, [Next]_vars
  PROVE  AwayInv'
<1> SUFFICES ASSUME row' # None, op' # None, ~op'.late, ~op'.state.removes,
                    IF row'.link THEN row'.status \in {"off", "trash"} ELSE Removing' \/ event'.status = "gone"
             PROVE  FALSE
  BY DEF AwayInv, Linked
<1>1. CASE Gesture
  <2>1. UNCHANGED <<row, event, job, failed>> /\ Follows(row.status, op'.state.status)
        /\ ~(row.status = "off" /\ event.status # "none")
    BY <1>1, Gesturing, ApartIs DEF Good
  <2>2. row.status # "trash"
    BY <2>1 DEF Follows
  <2>3. CASE row.link
    BY <2>1, <2>2, <2>3 DEF Good, EventInv, KnownInv, Linked
  <2>4. CASE ~row.link /\ event.status = "gone"
    BY <2>1, <2>4 DEF Good, InStepInv, GoneInv, Linked
  <2>5. CASE ~row.link /\ Removing'
    <3>1. Inv' /\ EventInv'
      BY GoodNext
    <3>2. event'.status # "none"
      BY <2>5, <3>1, RemovingSays DEF EventInv, KnownInv
    <3>3. Removing
      BY <2>1, <2>5 DEF Removing, At
    <3>4. row.status = "off"
      BY <2>1, <3>3 DEF Good, InStepInv, RemovalInv
    <3>5. QED  BY <2>1, <3>2, <3>4
  <2>6. QED  BY <2>1, <2>3, <2>4, <2>5, RowTypes DEF Good
<1>2. CASE ~Gesture
  <2>1. op # None /\ ~op.late /\ ~op.state.removes
    BY <1>2, OpMoves, Reading DEF Good
  <2>2. row # None /\ row'.status = row.status /\ row'.link = row.link
    BY <2>1, WaitsFor
  <2>3. ~Away
    BY <2>1 DEF Good, InStepInv, AwayInv, Away
  <2>4. \A p \in Pushes : ~Wins(p)
    BY DEF Wins
  <2>5. ~row.link /\ ~Removing /\ event.status # "gone"
    BY <2>2, <2>3, RemovingComes, <2>4 DEF Away, Linked
  <2>6. event'.status = "gone"
    BY <2>2, <2>4, <2>5, RemovingComes
  <2>7. ~Type
    BY <2>5, TypeTimes DEF Good, Linked
  <2>8. PICK q \in Pushes : job[q].step \in Calls /\ event' = Reached(q)
    BY <2>5, <2>6, <2>7, EventSteps DEF Good
  <2>9. At(q, "write") \/ job[q].step \in {"remove", "takeBack"}
    BY <2>5, <2>6, <2>8, ReachedTimes DEF Good
  <2>10. ~At(q, "write")
    BY <2>5 DEF Good, InStepInv, TellInv, At, Linked
  <2>11. job[q].step # "takeBack"
    BY <2>2, <2>5 DEF Good, LinkInv, TakeBackInv
  <2>12. QED  BY <2>5, <2>9, <2>10, <2>11 DEF Removing, At
<1>3. QED  BY <1>1, <1>2

LEMMA RemovalStays ==
  ASSUME Good, Apart, [Next]_vars
  PROVE  RemovalInv'
<1> SUFFICES ASSUME Removing', row' # None PROVE row'.status = "off"
  BY DEF RemovalInv
<1>1. ASSUME NEW p \in Pushes, Wins(p), FirstStep(op.state) = "remove" PROVE row'.status = "off"
  <2>1. op.state.removes \/ op.state.status = "off"
    BY <1>1, FirstOf, OpTypes DEF Good, Wins
  <2>2. QED  BY <1>1, <2>1 DEF Wins
<1>2. CASE Removing
  <2>1. row = None \/ row.status = "off"
    BY <1>2 DEF Good, InStepInv, RemovalInv
  <2>2. ASSUME NEW p \in Pushes, Wins(p) PROVE FALSE
    <3>1. row # None
      BY <1>2, <2>2 DEF Wins, Good, LinkInv, FirstInv, Removing, Free, At
    <3>2. Away
      BY <1>2, <2>1, <3>1 DEF Away
    <3>3. QED  BY <2>2, <3>2, AwayWins
  <2>3. ~ImportWrite
    BY <1>2 DEF ImportWrite, Good, InStepInv, SyncInv
  <2>4. QED  BY <2>1, <2>2, <2>3, RowMoves DEF Good, Touches
<1>3. QED  BY <1>1, <1>2, RemovingComes

LEMMA OpLinkStays ==
  ASSUME Good, Apart, [Next]_vars
  PROVE  OpLinkInv'
<1> SUFFICES ASSUME op' # None, op'.state.link, ~op'.state.removes, op'.state.status # "off", ~op'.late
             PROVE  row' # None /\ row'.link
  BY DEF OpLinkInv, Linked
<1>1. CASE Gesture
  BY <1>1, Gesturing DEF Good, Linked
<1>2. CASE Hydrate
  <2>1. Linked
    BY <1>2, Reading DEF Good, InStepInv, OpLinkInv
  <2>2. QED  BY <1>2, <2>1, Reading DEF Good, Linked
<1>3. CASE op # None /\ op'.state = op.state /\ (op.late => op'.late)
  <2>1. Linked
    BY <1>3 DEF Good, InStepInv, OpLinkInv
  <2>2. row' # None
    <3>1. \A p \in Pushes : ~Wins(p)
      BY DEF Wins
    <3>2. ImportWrite => row' # None
      BY <2>1, ImportTells, ApartIs DEF Good, LinkInv, Linked
    <3>3. QED  BY <2>1, <3>1, <3>2, RowMoves DEF Good, Touches, Linked
  <2>3. QED  BY <1>3, <2>1, <2>2, WaitsFor DEF Linked
<1>4. QED  BY <1>1, <1>2, <1>3, OpMoves DEF Good

LEMMA SyncStays ==
  ASSUME Good, Apart, [Next]_vars
  PROVE  SyncInv'
<1> SUFFICES ASSUME import' # None
      PROVE  /\ listed' < import'.event.version /\ ~Removing'
             /\ \/ import'.event = event'
                \/ /\ event'.typed /\ import'.event.version < event'.version
                   /\ import'.event.status = "live" /\ event'.marked = import'.event.marked
             /\ row' # None /\ row'.link =>
                  row'.pushed < event'.version
  BY DEF SyncInv, Linked
<1>1. CASE ImportRead /\ import' = [event |-> event, row |-> row]
  <2>1. /\ Calm /\ UNCHANGED <<row, event, op, job, failed>> /\ event.version # listed
        /\ import = None
    BY <1>1, ApartIs DEF ImportRead
  <2>2. UNCHANGED listed /\ ~(Linked /\ row.pushed = event.version)
    BY <1>1, <2>1 DEF ImportRead, OwnEcho
  <2>3. listed' < event.version
    BY <2>1, <2>2, Numbers DEF Good
  <2>4. ~Removing /\ ~Telling
    BY <2>1 DEF Calm, Removing, Telling, Free, At
  <2>5. ~Removing'
    BY <2>1, <2>4 DEF Removing, At
  <2>6. import'.event = event
    BY <1>1
  <2>7. row # None /\ row.link => row.pushed < event.version
    BY <2>2, Numbers DEF Good, Linked
  <2>8. QED  BY <2>1, <2>3, <2>5, <2>6, <2>7
<1>2. CASE UNCHANGED import /\ ~ImportRead
  <2>1. /\ listed < import.event.version /\ ~Removing
        /\ \/ import.event = event
           \/ /\ event.typed /\ import.event.version < event.version
              /\ import.event.status = "live" /\ event.marked = import.event.marked
        /\ Linked => row.pushed < event.version
    BY <1>2 DEF Good, InStepInv, SyncInv
  <2>2. import.row = row /\ (\A p \in Pushes : Free(p)) /\ (op # None => ~op.read)
    BY <1>2 DEF Good, LinkInv, ImportInv
  <2>3. UNCHANGED row
    BY <1>2, <2>2, GoodNext DEF LinkInv, ImportInv
  <2>4. ~ImportWrite
    BY DEF ImportWrite
  <2>5. UNCHANGED listed
    BY <1>2, <2>4, ListedSteps
  <2>6. ~Removing'
    BY <2>1, <2>2, RemovingComes DEF Wins
  <2>7. CASE UNCHANGED event
    BY <1>2, <2>1, <2>3, <2>5, <2>6, <2>7 DEF Linked
  <2>8. CASE Type
    <3>1. event.status = "live" /\ event'.version = event.version + 1 /\ event'.typed
          /\ event'.marked = event.marked
      BY <2>8, TypeTimes DEF Good
    <3>2. import.event.version < event'.version /\ import.event.status = "live"
          /\ import.event.marked = event.marked
      BY <1>2, <2>1, <3>1, Numbers DEF Good
    <3>3. Linked => row.pushed < event'.version
      BY <2>1, <3>1, Numbers DEF Good, Linked
    <3>4. QED  BY <1>2, <2>1, <2>3, <2>5, <2>6, <3>1, <3>2, <3>3 DEF Linked
  <2>9. QED  BY <2>2, <2>7, <2>8, EventSteps DEF Good, Free, Calls
<1>3. CASE ImportRead /\ UNCHANGED import
  BY <1>3 DEF ImportRead
<1>4. QED  BY <1>1, <1>2, <1>3, ImportSteps

LEMMA FaultCounts ==
  ASSUME Inv, Counted("faults", MaxFaults)
  PROVE  count'["faults"] > 0
<1>1. count \in [{"gestures", "typed", "faults"} -> Nat]
  BY Parts DEF RestFine
<1> DEFINE v == count["faults"] + 1
<1>2. count' = [count EXCEPT !["faults"] = v] /\ v > 0
  BY <1>1 DEF Counted
<1> HIDE DEF v
<1>3. QED  BY <1>1, <1>2

LEMMA FaultStays ==
  ASSUME Good, Apart, [Next]_vars
  PROVE  FaultInv'
<1> SUFFICES ASSUME count'["faults"] = 0
      PROVE  /\ failed' = {}
             /\ event'.status = "live" /\ ~(row' # None /\ row'.link) =>
                  \E p \in Pushes : job'[p].step \in {"stamp", "remove"}
             /\ row' # None /\ row'.status = "calendar" /\ ~row'.link => Creating'
  BY DEF FaultInv, Linked, At
<1>1. count["faults"] = 0 /\ failed' \subseteq failed /\ ~Crash /\ \A p \in Pushes : ~Fail(p)
  <2>1. ~Crash /\ \A p \in Pushes : ~Fail(p)
    BY FaultCounts DEF Good, Crash, Fail
  <2>2. QED  BY <2>1, FaultsCount DEF Good
<1>2. /\ failed = {}
      /\ event.status = "live" /\ ~Linked => \E p \in Pushes : At(p, "stamp") \/ At(p, "remove")
      /\ row # None /\ row.status = "calendar" /\ ~row.link => Creating
  BY <1>1 DEF Good, InStepInv, FaultInv
<1>3. failed' = {}
  BY <1>1, <1>2
<1>4. ASSUME event'.status = "live", ~(row' # None /\ row'.link)
      PROVE  \E p \in Pushes : job'[p].step \in {"stamp", "remove"}
  <2>1. CASE event.status = "none"
    <3>1. PICK q \in Pushes : Answer(q) /\ job[q].step \in Calls /\ event' = Reached(q)
      BY <1>1, <1>4, <2>1, EventSteps, TypeTimes DEF Good
    <3>2. At(q, "insert")
      BY <1>4, <2>1, <3>1, ReachedIs DEF Good
    <3>3. Afterwards(q) = "stamp"
      BY <3>2 DEF Afterwards
    <3>4. job'[q].step = "stamp"
      <4>1. job' = [job EXCEPT ![q] = [job[q] EXCEPT !.step = "stamp", !.wrote = Reached(q).version]]
        BY <3>1, <3>3 DEF Answer
      <4>2. job \in [Pushes -> Jobs] /\ job[q] \in Jobs
        BY Parts, JobTypes DEF Good, JobsFine
      <4>3. QED  BY <4>1, <4>2 DEF Jobs
    <3>5. QED  BY <3>4
  <2>2. CASE event.status = "gone"
    BY <1>4, <2>2, EventStays, ApartIs DEF Good
  <2>3. CASE event.status = "live" /\ Linked
    <3>1. Detached'
      BY <1>4, <2>3, LinkLost, ApartIs DEF Good, EventInv
    <3>2. QED  BY <1>3, <3>1 DEF Detached, Removing, At
  <2>4. CASE event.status = "live" /\ ~Linked
    <3>1. PICK p \in Pushes : At(p, "stamp") \/ At(p, "remove")
      BY <1>2, <2>4
    <3>2. ~Stamp(p)
      <4>1. ASSUME Stamp(p) PROVE FALSE
        <5>1. row # None
          BY <4>1 DEF Stamp, At, Good, EventInv, ShapeInv
        <5>2. QED  BY <1>4, <4>1, <5>1, StampEffect DEF Good
      <4>2. QED  BY <4>1
    <3>3. ~Answer(p)
      <4>1. ASSUME Answer(p) PROVE FALSE
        <5>1. job[p].step \in Calls /\ event' = Reached(p) /\ At(p, "remove")
          BY <3>1, <4>1 DEF Answer, Calls, At
        <5>2. QED  BY <1>4, <5>1, ReachedIs DEF Good
      <4>2. QED  BY <4>1
    <3>4. ~Check(p) /\ ~Unlink(p) /\ ~Mark(p) /\ ~Free(p)
      BY <3>1 DEF Check, Unlink, Mark, At, Free
    <3>5. job'[p] = job[p]
      BY <1>1, <3>2, <3>3, <3>4, Busy DEF Good
    <3>6. QED  BY <3>1, <3>5 DEF At
  <2>5. QED  BY <2>1, <2>2, <2>3, <2>4, EventStatuses DEF Good
<1>5. ASSUME row' # None, row'.status = "calendar", ~row'.link PROVE Creating'
  <2>1. ASSUME NEW p \in Pushes, Wins(p) PROVE Creating'
    <3>1. op # None /\ ~op.state.removes /\ op.state.status = "calendar" /\ ~op.state.link
          /\ Push(p, op.state, FALSE) /\ op.state \in States
      BY <1>5, <2>1, OpTypes DEF Wins, Good
    <3>2. FirstStep(op.state) = "create"
      BY <3>1 DEF FirstStep
    <3>3. job'[p].step = "create"
      BY <3>1, <3>2, Pushed DEF Good
    <3>4. QED  BY <3>3 DEF Creating
  <2>2. CASE row # None /\ row.status = "calendar" /\ ~row.link
    <3>1. PICK p \in Pushes : job[p].step \in {"create", "insert", "stamp"}
      BY <1>2, <2>2 DEF Creating
    <3>2. ~Stamp(p)
      BY <1>5, <2>2, StampEffect DEF Good
    <3>3. ~Unlink(p) /\ ~Mark(p) /\ ~Free(p) /\ job \in [Pushes -> Jobs] /\ job[p] \in Jobs
      BY <3>1, JobTypes, Parts DEF Unlink, Mark, At, Free, Good, JobsFine
    <3>4. CASE Answer(p)
      <4>1. At(p, "insert") /\ Afterwards(p) = "stamp"
        BY <3>1, <3>4 DEF Answer, Calls, At, Afterwards
      <4>2. job' = [job EXCEPT ![p] = [job[p] EXCEPT !.step = "stamp", !.wrote = Reached(p).version]]
        BY <3>4, <4>1 DEF Answer
      <4>3. job'[p].step = "stamp"
        BY <3>3, <4>2 DEF Jobs
      <4>4. QED  BY <4>3 DEF Creating
    <3>5. CASE Check(p)
      <4>1. CASE InFlight
        <5>1. PICK q \in Pushes : job[q].slot
          BY <4>1 DEF InFlight
        <5>2. job[q].step \notin {"idle", "create", "remove"}
          BY <5>1 DEF Good, InStepInv, TellInv
        <5>3. job[q].step \notin {"write", "mark"}
          BY <2>2 DEF Good, InStepInv, TellInv, Linked
        <5>4. job[q].step \notin {"takeBack", "unlink"}
          BY <2>2 DEF Good, LinkInv, TakeBackInv
        <5>5. job[q].step \in {"insert", "stamp"}
          BY <5>2, <5>3, <5>4, JobTypes DEF Good, Jobs, Steps
        <5>6. q # p
          BY <3>5, <5>2 DEF Check, At
        <5>7. job'[q] = job[q]
          BY <3>5, <5>6, CheckMoves DEF Good
        <5>8. QED  BY <5>5, <5>7 DEF Creating
      <4>2. CASE ~InFlight
        <5>1. job' = [job EXCEPT ![p] = [job[p] EXCEPT !.step = "insert", !.slot = TRUE]]
          BY <2>2, <3>5, <4>2 DEF Check, Linked
        <5>2. job'[p].step = "insert"
          BY <3>3, <5>1 DEF Jobs
        <5>3. QED  BY <5>2 DEF Creating
      <4>3. QED  BY <4>1, <4>2
    <3>6. CASE job'[p] = job[p]
      BY <3>1, <3>6 DEF Creating
    <3>7. QED  BY <1>1, <3>2, <3>3, <3>4, <3>5, <3>6, Busy DEF Good
  <2>3. CASE ~(row # None /\ row.status = "calendar" /\ ~row.link)
    <3>1. ASSUME NEW p \in Pushes, (Stamp(p) \/ Mark(p)) /\ row # None PROVE FALSE
      BY <1>5, <2>3, <3>1, StampEffect, MarkTimes DEF Good
    <3>2. ASSUME NEW p \in Pushes, Unlink(p), row # None PROVE FALSE
      BY <1>5, <3>2, UnlinkTimes DEF Unlink, At, Good, LinkInv, TakeBackInv
    <3>3. ASSUME NEW p \in Pushes, RepairDone(p) PROVE FALSE
      BY <1>5, <3>3, RepairTimes DEF Good
    <3>4. ~ImportWrite
      <4>1. CASE ~Linked
        BY <1>5, <2>3, <4>1, ImportUnlinked DEF Good, LinkInv
      <4>2. CASE Linked
        BY <1>5, <4>2, ImportLeaves DEF Good, LinkInv, Linked
      <4>3. QED  BY <4>1, <4>2
    <3>5. QED  BY <1>5, <2>1, <2>3, <3>1, <3>2, <3>3, <3>4, RowCases DEF Good
  <2>4. QED  BY <2>2, <2>3
<1>6. QED  BY <1>3, <1>4, <1>5

\* The devices hear of a sync's change of the status with the row's own anchor.
LEMMA RevivalTold ==
  ASSUME Good, Apart, [Next]_vars, ImportWrite, row # None, row' # None, row'.status # row.status
  PROVE  anchor' = row'.pushed
<1> DEFINE new == Upserted(import.row, row, import.event)
           told == new # None /\ (row # None => [new EXCEPT !.synced = row.synced, !.fresh = row.fresh] # row)
<1>1. row' = new /\ (told => anchor' = new.pushed)
  BY DEF ImportWrite
<1>2. told
  <2>1. PICK r : r = new
    OBVIOUS
  <2>2. r \in Rows
    BY <1>1, <2>1, GoodNext, PartsNext DEF RestFine
  <2>3. [r EXCEPT !.synced = row.synced, !.fresh = row.fresh].status = r.status
    BY <2>2 DEF Rows
  <2>4. QED  BY <1>1, <2>1, <2>3
<1>3. QED  BY <1>1, <1>2

LEMMA SyncedStays ==
  ASSUME Good, Apart, [Next]_vars
  PROVE  /\ row' # None => row'.synced <= listed'
         /\ op' # None => op'.synced <= listed'
<1>1. /\ row # None => row.synced <= listed
      /\ op # None => op.synced <= listed
  BY DEF Good, InStepInv, AnchorInv
<1>2. listed \in Nat /\ listed' \in Nat /\ listed <= listed'
  <2>1. ImportWrite => listed < import.event.version /\ import.event.version \in Nat
    BY Imports, Numbers DEF Good
  <2>2. QED  BY <2>1, ListedSteps, Numbers DEF Good
<1>3. (row # None => row.synced \in Nat) /\ (op # None => op.synced \in Nat)
  BY Numbers DEF Good
<1>4. ASSUME op' # None PROVE op'.synced <= listed'
  BY <1>1, <1>2, <1>3, <1>4, OpTimes DEF Good
<1>5. ASSUME row' # None PROVE row'.synced <= listed'
  <2>1. ASSUME NEW p \in Pushes, Wins(p) PROVE row'.synced <= listed'
    <3>1. op # None /\ ~op.state.removes
      BY <1>5, <2>1 DEF Wins
    <3>2. row'.synced = 0 \/ row'.synced = op.synced
      BY <2>1, <3>1, WinTimes DEF Good
    <3>3. QED  BY <1>1, <1>2, <1>3, <3>1, <3>2
  <2>2. CASE ImportWrite
    <3>1. /\ row'.synced = row.synced \/ row'.synced = listed'
          /\ row = None => row' = None
      BY <2>2, <1>5, Imports, ImportTells, ApartIs DEF ImportTo, Good, LinkInv
    <3>2. QED  BY <1>1, <1>2, <1>3, <1>5, <3>1
  <2>3. CASE row # None /\ row'.synced = row.synced
    BY <1>1, <1>2, <1>3, <2>3
  <2>4. QED
    BY <1>5, <2>1, <2>2, <2>3, RowCases, StampTimes, UnlinkTimes, MarkTimes, RepairTimes DEF Good
<1>6. QED  BY <1>4, <1>5

\* While Google's user's change is the last, nothing that is noted reaches it.
LEMMA TypedStays ==
  ASSUME Good, Apart, [Next]_vars, event'.typed,
         row' # None, row'.status \in {"calendar", "done"}
  PROVE  /\ row'.pushed < event'.version /\ anchor' < event'.version
         /\ op' # None /\ ~op'.create /\ ~op'.late /\ ~op'.state.removes => op'.pushed < event'.version
         /\ \A p \in Pushes : job'[p].step # "idle" => job'[p].wrote < event'.version
<1> DEFINE Q ==
      /\ row'.pushed < event'.version /\ anchor' < event'.version
      /\ op' # None /\ ~op'.create /\ ~op'.late /\ ~op'.state.removes => op'.pushed < event'.version
      /\ \A p \in Pushes : job'[p].step # "idle" => job'[p].wrote < event'.version
<1>1. CASE Type
  <2>1. event'.version = event.version + 1 /\ UNCHANGED <<row, op, job, anchor>>
    BY <1>1, TypeTimes DEF Good
  <2>2. QED  BY <2>1, Numbers DEF Good
<1>2. ASSUME NEW q \in Pushes, job[q].step \in Calls, event' = Reached(q) PROVE UNCHANGED event
  BY <1>2, ReachedTimes DEF Good
<1> SUFFICES ASSUME UNCHANGED event, event.typed, ~Type PROVE Q
  BY <1>1, <1>2, EventSteps DEF Good
<1>3. event.version \in Nat /\ event.version > 0 /\ event.status # "none"
  BY Numbers DEF Good, InStepInv, UnseenInv
<1>4. CASE OnCalendar
  <2>1. /\ row # None /\ row.pushed < event.version /\ anchor < event.version
        /\ op # None /\ ~op.create /\ ~op.late /\ ~op.state.removes => op.pushed < event.version
        /\ \A p \in Pushes : ~Free(p) => job[p].wrote < event.version
    BY <1>4 DEF Good, InStepInv, AnchorInv, OnCalendar
  <2>2. ASSUME NEW p \in Pushes, (Stamp(p) \/ Mark(p)) /\ row # None
        PROVE  row'.pushed < event.version /\ (Stamp(p) => anchor' = row'.pushed)
    <3>1. ~Free(p)
      BY <2>2 DEF Stamp, Mark, At, Free
    <3>2. QED  BY <2>1, <2>2, <3>1, StampTimes, MarkTimes DEF Good
  <2>3. row'.pushed < event.version
    <3>1. ASSUME NEW p \in Pushes, Wins(p) PROVE row'.pushed < event.version
      <4>1. op # None /\ ~op.state.removes /\ ~op.late
        BY <3>1 DEF Wins
      <4>2. ~op.create
        BY <2>1, <4>1 DEF Good, LinkInv, FirstInv
      <4>3. row'.pushed = 0 \/ row'.pushed = op.pushed
        BY <3>1, <4>1, WinTimes DEF Good
      <4>4. QED  BY <1>3, <2>1, <4>1, <4>2, <4>3
    <3>2. ImportWrite => row'.pushed = row.pushed
      BY Imports DEF ImportTo
    <3>3. QED
      BY <2>1, <2>2, <3>1, <3>2, RowCases, UnlinkTimes, RepairTimes DEF Good
  <2>4. anchor' < event.version
    BY <2>1, <2>2, <2>3, AnchorSteps, RepairTimes DEF Good
  <2>5. ASSUME op' # None, ~op'.create, ~op'.late, ~op'.state.removes PROVE op'.pushed < event.version
    <3>1. \/ op'.pushed = 0 \/ op'.pushed = anchor \/ op'.pushed = row.pushed
          \/ ~Gesture /\ op # None /\ op'.pushed = op.pushed
      BY <2>5, OpTimes, Gesturing DEF Good
    <3>2. ~Gesture => op # None /\ ~op.create /\ ~op.late /\ ~op.state.removes
      BY <2>5, OpMoves, Reading DEF Good
    <3>3. QED  BY <1>3, <2>1, <3>1, <3>2
  <2>6. ASSUME NEW p \in Pushes, job'[p].step # "idle" PROVE job'[p].wrote < event.version
    <3>1. CASE Answer(p) /\ Afterwards(p) # "idle"
      <4>1. job[p].step \in Calls /\ Reached(p) = event
        BY <3>1 DEF Answer
      <4>2. At(p, "insert")
        <5>1. At(p, "insert") \/ event.status = "live"
          BY <3>1, <4>1, AfterwardsIs
        <5>2. Reached(p).version # event.version + 1
          BY <1>3, <4>1
        <5>3. QED  BY <4>1, <5>1, <5>2, ReachedTimes DEF Good
      <4>3. ~Linked
        BY <4>2 DEF Good, InStepInv, TellInv, At
      <4>4. row.status # "off"
        BY <1>4 DEF OnCalendar
      <4>5. CASE event.status = "live"
        BY <2>1, <4>3, <4>4, <4>5, NotDetached
      <4>6. CASE event.status = "gone"
        BY <2>1, <4>3, <4>4, <4>6 DEF Good, InStepInv, GoneInv
      <4>7. QED  BY <1>3, <4>5, <4>6, EventStatuses DEF Good
    <3>2. CASE job'[p] = job[p]
      BY <2>1, <2>6, <3>2 DEF Free
    <3>3. CASE job'[p].wrote = 0
      BY <1>3, <3>3
    <3>4. CASE job'[p].wrote = job[p].wrote /\ job[p].step \in {"create", "stamp"}
      BY <2>1, <3>4 DEF Free
    <3>5. QED  BY <2>6, <3>1, <3>2, <3>3, <3>4, JobFields, IdleJob DEF Good
  <2>7. QED  BY <2>3, <2>4, <2>5, <2>6
<1>5. CASE ~OnCalendar
  <2>1. row # None => row.status \in {"off", "trash"}
    BY <1>5, RowTypes DEF OnCalendar, Good, Statuses
  <2>2. row # None => Away
    <3>1. ASSUME row # None, ~Linked, event.status = "live" PROVE Removing
      <4>1. CASE row.status = "trash"
        BY <3>1, <4>1, NotDetached
      <4>2. CASE ~(row.status = "trash") /\ ~Detached
        <5>1. ToBeLinked
          BY <3>1, <4>2 DEF Good, EventInv, UnlinkedInv
        <5>2. QED  BY <3>1, <5>1 DEF ToBeLinked, Good, InStepInv, UnseenInv
      <4>3. QED  BY <4>1, <4>2 DEF Detached
    <3>2. QED  BY <1>3, <2>1, <3>1, EventStatuses DEF Good, Away
  <2>3. ASSUME NEW p \in Pushes, Wins(p) PROVE FALSE
    <3>1. CASE row = None
      BY <1>3, <2>3, <3>1 DEF Wins, Good, EventInv, KnownInv
    <3>2. CASE row # None
      BY <2>2, <2>3, <3>2, AwayWins
    <3>3. QED  BY <3>1, <3>2
  <2>4. row'.status # row.status \/ row = None
    BY <1>5 DEF OnCalendar
  <2>5. ImportWrite /\ row # None
    <3>1. ImportWrite
      BY <2>3, <2>4, RowMoves DEF Good, Touches
    <3>2. QED  BY <3>1, ImportTells, ApartIs DEF Good, LinkInv
  <2>6. /\ ImportTo(import.event) /\ (\A p \in Pushes : Free(p)) /\ UNCHANGED job
        /\ import # None
    BY <2>5, Imports
  <2>7. Linked /\ row'.pushed = row.pushed
    BY <2>1, <2>5, <2>6 DEF ImportTo
  <2>8. row.pushed < event.version
    BY <2>6, <2>7 DEF Good, InStepInv, SyncInv
  <2>9. anchor' = row'.pushed
    BY <2>4, <2>5, RevivalTold
  <2>10. op' # None => op'.late
    BY <2>4, <2>5, ImportTells, ApartIs DEF Good, LinkInv
  <2>11. QED  BY <2>6, <2>7, <2>8, <2>9, <2>10 DEF Free
<1>6. QED  BY <1>4, <1>5

\* A linked item that no push and no sync has noted is one that the next sync reads.
LEMMA UnsyncedStays ==
  ASSUME Good, Apart, [Next]_vars, row' # None, row'.link, event'.status = "live",
         row'.status \in {"calendar", "done"}, row'.pushed = 0, row'.synced = 0
  PROVE  listed' # event'.version
<1>0. event.version \in Nat /\ listed \in Nat
  BY Numbers DEF Good
<1>1. CASE ~UNCHANGED event
  BY <1>0, <1>1, EventVersions, GoodNext, Numbers
<1> SUFFICES ASSUME UNCHANGED event PROVE listed' # event'.version
  BY <1>1
<1>2. ~ImportWrite
  <2> SUFFICES ASSUME ImportWrite PROVE FALSE
    OBVIOUS
  <2>1. ImportTo(import.event) /\ listed < import.event.version /\ import # None
    BY Imports
  <2>2. row'.synced # import.event.version
    BY <1>0, <2>1, Numbers DEF Good
  <2>3. Linked /\ row'.status = "trash"
    BY <2>1, <2>2 DEF ImportTo, Linked
  <2>4. QED  BY <2>3
<1>3. ASSUME NEW p \in Pushes, (Stamp(p) \/ Mark(p)) /\ row # None PROVE FALSE
  <2>1. job[p].wrote > 0
    BY <1>3 DEF Stamp, Mark, At, Good, InStepInv, TellInv
  <2>2. row'.pushed = job[p].wrote
    BY <1>3, StampTimes, MarkTimes DEF Good
  <2>3. QED  BY <2>1, <2>2, Numbers DEF Good
<1>4. ASSUME NEW p \in Pushes, Unlink(p), row # None PROVE FALSE
  BY <1>4, UnlinkTimes DEF Good
<1>5. CASE ~Linked
  <2>1. PICK p \in Pushes : RepairDone(p)
    BY <1>2, <1>3, <1>5, NewLink
  <2>2. listed # event.version /\ UNCHANGED listed
    BY <1>5, <2>1, RepairTimes, NotDetached DEF Good
  <2>3. QED  BY <2>2
<1>6. CASE Linked
  <2>1. row # None /\ row.pushed = 0 /\ row.synced = 0 /\ OnCalendar
    <3>1. ASSUME NEW p \in Pushes, Wins(p) PROVE row.pushed = 0 /\ row.synced = 0 /\ OnCalendar
      <4>1. ~op.state.removes /\ op.state.status # "off" /\ op.pushed = 0 /\ op.synced = 0
        BY <3>1, WinsWrite
      <4>2. row.pushed = 0 /\ row.synced = 0
        BY <1>6, <3>1, <4>1, WinTimes DEF Good, Overwrites, Linked
      <4>3. ~Away
        BY <3>1, <4>1, AwayWins
      <4>4. OnCalendar
        BY <1>6, <4>3, RowTypes DEF Good, Away, OnCalendar, Linked, Statuses
      <4>5. QED  BY <4>2, <4>4
    <3>2. ASSUME NEW p \in Pushes, RepairDone(p) PROVE FALSE
      BY <1>6, <3>2, RepairTimes DEF Good, Linked
    <3>3. QED  BY <1>2, <1>3, <1>4, <1>6, <3>1, <3>2, RowCases DEF Good, OnCalendar, Linked
  <2>2. event.status = "live" /\ event.version > 0
    BY DEF Good, InStepInv, UnseenInv
  <2>3. listed # event.version
    BY <1>6, <2>1, <2>2 DEF Good, InStepInv, AnchorInv
  <2>4. UNCHANGED listed
    BY <1>2, <2>1, <2>2, ListedSteps
  <2>5. QED  BY <2>3, <2>4
<1>7. QED  BY <1>5, <1>6

LEMMA AnchorStays ==
  ASSUME Good, Apart, [Next]_vars
  PROVE  AnchorInv'
BY SyncedStays, TypedStays, UnsyncedStays DEF AnchorInv, OnCalendar, Linked, Free

LEMMA InStepInit == Init => InStepInv
<1> SUFFICES ASSUME Init PROVE InStepInv
  OBVIOUS
<1>1. /\ row = None /\ op = None /\ import = None /\ failed = {} /\ listed = 0
      /\ event.status = "none" /\ ~event.typed
      /\ \A p \in Pushes : Free(p) /\ ~job[p].slot
  BY DEF Init, Free, Idle
<1>2. TellInv /\ ToldInv
  BY <1>1 DEF TellInv, ToldInv, Free, At
<1>3. AgreeInv /\ AnchorInv /\ UnseenInv /\ GoneInv
  BY <1>1 DEF AgreeInv, AnchorInv, UnseenInv, GoneInv, Linked, OnCalendar
<1>4. AwayInv /\ RemovalInv /\ OpLinkInv /\ SyncInv /\ FaultInv
  BY <1>1 DEF AwayInv, RemovalInv, OpLinkInv, SyncInv, FaultInv
<1>5. QED  BY <1>2, <1>3, <1>4 DEF InStepInv

LEMMA GoodStep == ASSUME Apart PROVE Good /\ [Next]_vars => Good'
<1> SUFFICES ASSUME Good, [Next]_vars PROVE Good'
  OBVIOUS
<1>1. Inv' /\ LinkInv' /\ EventInv'
  BY GoodNext
<1>2. TellInv' /\ ToldInv' /\ AgreeInv'
  BY TellStays, ToldStays, AgreeStays
<1>3. AnchorInv' /\ UnseenInv' /\ GoneInv'
  BY AnchorStays, UnseenStays, GoneStays
<1>4. AwayInv' /\ RemovalInv' /\ OpLinkInv' /\ SyncInv' /\ FaultInv'
  BY AwayStays, RemovalStays, OpLinkStays, SyncStays, FaultStays
<1>5. QED  BY <1>1, <1>2, <1>3, <1>4 DEF Good, InStepInv

LEMMA AlwaysGood == ASSUME Apart PROVE Spec => []Good
<1>1. Init => Good
  BY InvInit, LinkInit, EventInit, InStepInit DEF Good
<1>2. Good /\ [Next]_vars => Good'
  BY GoodStep
<1>3. QED  BY <1>1, <1>2, PTL DEF Spec

\* An item and its event that rest agree.
LEMMA RestInStep ==
  ASSUME Good
  PROVE  InStep
<1> SUFFICES ASSUME Quiet, count["faults"] = 0 \/ ~Missed PROVE InAgreement
  BY DEF InStep
<1>1. /\ failed = {} /\ listed = event.version /\ op = None
      /\ \A p \in Pushes : Free(p)
  BY DEF Quiet
<1>2. ~Telling /\ ~Removing /\ ~Creating /\ (\A p \in Pushes : ~At(p, "stamp") /\ ~At(p, "remove"))
  BY <1>1 DEF Telling, Removing, Creating, Free, At
<1>3. event.version \in Nat /\ count["faults"] \in Nat
  BY Numbers, Parts DEF Good, RestFine
<1>4. event.status \in {"none", "live", "gone"}
  BY EventStatuses DEF Good
<1>5. ASSUME event.status = "live", ~Linked PROVE FALSE
  <2>1. ToBeLinked
    BY <1>2, <1>5 DEF Good, EventInv, UnlinkedInv, Detached
  <2>2. listed # event.version
    BY <1>5, <2>1 DEF ToBeLinked, Good, InStepInv, UnseenInv
  <2>3. QED  BY <1>1, <2>2
<1>6. CASE event.status = "live"
  <2>1. Linked
    BY <1>5, <1>6
  <2>2. ~Awaited
    BY <1>1 DEF Awaited
  <2>3. ASSUME Owed PROVE FALSE
    <3>1. row.fresh /\ OnCalendar /\ count["faults"] > 0
      BY <1>1, <2>3 DEF Owed
    <3>2. ~(row.pushed = 0 /\ row.synced = 0)
      BY <1>1, <1>6, <2>1, <3>1 DEF Good, InStepInv, AnchorInv
    <3>3. MissedPush
      BY <2>1, <3>1, <3>2 DEF MissedPush, Linked, OnCalendar
    <3>4. QED  BY <1>3, <3>1, <3>3 DEF Missed
  <2>4. StatusAgrees /\ row.content = event.content
    BY <1>2, <1>6, <2>1, <2>2, <2>3 DEF Good, InStepInv, AgreeInv, StatusAgrees, ContentAgrees
  <2>5. QED  BY <1>6, <2>1, <2>4 DEF InAgreement, StatusAgrees, OnCalendar, Agrees, Linked
<1>7. CASE event.status = "gone"
  <2>1. ~(Linked /\ OnCalendar)
    BY <1>1, <1>7 DEF Good, InStepInv, GoneInv, Awaited
  <2>2. ~Linked => row = None \/ row.status = "off"
    BY <1>7 DEF Good, InStepInv, GoneInv
  <2>3. row = None \/ row.status \in {"off", "trash"}
    BY <2>1, <2>2, RowTypes DEF Good, Linked, OnCalendar, Statuses
  <2>4. QED  BY <1>7, <2>3 DEF InAgreement
<1>8. CASE event.status = "none"
  <2>1. ~Linked
    BY <1>8 DEF Good, EventInv, KnownInv
  <2>2. CASE row # None /\ row.status = "calendar"
    <3>1. count["faults"] # 0
      BY <1>2, <2>1, <2>2 DEF Good, InStepInv, FaultInv, Linked
    <3>2. Missed
      BY <2>1, <2>2 DEF Missed, Linked
    <3>3. QED  BY <3>1, <3>2
  <2>3. CASE row = None \/ row.status # "calendar"
    BY <1>8, <2>1, <2>3, RowTypes DEF Good, InAgreement, Statuses, Linked
  <2>4. QED  BY <2>2, <2>3
<1>9. QED  BY <1>4, <1>6, <1>7, <1>8

\* Once all is answered, imported and dealt with, the item and its event say the
\* same, however many pushes were lost on the way, as long as no two steps race:
\* only an edit may be late for the link's stamp.
\* (pushStateReachedDuringCreate, the sweeps, upsertCalendarItem)
THEOREM StaysInStep == Races \subseteq {"lateEdit", "lostTwice"} => (Spec => []InStep)
<1> SUFFICES ASSUME Apart PROVE Spec => []InStep
  BY DEF Apart
<1>1. Good => InStep
  BY RestInStep
<1>2. QED  BY <1>1, AlwaysGood, PTL

\* What a sync has read of the app's own write, a push that tells would have
\* replaced, if the item said anything else.
LEMMA EchoStays ==
  ASSUME Good, Apart, NotedInv, EchoInv, [Next]_vars
  PROVE  EchoInv'
<1> SUFFICES ASSUME import' # None, row' # None, row'.link, import'.event.status = "live", ~import'.event.typed
             PROVE  row'.content = import'.event.content
  BY DEF EchoInv, Linked
<1>1. CASE ImportRead /\ import' = [event |-> event, row |-> row]
  <2>1. Calm /\ UNCHANGED row /\ event.version # listed /\ import'.event = event
    BY <1>1, ApartIs DEF ImportRead
  <2>2. ~(Linked /\ row.pushed = event.version)
    BY <1>1, <2>1 DEF ImportRead, OwnEcho
  <2>3. ~Telling
    BY <2>1 DEF Calm, Telling, Free, At
  <2>4. Linked /\ ~Unnoted
    BY <2>1, <2>3 DEF NotedInv, Linked
  <2>5. QED  BY <2>1, <2>2, <2>4 DEF Unnoted, Linked
<1>2. CASE UNCHANGED import /\ ~ImportRead
  <2>1. UNCHANGED row
    BY <1>2, GoodNext DEF Good, LinkInv, ImportInv
  <2>2. QED  BY <1>2, <2>1 DEF EchoInv, Linked
<1>3. CASE ImportRead /\ UNCHANGED import
  BY <1>3 DEF ImportRead
<1>4. QED  BY <1>1, <1>2, <1>3, ImportSteps

\* What is brought to a row is what Google's user has typed.
LEMMA BringsTyped ==
  ASSUME Good, Apart, EchoInv, ImportWrite, row # None, row'.content # row.content
  PROVE  import.event.typed
<1>1. ImportTo(import.event) /\ import # None
  BY Imports
<1>2. Linked /\ import.event.status = "live" /\ row.content # import.event.content
  BY <1>1 DEF ImportTo
<1>3. QED  BY <1>1, <1>2 DEF EchoInv

\* A sync brings no content to the item but what Google's user has typed, as long
\* as nothing races and no push is lost right after the answer of another: the
\* app's own writes are told by their time, and one that is not noted is followed
\* by another before a sync reads.  (isOwnEcho)
THEOREM OwnWritesStay == Races \subseteq {"lateEdit"} => (Spec => OwnWritesStayOut)
<1> SUFFICES ASSUME Apart, "lostTwice" \notin Races PROVE Spec => OwnWritesStayOut
  BY DEF Apart
<1>1. Init => NotedInv /\ EchoInv
  BY DEF Init, NotedInv, EchoInv, Linked
<1>2. Good /\ NotedInv /\ EchoInv /\ [Next]_vars => NotedInv' /\ EchoInv'
  BY NotedStays, EchoStays
<1>3. Good /\ NotedInv /\ EchoInv =>
        [ImportWrite /\ row # None /\ row' # None /\ row'.content # row.content
           => import.event.typed]_vars
  BY BringsTyped
<1>4. QED  BY <1>1, <1>2, <1>3, AlwaysGood, PTL DEF Spec, OwnWritesStayOut
=============================================================================
