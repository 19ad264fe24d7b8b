---------------------------- MODULE CalendarItem ----------------------------
(***************************************************************************)
(* One calendar item and its Google event: how a change of either reaches  *)
(* the other.  A device's change is applied to the item, and pushed to     *)
(* Google after the answer (fire and forget); the event's id follows from  *)
(* the item's, and the link to it is stamped on the item once Google has   *)
(* it.  A sync imports what changed at Google and tells the app's own      *)
(* changes apart by the time of the last push.  "Sync now" pushes what was *)
(* missed.  A content is a number: the title, the time and the notes.      *)
(* Google is modelled from how it is used.                                 *)
(***************************************************************************)
EXTENDS Naturals

CONSTANTS
  Pushes,     \* the pushes that may be under way at once
  None,       \* no row, no operation, no sync
  Races,      \* which of AllRaces may happen
  MaxGestures, MaxTyped, MaxFaults   \* bounds of the state space

AllRaces ==
  {"revived",              \* a done item leaves the calendar
   "staleAnchor",          \* an operation brings an older time of the last push
   "linkErased",           \* an operation overtakes the link's stamp after its last read
   "lateEdit",             \* a change is made before the link's stamp, and arrives after it
   "crossing",             \* a sync reads while a push or an operation is at work
   "parallelPushes",       \* two operations' pushes run at once
   "deletedDuringCreate",  \* the item is deleted before its event is linked
   "unseenLoss",           \* a push is lost that no sweep finds
   "lostTwice",            \* a push is lost after the answer of an earlier one
   "staleRetry",           \* an issue is retried after the item has moved on
   "sameId"}               \* a second event is wanted under the id of a deleted one

ASSUME RaceAssumption == Races \subseteq AllRaces
ASSUME BoundAssumption == {MaxGestures, MaxTyped, MaxFaults} \subseteq Nat

Statuses == {"calendar", "done", "trash", "off"}   \* off: CALENDAR_DETACH_STATUSES
Contents == Nat
Versions == Nat     \* Google's "updated", and the app's stamps of it; 0 is none

\* What a push brings to Google: a state of the item, or the event's removal.
States == [removes : BOOLEAN, status : Statuses, content : Contents, link : BOOLEAN]

\* fresh: changed after every anchor (isMissedPush, but for the anchor's being there).
Rows == [status : Statuses, content : Contents, link : BOOLEAN,
         pushed : Versions, synced : Versions, fresh : BOOLEAN]

\* knows: the device has pulled the link; late: the row has a newer updatedTs.
Ops == [state : States, create : BOOLEAN, knows : BOOLEAN, read : BOOLEAN, late : BOOLEAN,
        pushed : Versions, synced : Versions]

Steps == {"idle", "create", "insert", "stamp", "write", "mark", "remove", "takeBack", "unlink"}

Events == [status : {"none", "live", "gone"}, content : Contents, marked : BOOLEAN,
           version : Versions, typed : BOOLEAN]

ASSUME NoneAssumption == None \notin Rows \cup Ops \cup Events

VARIABLES
  row,     \* the item on the server
  event,   \* at Google; typed: it was Google's user who last changed it
  op,      \* the operation of a device that is under way
  job,     \* what each push is doing
  failed,  \* the operations marked syncFailed
  import,  \* what the sync under way has listed, or None
  listed,  \* the version of the event that syncs have dealt with
  anchor,  \* lastPushedToGCalTs as the devices know it
  twin,    \* a second item was made of the event
  count

vars == <<row, event, op, job, failed, import, listed, anchor, twin, count>>

NoState == [removes |-> FALSE, status |-> "off", content |-> 0, link |-> FALSE]

\* of: what the driving operation says, or what a sweep found; swept: there is
\* no operation to mark; slot: the item is in gcalCreationInFlight.
Jobs == [step : Steps, of : States, state : States, wrote : Versions,
         slot : BOOLEAN, swept : BOOLEAN]

Idle == [step |-> "idle", of |-> NoState, state |-> NoState, wrote |-> 0,
         slot |-> FALSE, swept |-> FALSE]

TypeOK ==
  /\ row \in Rows \cup {None}
  /\ event \in Events
  /\ op \in Ops \cup {None}
  /\ job \in [Pushes -> Jobs]
  /\ failed \subseteq States
  /\ import \in [event : Events, row : Rows \cup {None}] \cup {None}
  /\ listed \in Versions /\ listed <= event.version
  /\ anchor \in Versions /\ anchor <= event.version
  /\ twin \in BOOLEAN
  /\ count \in [{"gestures", "typed", "faults"} -> Nat]
  /\ row # None => row.pushed <= event.version /\ row.synced <= event.version
  /\ \A p, q \in Pushes : job[p].slot /\ job[q].slot => p = q

Init ==
  /\ row = None /\ op = None /\ import = None
  /\ event = [status |-> "none", content |-> 0, marked |-> FALSE, version |-> 0, typed |-> FALSE]
  /\ job = [p \in Pushes |-> Idle]
  /\ failed = {}
  /\ listed = 0 /\ anchor = 0
  /\ twin = FALSE
  /\ count = [k \in {"gestures", "typed", "faults"} |-> 0]

Counted(k, max) == count[k] < max /\ count' = [count EXCEPT ![k] = @ + 1]

NextContent == count["gestures"] + count["typed"] + 1

Free(p) == job[p].step = "idle"
At(p, step) == job[p].step = step
GoTo(p, step) == job' = [job EXCEPT ![p].step = step]
End(p) == job' = [job EXCEPT ![p] = Idle]

InFlight == \E p \in Pushes : job[p].slot
Creating == \E p \in Pushes : job[p].step \in {"create", "insert", "stamp"}
Linked == row # None /\ row.link

StateOf(r) == [removes |-> FALSE, status |-> r.status, content |-> r.content, link |-> r.link]

\* No sync is between its reading of the row and its writing.
Undisturbed == import = None \/ "crossing" \in Races

-----------------------------------------------------------------------------
(* A device *)

Made(create, knows, removes, status, content) ==
  op' = [state |-> [removes |-> removes, status |-> status, content |-> content, link |-> knows],
         create |-> create, knows |-> knows, read |-> FALSE, late |-> FALSE,
         pushed |-> IF knows THEN anchor ELSE 0, synced |-> IF knows THEN row.synced ELSE 0]

Create ==
  /\ row = None /\ op = None /\ count["gestures"] = 0 /\ Counted("gestures", MaxGestures)
  /\ Made(TRUE, FALSE, FALSE, "calendar", NextContent)
  /\ UNCHANGED <<row, event, job, failed, import, listed, anchor, twin>>

\* Which status may follow which: an item that is done is edited, reopened or
\* trashed, and one in the trash can only be deleted.
Follows(old, new) ==
  \/ old = "calendar"
  \/ old = "done" /\ (new \in {"calendar", "done", "trash"} \/ (new = "off" /\ "revived" \in Races))
  \/ old = "off" /\ new \in {"calendar", "trash"}

\* An item of a content, new or not, and a status; the device may have pulled
\* the link or not, and keeps it unless the item leaves the calendar.
Change(status, content, knows) ==
  /\ row # None /\ op = None /\ Counted("gestures", MaxGestures)
  /\ Follows(row.status, status)
  /\ row.status = "off" /\ event.status # "none" => "sameId" \in Races
  /\ knows => row.link /\ status # "off"
  /\ Made(FALSE, knows, FALSE, status, content)
  /\ UNCHANGED <<row, event, job, failed, import, listed, anchor, twin>>

Delete ==
  /\ row # None /\ op = None /\ Counted("gestures", MaxGestures)
  /\ Made(FALSE, FALSE, TRUE, row.status, row.content)
  /\ UNCHANGED <<row, event, job, failed, import, listed, anchor, twin>>

-----------------------------------------------------------------------------
(* The apply pipeline *)

\* Fault: what the device lacks is not carried forward.
HydrateNothing ==
  /\ op # None /\ ~op.read /\ Undisturbed
  /\ op' = [op EXCEPT !.read = TRUE]
  /\ UNCHANGED <<row, event, job, failed, import, listed, anchor, twin, count>>

Unfilled(o) == o.state.status = "off" \/ o.knows

\* The row is read: for the event to remove if the item is deleted or leaves
\* the calendar, for the fields that the device lacks, and for its updatedTs.
Hydrate ==
  /\ op # None /\ ~op.read /\ Undisturbed
  /\ op' =
       IF row = None THEN [op EXCEPT !.read = TRUE]
       ELSE IF op.state.removes \/ op.state.status = "off"
       THEN [op EXCEPT !.read = TRUE, !.state.link = row.link /\ (op.state.removes \/ row.status = "calendar")]
       ELSE [op EXCEPT !.read = TRUE, !.state.link = @ \/ row.link,
                       !.pushed = IF Unfilled(op) THEN @ ELSE row.pushed,
                       !.synced = IF Unfilled(op) THEN @ ELSE row.synced]
  /\ UNCHANGED <<row, event, job, failed, import, listed, anchor, twin, count>>

\* handleItemPush, removeItemGCalPresence: the first thing a push does.
FirstStep(s) ==
  IF s.removes \/ s.status = "off" THEN IF s.link THEN "remove" ELSE "idle"
  ELSE IF s.link THEN "write"
  ELSE IF s.status = "calendar" THEN "create" ELSE "idle"

\* A push of a state of the item, or none if there is nothing to tell.
Push(p, s, swept) ==
  /\ Undisturbed
  /\ FirstStep(s) \in {"write", "remove"} =>
       (\A q \in Pushes : Free(q)) \/ "parallelPushes" \in Races
  /\ job' = [job EXCEPT ![p] = IF FirstStep(s) = "idle" THEN Idle
       ELSE [Idle EXCEPT !.step = FirstStep(s), !.of = s, !.state = s, !.swept = swept]]

\* An event nobody is linked to, and no push at work on it.
Adrift == event.status = "live" /\ ~Linked /\ \A p \in Pushes : ~At(p, "stamp")

\* What happens while a create has no outcome, or none that is known, and is
\* not made good by it.
Awkward(s) ==
  /\ s.removes /\ (Creating \/ InFlight \/ Adrift) => "deletedDuringCreate" \in Races
  /\ Adrift /\ row # None /\ ~(s.content = row.content /\ s.status \in {"calendar", "done"}) =>
       "unseenLoss" \in Races

\* The operation takes the place of what has been written of the last push, or
\* of the link, since the device or the server has read it.
Overwrites ==
  /\ row # None /\ ~op.state.removes
  /\ \/ /\ op.state.status # "off"
        /\ \/ op.pushed # row.pushed /\ event.version # listed
           \/ op.pushed = 0 /\ op.synced = 0 /\ (row.pushed # 0 \/ row.synced # 0)
     \/ row.link /\ ~op.state.link /\ row.status = "calendar"

\* applyEntitySnapshotOp: last-write-wins; replaceById; the push is left to
\* itself.  An update of a row that is gone, and one that lost, is not pushed.
Apply(p) ==
  /\ op # None /\ op.read /\ Free(p)
  /\ IF (row = None /\ ~op.create) \/ (op.late /\ ~op.state.removes)
     THEN UNCHANGED <<row, job>>
     ELSE /\ Awkward(op.state)
          /\ Overwrites => (IF row.link /\ ~op.state.link THEN "linkErased" ELSE "staleAnchor") \in Races
          /\ row' = IF op.state.removes THEN None
                    ELSE LET off == op.state.status = "off" IN
                         [status |-> op.state.status, content |-> op.state.content,
                          link |-> op.state.link /\ ~off,
                          pushed |-> IF off THEN 0 ELSE op.pushed,
                          synced |-> IF off THEN 0 ELSE op.synced, fresh |-> TRUE]
          /\ Push(p, op.state, FALSE)
  /\ op' = None
  /\ UNCHANGED <<event, failed, import, listed, anchor, twin, count>>

-----------------------------------------------------------------------------
(* Google: external *)

Live(content, marked) ==
  [status |-> "live", content |-> content, marked |-> marked,
   version |-> event.version + 1, typed |-> FALSE]
Gone == [event EXCEPT !.status = "gone", !.version = @ + 1, !.typed = FALSE]

\* Google's user edits the event, or deletes it.
Type ==
  /\ event.status = "live" /\ Counted("typed", MaxTyped)
  /\ \/ event' = [event EXCEPT !.content = NextContent, !.version = @ + 1, !.typed = TRUE]
     \/ /\ Linked \/ "sameId" \in Races
        /\ event' = [Gone EXCEPT !.typed = TRUE]
  /\ (Linked /\ ~InFlight) \/ "crossing" \in Races
  /\ UNCHANGED <<row, op, job, failed, import, listed, anchor, twin>>

-----------------------------------------------------------------------------
(* A push that creates the event: pushItemToGCalWithContext *)

\* The server gives the row a newer updatedTs: an operation made before is late.
Late == op' = IF op # None /\ ~op.read THEN [op EXCEPT !.late = TRUE] ELSE op
Outdates == Late /\ (op # None => (IF op.read THEN "linkErased" ELSE "lateEdit") \in Races)

\* rowMovedOnDuringCreate
MovedOn(s, r) == s.status # r.status \/ s.content # r.content

\* Fault: a create that finds the row changed leaves it at that.
FollowNothing(p, r) == Idle

\* pushStateReachedDuringCreate: what the job does next, the row being r.
FollowUp(p, r) ==
  IF ~MovedOn(job[p].of, r) THEN Idle
  ELSE [job[p] EXCEPT !.step = IF r.status = "off" THEN "takeBack" ELSE "write",
                      !.state = StateOf(r), !.slot = TRUE]

\* Fault: a create does not look whether another is in flight.
CheckRowOnly(p) ==
  /\ At(p, "create")
  /\ job' = [job EXCEPT ![p] = IF Linked THEN FollowUp(p, row)
                               ELSE [@ EXCEPT !.step = "insert", !.slot = TRUE]]
  /\ UNCHANGED <<row, event, op, failed, import, listed, anchor, twin, count>>

\* Only one push of an item creates: gcalCreationInFlight.  The row is read.
Check(p) ==
  /\ At(p, "create")
  /\ job' = [job EXCEPT ![p] = IF InFlight THEN Idle
                               ELSE IF Linked THEN FollowUp(p, row)
                               ELSE [@ EXCEPT !.step = "insert", !.slot = TRUE]]
  /\ UNCHANGED <<row, event, op, failed, import, listed, anchor, twin, count>>

\* stampItemCalendarLink, and what follows from the row it finds.
Stamp(p) ==
  /\ At(p, "stamp") /\ Undisturbed
  /\ IF row = None THEN End(p) /\ UNCHANGED <<row, op, anchor>>
     ELSE LET linked == [row EXCEPT !.link = TRUE, !.pushed = job[p].wrote, !.fresh = FALSE]
          IN  /\ Outdates
              /\ row' = linked /\ anchor' = linked.pushed
              /\ job' = [job EXCEPT ![p] = FollowUp(p, linked)]
  /\ UNCHANGED <<event, failed, import, listed, twin, count>>

\* The rest of removeEventOfRowDetachedDuringCreate.
Unlink(p) ==
  /\ At(p, "unlink") /\ Undisturbed
  /\ IF row = None THEN UNCHANGED <<row, op>>
     ELSE Outdates /\ row' = [row EXCEPT !.link = FALSE, !.fresh = TRUE]
  /\ End(p)
  /\ UNCHANGED <<event, failed, import, listed, anchor, twin, count>>

-----------------------------------------------------------------------------
(* The calls to Google *)

Calls == {"insert", "write", "remove", "takeBack"}

\* The event once Google has dealt with the push: 409 relinks what is there and
\* updates nothing (createOr409Relink); an event that is gone stays gone.
Reached(p) ==
  LET s == job[p].state IN
  IF At(p, "insert") THEN IF event.status = "none" THEN Live(job[p].of.content, FALSE) ELSE event
  ELSE IF event.status # "live" THEN event
  ELSE IF At(p, "write") /\ s.status # "trash" THEN Live(s.content, s.status = "done")
  ELSE Gone

\* What a push does after the answer: the link, the mark or the unlinking.  A call
\* about an event that is gone is refused for good, and nothing follows.
Afterwards(p) ==
  IF At(p, "insert") THEN "stamp"
  ELSE IF At(p, "remove") \/ event.status # "live" THEN "idle"
  ELSE IF At(p, "takeBack") THEN "unlink" ELSE "mark"

Answer(p) ==
  /\ job[p].step \in Calls
  /\ event' = Reached(p)
  /\ job' = [job EXCEPT ![p] = IF Afterwards(p) = "idle" THEN Idle
                               ELSE [@ EXCEPT !.step = Afterwards(p), !.wrote = Reached(p).version]]
  /\ UNCHANGED <<row, op, failed, import, listed, anchor, twin, count>>

\* Work that no sweep would find again: a removal, a create of an item that has
\* moved on, and what follows a create, which the link's stamp hides.
Unseen(p) ==
  \/ job[p].step \in {"remove", "takeBack", "unlink"} \/ (At(p, "write") /\ job[p].state.status = "trash")
  \/ At(p, "write") /\ row # None /\ ~row.fresh
  \/ job[p].step \in {"insert", "stamp"} /\ (row = None \/ MovedOn(job[p].of, row))
  \/ At(p, "create") /\ Linked /\ MovedOn(job[p].of, row)

\* Google has a write of the app's that nobody has noted, and the item has
\* moved on since.
Unnoted ==
  /\ event.status = "live" /\ ~event.typed /\ event.version # listed
  /\ row # None /\ row.content # event.content /\ ~(row.link /\ row.pushed = event.version)

\* A call fails, or only its answer is lost: the operation is marked, and a
\* sweep has none to mark (captureFailedOutcome, surfacePushFailure).
Fail(p) ==
  /\ job[p].step \in Calls /\ Counted("faults", MaxFaults)
  /\ \/ UNCHANGED event
     \/ event' = Reached(p) /\ event' # event
  /\ Unseen(p) /\ (job[p].swept \/ (job[p].step \in {"insert", "takeBack"} /\ event' # event)) => "unseenLoss" \in Races
  /\ Unnoted /\ event' = event => "lostTwice" \in Races
  /\ failed' = IF job[p].swept THEN failed ELSE failed \cup {job[p].of}
  /\ End(p)
  /\ UNCHANGED <<row, op, import, listed, anchor, twin>>

\* Fault: the mark counts as a change of the item.
MarkAsChange(p) ==
  /\ At(p, "mark") /\ Undisturbed
  /\ row' = IF row = None THEN row ELSE [row EXCEPT !.pushed = job[p].wrote, !.fresh = FALSE]
  /\ Late /\ End(p)
  /\ UNCHANGED <<event, failed, import, listed, anchor, twin, count>>

\* stampItemLastPushed: without updatedTs, and without telling the devices.
Mark(p) ==
  /\ At(p, "mark") /\ Undisturbed
  /\ row' = IF row = None THEN row ELSE [row EXCEPT !.pushed = job[p].wrote, !.fresh = FALSE]
  /\ End(p)
  /\ UNCHANGED <<event, op, failed, import, listed, anchor, twin, count>>

-----------------------------------------------------------------------------
(* A sync: upsertCalendarItem *)

\* Nothing is between the row and Google: no push at work, no operation read, no
\* removal to be tried again.
Calm ==
  /\ op # None => ~op.read
  /\ \A p \in Pushes : Free(p)
  /\ \A f \in failed : FirstStep(f) # "remove"

\* Fault: the app's own push is not told apart.
NoEcho == FALSE

\* isOwnEcho: the event is as the last push that is noted has left it.
OwnEcho == Linked /\ row.pushed = event.version

\* The row is read; the app's own push is skipped.
ImportRead ==
  /\ import = None /\ event.version # listed
  /\ Calm \/ "crossing" \in Races
  /\ IF OwnEcho
     THEN listed' = event.version /\ UNCHANGED import
     ELSE import' = [event |-> event, row |-> row] /\ UNCHANGED listed
  /\ UNCHANGED <<row, event, op, job, failed, anchor, twin, count>>

Agrees(r, e) == r.content = e.content /\ (r.status = "done") = e.marked

\* Below, seen is the row that was read, and r what it is by now.  The whole row
\* is replaced where content is written, and single fields are set elsewhere.

\* trashItem
Trashed(seen, r) ==
  IF seen.status = "trash" \/ r = None THEN r ELSE [r EXCEPT !.status = "trash", !.fresh = TRUE]

\* reviveTrashedCalendarItem
Revived(seen, e) ==
  [seen EXCEPT !.status = IF e.marked /\ seen.content = e.content THEN "done" ELSE "calendar",
               !.content = e.content, !.synced = e.version, !.fresh = TRUE]

\* updateExistingCalendarItem: the title and the time.  An event that says what
\* the row says was written after it, so it only moves the anchor; a tick that
\* an open item takes over with the title is not told apart.
Merged(seen, r, e) ==
  IF e.version <= seen.synced THEN r
  ELSE IF seen.content # e.content
  THEN [seen EXCEPT !.content = e.content, !.synced = e.version, !.fresh = TRUE]
  ELSE IF r = None THEN r ELSE [r EXCEPT !.synced = e.version, !.fresh = @ /\ ~Agrees(r, e)]

\* Fault: an item that lost its link is not looked for.
NoneNaked(r, e) == FALSE

\* tryRelinkNakedCalendarItem: by the title and the times.
Naked(r, e) == r # None /\ ~r.link /\ r.status \in {"calendar", "done"} /\ r.content = e.content

\* The row once the sync has dealt with it.
Upserted(seen, r, e) ==
  IF seen # None /\ seen.link
  THEN IF e.status = "gone" THEN Trashed(seen, r)
       ELSE IF seen.status = "trash" THEN Revived(seen, e) ELSE Merged(seen, r, e)
  ELSE IF e.status = "live" /\ Naked(r, e)
  THEN LET linked == [r EXCEPT !.link = TRUE, !.fresh = TRUE] IN Merged(linked, linked, e)
  ELSE r

\* createNewCalendarItem: the event is nobody's.
Strange(seen, r, e) == e.status = "live" /\ ~(seen # None /\ seen.link) /\ ~Naked(r, e)

\* What is written gives the row a newer updatedTs, and the devices hear of it;
\* no operation is recorded of an anchor that moves.
ImportWrite ==
  /\ import # None
  /\ LET e == import.event
         new == Upserted(import.row, row, e)
         told == new # None /\ (row # None => [new EXCEPT !.synced = row.synced, !.fresh = row.fresh] # row)
     IN  /\ row' = new
         /\ twin' = (twin \/ Strange(import.row, row, e))
         /\ IF ~told THEN UNCHANGED <<op, anchor>>
            ELSE /\ anchor' = new.pushed
                 /\ IF e.typed THEN Late ELSE Outdates
         /\ listed' = e.version
  /\ import' = None
  /\ UNCHANGED <<event, job, failed, count>>

-----------------------------------------------------------------------------
(* Retries, restarts, and "Sync now" *)

\* What the operation said is what the item is.
Still(f) == IF row = None THEN FirstStep(f) = "remove" ELSE ~f.removes /\ ~MovedOn(f, row)

\* POST /sync/issues/:opId/retry: the operation's own snapshot is pushed again.
Retry(p, f) ==
  /\ f \in failed /\ Free(p)
  /\ f.link => Still(f) \/ "staleRetry" \in Races
  /\ ~f.link => row # None \/ "staleRetry" \in Races
  /\ Push(p, f, FALSE)
  /\ failed' = failed \ {f}
  /\ UNCHANGED <<row, event, op, import, listed, anchor, twin, count>>

\* An issue that a later state of the item has made void is dismissed.
Dismiss(f) ==
  /\ f \in failed /\ FirstStep(f) = "write" /\ ~Still(f)
  /\ failed' = failed \ {f}
  /\ UNCHANGED <<row, event, op, job, import, listed, anchor, twin, count>>

\* The server restarts: the pushes, the sync and the request are gone, and the
\* device asks again.
Crash ==
  /\ Counted("faults", MaxFaults)
  /\ (\E p \in Pushes : Unseen(p)) => "unseenLoss" \in Races
  /\ Unnoted => "lostTwice" \in Races
  /\ job' = [p \in Pushes |-> Idle] /\ import' = None
  /\ op' = IF op = None THEN op ELSE [op EXCEPT !.read = FALSE]
  /\ UNCHANGED <<row, event, failed, listed, anchor, twin>>

\* "Sync now" has just imported.
Caught == import = None /\ listed = event.version

\* runOutboundBackfill
Backfill(p) ==
  /\ Caught /\ Free(p) /\ row # None /\ row.status = "calendar" /\ ~row.link
  /\ Push(p, StateOf(row), TRUE)
  /\ UNCHANGED <<row, event, op, failed, import, listed, anchor, twin, count>>

\* collectStandaloneMissedPushes, isMissedPush
MissedPush ==
  /\ row # None /\ row.link /\ row.fresh /\ row.status \in {"calendar", "done"}
  /\ row.pushed # 0 \/ row.synced # 0

\* runMissedPushSweep
Repush(p) ==
  /\ Caught /\ Free(p) /\ MissedPush
  /\ Push(p, StateOf(row), TRUE)
  /\ UNCHANGED <<row, event, op, failed, import, listed, anchor, twin, count>>

OrphanedDone == row # None /\ row.status = "done" /\ ~row.link /\ event.status = "live"

\* relinkOrphanedDoneItems: the link, and a push of the row.
RepairDone(p) ==
  /\ import = None /\ Free(p) /\ OrphanedDone
  /\ Outdates
  /\ row' = [row EXCEPT !.link = TRUE, !.fresh = TRUE]
  /\ anchor' = row.pushed
  /\ Push(p, StateOf(row'), FALSE)
  /\ UNCHANGED <<event, failed, import, listed, twin, count>>

-----------------------------------------------------------------------------

Gesture ==
  \/ Create \/ Delete
  \/ \E s \in Statuses, c \in {NextContent} \cup (IF row = None THEN {} ELSE {row.content}),
        knows \in BOOLEAN : Change(s, c, knows)

Server == Hydrate \/ ImportRead \/ ImportWrite \/ Crash \/ \E f \in failed : Dismiss(f)

Work(p) ==
  \/ Apply(p) \/ Check(p) \/ Stamp(p) \/ Unlink(p) \/ Mark(p) \/ Answer(p) \/ Fail(p)
  \/ Backfill(p) \/ Repush(p) \/ RepairDone(p) \/ \E f \in failed : Retry(p, f)

Next == Gesture \/ Type \/ Server \/ \E p \in Pushes : Work(p)

Spec == Init /\ [][Next]_vars

-----------------------------------------------------------------------------
(* Properties *)

\* The row and the event say the same.
InAgreement ==
  IF row = None \/ row.status \in {"off", "trash"} THEN event.status # "live"
  ELSE IF event.status = "live" THEN row.link /\ Agrees(row, event)
  ELSE row.status = "done" /\ ~row.link

Quiet ==
  /\ op = None /\ import = None /\ failed = {} /\ listed = event.version
  /\ \A p \in Pushes : Free(p)

\* What "Sync now" would still push.
Missed == MissedPush \/ OrphanedDone \/ (row # None /\ row.status = "calendar" /\ ~row.link)

\* Once all pushes are answered, all that changed at Google is imported and the
\* issues are dealt with, the item and its event say the same: an item on the
\* calendar has its event, with its title and tick, and one that is off it or
\* gone has none.  After a failure, "Sync now" may have to make it so, and never
\* misses it.  (pushStateReachedDuringCreate, the sweeps, upsertCalendarItem)
InStep == Quiet /\ (count["faults"] = 0 \/ ~Missed) => InAgreement

\* An item whose status was changed to one that is off the calendar has no event
\* there any more, once everything is answered: that change "also removes the
\* event from Google Calendar" (docs/PUBLIC_API.md; hydrateDetachOne).
DetachRemoves == Quiet /\ row # None /\ row.status = "off" => event.status # "live"

\* An item's own event is never taken for a stranger's, of which an import would
\* make a second item.  (findCalendarItemByEventId, tryRelinkNakedCalendarItem)
NoTwin == ~twin

\* What the app has pushed never comes back to change the item: an import brings
\* only what Google's user has typed.  (isOwnEcho)
OwnWritesStayOut ==
  [][ImportWrite /\ row # None /\ row' # None /\ row'.content # row.content
       => import.event.typed]_vars

\* An item that stays on the calendar keeps its link, whatever the devices that
\* change it know.  (carryForwardCalendarLink)
LinkKept ==
  [][row # None /\ row' # None /\ row.link /\ ~row'.link => row'.status = "off"]_vars

\* A change made on a device loses only to what Google's user has typed, and not
\* to the app's own notes of a push.  (stampItemLastPushed)
OnlyGoogleOutdates ==
  [][op # None /\ op' # None /\ ~op.late /\ op'.late => import # None /\ import.event.typed]_vars
=============================================================================
