---------------------------- MODULE ItemInvariant ----------------------------
(***************************************************************************)
(* What holds in every state of CalendarItem: whatever races, one push of  *)
(* the item creates its event and nothing is noted ahead of Google; when   *)
(* pushes, operations and syncs keep apart, an item keeps its link; an     *)
(* event whose item is not linked to it awaits the link's stamp or its     *)
(* removal, or is the item's by title and time; and where an item and its  *)
(* event differ, a push, a sync or an issue is about to deal with it.      *)
(***************************************************************************)
EXTENDS CalendarItem

-----------------------------------------------------------------------------
(* What the types rest on *)

\* A push that creates, and what follows it, is in gcalCreationInFlight.
Slotted == {"insert", "stamp", "takeBack", "unlink"}
SlotInv == \A p \in Pushes : job[p].step \in Slotted => job[p].slot

\* Nothing is noted of a version that Google does not have yet.
Known(r) == r # None => r.pushed <= event.version /\ r.synced <= event.version
VersionInv ==
  /\ \A p \in Pushes : job[p].wrote <= event.version
  /\ Known(op)
  /\ import # None => import.event.version <= event.version /\ Known(import.row)

Inv == TypeOK /\ SlotInv /\ VersionInv

-----------------------------------------------------------------------------
(* What the link rests on *)

\* A sync that has read the row finds it so when it writes.
ImportInv ==
  import # None => /\ import.row = row
                   /\ \A p \in Pushes : Free(p)
                   /\ op # None => ~op.read

\* The first operation finds nothing: no row, no push, nothing to retry.
FirstInv ==
  /\ count["gestures"] = 0 => op = None
  /\ count["gestures"] = 0 \/ (op # None /\ op.create) =>
       row = None /\ failed = {} /\ \A p \in Pushes : Free(p)

\* An operation that has read a linked row has its link.
CarryInv ==
  op # None /\ op.read /\ ~op.state.removes /\ op.state.status # "off" /\ Linked => op.state.link

\* An operation takes only an item that is on the calendar off it.
OffInv ==
  op # None /\ ~op.state.removes /\ op.state.status = "off" => row = None \/ row.status # "off"

\* An event is taken back of an item that is linked and off the calendar.
TakeBackInv ==
  \A p \in Pushes : job[p].step \in {"takeBack", "unlink"} => row = None \/ (row.link /\ row.status = "off")

LinkInv == ImportInv /\ FirstInv /\ CarryInv /\ OffInv /\ TakeBackInv
-----------------------------------------------------------------------------
(* What an event without a link is *)

\* The contents and the links that are anywhere but in the row and the event.
Said == failed \cup {job[p].of : p \in Pushes} \cup {job[p].state : p \in Pushes}
             \cup (IF op = None THEN {} ELSE {op.state})

NeverLinked == \A s \in Said : ~s.link

Latest == count["gestures"] + count["typed"]

\* A change takes its content from the row, or brings the latest there is.
ContentInv ==
  /\ \A s \in Said : s.content <= Latest
  /\ row # None => row.content <= Latest
  /\ event.content <= Latest
  /\ import # None => import.event.content <= Latest
  /\ op # None /\ row # None /\ ~op.late /\ ~op.state.removes /\ op.state.content # row.content =>
       /\ \A p \in Pushes : ~Free(p) => job[p].of.content # op.state.content
       /\ \A f \in failed : f.content # op.state.content

\* There is no link before there is an event, and no event before an operation.
KnownInv ==
  /\ event.status = "none" => NeverLinked /\ ~Linked /\ (import # None => import.event.status = "none")
  /\ count["gestures"] = 0 \/ (op # None /\ op.create) => event.status = "none"

\* What is being created is on the server; what is written, marked or removed
\* was linked, and an operation's removal says so.
ShapeInv ==
  \A p \in Pushes :
    /\ job[p].step \in {"create", "insert", "stamp"} =>
         row # None /\ job[p].of.status = "calendar" /\ ~job[p].of.removes
    /\ job[p].step \in {"write", "remove", "takeBack", "unlink"} => job[p].state.link
    /\ job[p].step = "remove" => FirstStep(job[p].of) = "remove" /\ job[p].state = job[p].of
    /\ job[p].step = "stamp" => event.status # "none"
    /\ job[p].step = "unlink" => event.status # "live"

\* An operation that takes the item away has read its link.
ReadInv ==
  op # None /\ row # None /\ (op.state.removes \/ (op.state.status = "off" /\ ~op.late)) =>
    /\ op.state.removes \/ row.status = "calendar"
    /\ op.read => op.state.link = row.link

Removing == (\E p \in Pushes : At(p, "remove")) \/ \E f \in failed : FirstStep(f) = "remove"

\* The link is lost: the item is off the calendar or gone, and so will the event be.
Detached ==
  /\ Removing
  /\ row = None \/ (row.status = "off" /\ (op = None \/ op.state.removes))

\* The link is still to come.
Stamping(p) ==
  At(p, "stamp") /\ (job[p].of.content = row.content => event.content = row.content)
ToBeLinked ==
  /\ NeverLinked /\ row # None
  /\ (\E p \in Pushes : Stamping(p)) \/ ((\A p \in Pushes : ~At(p, "stamp")) /\ Naked(row, event))

UnlinkedInv == event.status = "live" /\ ~Linked => Detached \/ ToBeLinked

\* A sync that has read an event has not taken it for a stranger's.
OwnInv == import # None => ~Strange(import.row, row, import.event)

EventInv == ContentInv /\ KnownInv /\ ShapeInv /\ ReadInv /\ UnlinkedInv /\ OwnInv /\ NoTwin

-----------------------------------------------------------------------------
(* What keeps the item and its event in step *)

OnCalendar == row # None /\ row.status \in {"calendar", "done"}

\* A push tells Google what the row says, and nothing changes the row meanwhile;
\* a write that follows a create says what the create has not said.
TellInv ==
  \A p \in Pushes :
    /\ job[p].slot => job[p].step \notin {"idle", "create", "remove"}
    /\ job[p].step \in {"write", "mark"} => Linked /\ job[p].state = StateOf(row) /\ row.status # "off"
    /\ job[p].step \in {"insert", "stamp"} => ~Linked
    /\ job[p].step \in {"create", "insert", "stamp", "takeBack"} => FirstStep(job[p].of) = "create"
    /\ At(p, "write") => \/ job[p].of = job[p].state
                         \/ FirstStep(job[p].of) = "create" /\ MovedOn(job[p].of, row)
    /\ job[p].step \in {"stamp", "mark"} => job[p].wrote > 0

StatusAgrees == OnCalendar /\ (row.status = "done") = event.marked

\* What Google's user has typed is still to be imported.
Awaited == event.typed /\ listed # event.version
ContentAgrees == row.content = event.content \/ Awaited

\* A push that will bring the row to Google.
Telling == \E p \in Pushes : \/ job[p].step \in {"write", "takeBack"}
                             \/ At(p, "create") /\ MovedOn(job[p].of, row)

\* An issue or a sweep that will start one.
Leads(f) == IF FirstStep(f) = "create" THEN MovedOn(f, row) ELSE FirstStep(f) = "write" /\ Still(f)
Owed == count["faults"] > 0 /\ ((\E f \in failed : Leads(f)) \/ (row.fresh /\ OnCalendar))

\* A push that is answered has told all there is.
ToldInv ==
  \A p \in Pushes : At(p, "mark") /\ event.status = "live" => StatusAgrees /\ ContentAgrees

\* Where a linked item and its event differ, that is being dealt with.
AgreeInv ==
  Linked /\ event.status = "live" =>
    /\ StatusAgrees \/ Telling \/ Owed
    /\ OnCalendar => ContentAgrees \/ Telling \/ Owed

\* The times: no anchor of what is shown reaches a change of Google's user's, the
\* import's anchor lags behind the syncs, and an item without any is not synced yet.
AnchorInv ==
  /\ row # None => row.synced <= listed
  /\ op # None => op.synced <= listed
  /\ event.typed /\ OnCalendar =>
       /\ row.pushed < event.version /\ anchor < event.version
       /\ op # None /\ ~op.create /\ ~op.late /\ ~op.state.removes => op.pushed < event.version
       /\ \A p \in Pushes : ~Free(p) => job[p].wrote < event.version
  /\ Linked /\ event.status = "live" /\ OnCalendar /\ row.pushed = 0 /\ row.synced = 0 =>
       listed # event.version

\* An event that was never linked is as it was created, and no sync has seen it.
UnseenInv ==
  /\ event.status = "none" => ~event.typed
  /\ event.status # "none" => event.version > 0
  /\ event.status = "live" /\ ~Linked /\ NeverLinked =>
       ~event.marked /\ ~event.typed /\ listed # event.version

\* An event is gone because of the app, or a sync is still to hear of it.
GoneInv ==
  event.status = "gone" =>
    /\ ~Linked => row = None \/ row.status = "off"
    /\ Linked /\ OnCalendar => Awaited

\* An item in the trash, or off the calendar for good, is only deleted.
AwayInv ==
  row # None /\ (IF Linked THEN row.status \in {"off", "trash"} ELSE Removing \/ event.status = "gone") =>
    op = None \/ op.late \/ op.state.removes
RemovalInv == Removing => row = None \/ row.status = "off"

\* An operation knows of a link only while there is one.
OpLinkInv ==
  op # None /\ op.state.link /\ ~op.state.removes /\ op.state.status # "off" /\ ~op.late => Linked

\* A sync has read the event as it is, or as it was before Google's user changed
\* it once more.
SyncInv ==
  import # None =>
    LET e == import.event IN
    /\ listed < e.version /\ ~Removing
    /\ \/ e = event
       \/ event.typed /\ e.version < event.version /\ e.status = "live" /\ event.marked = e.marked
    /\ Linked => row.pushed < event.version

\* Without a failure, there is no issue, and a push at work wherever a link is missing.
FaultInv ==
  count["faults"] = 0 =>
    /\ failed = {}
    /\ event.status = "live" /\ ~Linked => \E p \in Pushes : At(p, "stamp") \/ At(p, "remove")
    /\ row # None /\ row.status = "calendar" /\ ~row.link => Creating

InStepInv ==
  /\ TellInv /\ ToldInv /\ AgreeInv /\ AnchorInv /\ UnseenInv /\ GoneInv
  /\ AwayInv /\ RemovalInv /\ OpLinkInv /\ SyncInv /\ FaultInv

\* A write of the app's that is not noted is followed by another, unless that is
\* lost too; what a sync brings of the app's own says what the row says.
NotedInv == Linked /\ Unnoted => Telling
EchoInv ==
  import # None /\ Linked /\ import.event.status = "live" /\ ~import.event.typed =>
    row.content = import.event.content
=============================================================================
