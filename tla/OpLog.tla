------------------------------- MODULE OpLog -------------------------------
(***************************************************************************)
(* Delivery of one user's operation log to that user's devices: identity   *)
(* allocation and the gap between allocation and commit, GET /sync/pull    *)
(* with its cursor holdback, GET /sync/bootstrap, the deviceSyncState rows *)
(* those two maintain, the reaping of stale rows and the purge of the log  *)
(* below the slowest registered device.                                    *)
(*                                                                         *)
(* An operation is its position in the log.  What it says is of no         *)
(* interest here: the question is which device has been handed which       *)
(* operation.  A device may run several contexts (a tab, the Service       *)
(* Worker) over one IndexedDB, hence one cursor.                           *)
(***************************************************************************)
EXTENDS CursorOrder, FiniteSets

CONSTANTS
  Devices, Contexts,
  None,         \* no syncCursors row, no deviceSyncState row
  DeviceOf,     \* the device each context runs on
  Instances,    \* server processes, as natural numbers: the tie of their ids
  Holdback,     \* CURSOR_HOLDBACK_SECONDS
  MaxSeq,       \* MAX_SEQ of the allocator
  Skew,         \* how far a process's clock may be behind
  MaxLag,       \* how long after its ts an operation may still commit
  MaxRead,      \* duration of findOpsAfter, read to cursor computation
  MaxServe,     \* duration of a bootstrap request on the server
  MaxReply,     \* duration of its reply's way into IndexedDB
  Anomalies,    \* what may happen besides: subset of AllAnomalies
  Origin, MaxNow, MaxOps, MaxPurges   \* bounds of the state space

AllAnomalies == {"lostBootstrapReply", "pullWithoutCursor"}

ASSUME DeviceAssumption == DeviceOf \in [Contexts -> Devices]
ASSUME NoneAssumption == None \notin Positions
ASSUME InstanceAssumption == Instances \subseteq Nat
ASSUME ClockAssumption ==
  /\ {Holdback, MaxSeq, Skew, MaxLag, MaxRead, MaxServe, MaxReply} \subseteq Nat
  /\ Origin \in Nat /\ MaxNow \in Nat /\ MaxOps \in Nat /\ MaxPurges \in Nat
  /\ Origin > Holdback + Skew
  /\ Skew <= MaxLag
ASSUME AnomalyAssumption == Anomalies \subseteq AllAnomalies


VARIABLES
  now,        \* the clock
  alloc,      \* lastIssuedMs and sameMsSeq of each process
  issued,     \* every operation that was given an identity
  inserting,  \* those not yet in the operations collection
  applying,   \* those not yet in the entity collections
  log,        \* the operations collection
  row,        \* lastSynced position of a device's row, or None
  cursor,     \* the device's own cursor, or None
  delivered,  \* operations whose outcome the device has been handed
  req,        \* the request each context has under way
  floors      \* purge floors computed and not yet applied

serverVars == <<now, alloc, issued, inserting, applying, log>>
vars == <<serverVars, row, cursor, delivered, req, floors>>

Phases == {"idle", "recover", "pullChecked", "pullRead", "pullReply",
           "bootBegun", "bootRead", "bootReply"}
Idle == [phase |-> "idle", since |-> Epoch, ops |-> {}, bound |-> Epoch, at |-> 0]

Requests == [phase : Phases, since : Positions, ops : SUBSET issued,
             bound : Positions, at : Nat]

TypeOK ==
  /\ now \in Nat
  /\ alloc \in [Instances -> [ms : Nat, seq : Nat]]
  /\ issued \subseteq Positions
  /\ inserting \subseteq issued
  /\ applying \subseteq issued
  /\ log \subseteq issued \ inserting
  /\ row \in [Devices -> Positions \cup {None}]
  /\ cursor \in [Devices -> Positions \cup {None}]
  /\ delivered \in [Devices -> SUBSET issued]
  /\ req \in [Contexts -> Requests]
  /\ floors \subseteq Positions

Init ==
  /\ now = Origin
  /\ alloc = [i \in Instances |-> [ms |-> 0, seq |-> 0]]
  /\ issued = {} /\ inserting = {} /\ applying = {} /\ log = {}
  /\ row = [d \in Devices |-> None]
  /\ cursor = [d \in Devices |-> None]
  /\ delivered = [d \in Devices |-> {}]
  /\ req = [c \in Contexts |-> Idle]
  /\ floors = {}

-----------------------------------------------------------------------------
(* Time and writes *)

Overdue(c) ==
  \/ req[c].phase = "pullRead" /\ now >= req[c].at + MaxRead
  \/ req[c].phase \in {"bootBegun", "bootRead"} /\ now >= req[c].at + MaxServe
  \/ req[c].phase = "bootReply" /\ now >= req[c].at + MaxServe + MaxReply

Tick ==
  /\ now < MaxNow
  /\ \A o \in inserting \cup applying : now < o[1] + MaxLag
  /\ \A c \in Contexts : ~Overdue(c)
  /\ now' = now + 1
  /\ UNCHANGED <<alloc, issued, inserting, applying, log, row,
                 cursor, delivered, req, floors>>

\* Fault: the allocator follows a wall clock that stepped back.
NextIdentityFollowingClock(a, wall) ==
  IF wall = a.ms THEN [ms |-> wall, seq |-> a.seq + 1] ELSE [ms |-> wall, seq |-> 0]

\* allocateOpIdentity: never below what this process issued before, even
\* if its wall clock stepped back; an exhausted millisecond borrows the next.
NextIdentity(a, wall) ==
  IF wall > a.ms THEN [ms |-> wall, seq |-> 0]
  ELSE IF a.seq >= MaxSeq THEN [ms |-> a.ms + 1, seq |-> 0]
  ELSE [ms |-> a.ms, seq |-> a.seq + 1]

\* Some write path stamps an operation; its two writes are then under way.
Allocate(i, wall) ==
  LET id == NextIdentity(alloc[i], wall)
      o  == <<id.ms, id.seq + 1, i>>
  IN  /\ Cardinality(issued) < MaxOps
      /\ alloc' = [alloc EXCEPT ![i] = id]
      /\ issued' = issued \cup {o}
      /\ inserting' = inserting \cup {o}
      /\ applying' = applying \cup {o}
      /\ UNCHANGED <<now, log, row, cursor, delivered, req, floors>>

\* Fault: the insert is retried as though the first had not landed.
CommitToLogTwice(o) ==
  /\ log' = log \cup {o}
  /\ UNCHANGED <<now, alloc, issued, inserting, applying, row, cursor,
                 delivered, req, floors>>

\* Promise.all runs the two writes in parallel: either may land first.
CommitToLog(o) ==
  /\ inserting' = inserting \ {o}
  /\ log' = log \cup {o}
  /\ UNCHANGED <<now, alloc, issued, applying, row, cursor,
                 delivered, req, floors>>

CommitToEntities(o) ==
  /\ applying' = applying \ {o}
  /\ UNCHANGED <<now, alloc, issued, inserting, log, row, cursor,
                 delivered, req, floors>>

-----------------------------------------------------------------------------
(* GET /sync/pull *)

CursorOr(d) == IF cursor[d] = None THEN Epoch ELSE cursor[d]

\* Fault: a device without a row is told nothing, and does not bootstrap.
PullCheckSilent(c) ==
  LET d == DeviceOf[c] IN
  /\ req[c].phase = "idle" /\ cursor[d] # None
  /\ req' = [req EXCEPT ![c] =
       IF row[d] = None THEN Idle
       ELSE [Idle EXCEPT !.phase = "pullChecked", !.since = CursorOr(d)]]
  /\ UNCHANGED <<serverVars, row, cursor, delivered, floors>>

\* The client reads its cursor; the server finds the device registered or not.
PullCheck(c) ==
  LET d == DeviceOf[c] IN
  /\ req[c].phase = "idle"
  /\ ("pullWithoutCursor" \notin Anomalies) => cursor[d] # None
  /\ req' = [req EXCEPT ![c] =
       IF row[d] = None THEN [Idle EXCEPT !.phase = "recover"]
       ELSE [Idle EXCEPT !.phase = "pullChecked", !.since = CursorOr(d)]]
  /\ UNCHANGED <<serverVars, row, cursor, delivered, floors>>

\* findOpsAfter
PullRead(c) ==
  /\ req[c].phase = "pullChecked"
  /\ req' = [req EXCEPT ![c] = [@ EXCEPT
       !.phase = "pullRead", !.at = now,
       !.ops = {o \in log : After(o, req[c].since)}]]
  /\ UNCHANGED <<serverVars, row, cursor, delivered, floors>>

\* Fault: an empty reply advertises the clock itself.
AdvertisedEmptyNow(ops, since, wall) ==
  LET holdback == Boundary(wall - Holdback)
      highWater == IF ops = {} THEN {Boundary(wall)}
                   ELSE IF \E o \in ops : After(o, holdback) THEN {holdback}
                   ELSE {o \in ops : \A p \in ops : ~After(p, o)}
  IN  {Later(h, since) : h \in highWater}

\* Fault: the last operation returned is advertised without the holdback.
AdvertisedUnclamped(ops, since, wall) ==
  LET highWater == IF ops = {} THEN {Boundary(wall - Holdback)}
                   ELSE {o \in ops : \A p \in ops : ~After(p, o)}
  IN  {Later(h, since) : h \in highWater}

\* The cursor advertised: the last operation returned, clamped to the
\* holdback boundary (so is the cursor of an empty reply), and never below
\* the cursor that came in.  A finite set of operations has one last element.
Advertised(ops, since, wall) ==
  LET holdback == Boundary(wall - Holdback)
      highWater == IF ops = {} \/ \E o \in ops : After(o, holdback)
                   THEN {holdback}
                   ELSE {o \in ops : \A p \in ops : ~After(p, o)}
  IN  {Later(h, since) : h \in highWater}

\* Fault: the cursor about to be returned is recorded, unacknowledged.
PullRecordAhead(c, wall) ==
  LET d == DeviceOf[c] IN
  /\ req[c].phase = "pullRead"
  /\ row[d] # None
  /\ \E bound \in Advertised(req[c].ops, req[c].since, wall) :
       /\ req' = [req EXCEPT ![c] = [@ EXCEPT
            !.phase = "pullReply", !.bound = bound, !.at = 0]]
       /\ row' = [row EXCEPT ![d] = bound]
  /\ UNCHANGED <<serverVars, cursor, delivered, floors>>

\* Fault: the row is upserted, and so comes back after a sweep took it.
PullRecordUpserting(c, wall) ==
  LET d == DeviceOf[c] IN
  /\ req[c].phase = "pullRead"
  /\ \E bound \in Advertised(req[c].ops, req[c].since, wall) :
       req' = [req EXCEPT ![c] = [@ EXCEPT
         !.phase = "pullReply", !.bound = bound, !.at = 0]]
  /\ row' = [row EXCEPT ![d] = req[c].since]
  /\ UNCHANGED <<serverVars, cursor, delivered, floors>>

\* The acknowledged cursor goes to the row, if the row is still there; if a
\* sweep took it meanwhile the operations read are withheld.
PullRecord(c, wall) ==
  LET d == DeviceOf[c] IN
  /\ req[c].phase = "pullRead"
  /\ row[d] # None
  /\ \E bound \in Advertised(req[c].ops, req[c].since, wall) :
       req' = [req EXCEPT ![c] = [@ EXCEPT
         !.phase = "pullReply", !.bound = bound, !.at = 0]]
  /\ row' = [row EXCEPT ![d] = req[c].since]
  /\ UNCHANGED <<serverVars, cursor, delivered, floors>>

PullRefused(c) ==
  /\ req[c].phase = "pullRead"
  /\ row[DeviceOf[c]] = None
  /\ req' = [req EXCEPT ![c] = [Idle EXCEPT !.phase = "recover"]]
  /\ UNCHANGED <<serverVars, row, cursor, delivered, floors>>

\* applyPulledOps and advanceSyncCursor: forward only.
PullApply(c) ==
  LET d == DeviceOf[c] IN
  /\ req[c].phase = "pullReply"
  /\ delivered' = [delivered EXCEPT ![d] = @ \cup req[c].ops]
  /\ cursor' = [cursor EXCEPT ![d] =
       IF After(req[c].bound, CursorOr(d)) THEN req[c].bound ELSE @]
  /\ req' = [req EXCEPT ![c] = Idle]
  /\ UNCHANGED <<serverVars, row, floors>>

\* The reply is lost, or the context dies before it has applied it.
PullLost(c) ==
  /\ req[c].phase \in {"pullChecked", "pullRead", "pullReply", "recover"}
  /\ req' = [req EXCEPT ![c] = Idle]
  /\ UNCHANGED <<serverVars, row, cursor, delivered, floors>>

-----------------------------------------------------------------------------
(* GET /sync/bootstrap *)

\* Fault: the cursor is the clock, as though every commit were instantaneous.
BootBeginNow(c, wall) ==
  LET d == DeviceOf[c] IN
  /\ \/ req[c].phase = "recover"
     \/ req[c].phase = "idle" /\ cursor[d] = None
  /\ req' = [req EXCEPT ![c] = [Idle EXCEPT
       !.phase = "bootBegun", !.at = now, !.bound = Boundary(wall)]]
  /\ UNCHANGED <<serverVars, row, cursor, delivered, floors>>

\* The cursor is fixed before anything is read: the held-back boundary, or
\* the row's own cursor where that is already ahead of it.
BootBegin(c, wall) ==
  LET d == DeviceOf[c]
      heldBack == Boundary(wall - Holdback)
  IN  /\ \/ req[c].phase = "recover"
         \/ req[c].phase = "idle" /\ cursor[d] = None
      /\ req' = [req EXCEPT ![c] = [Idle EXCEPT
           !.phase = "bootBegun", !.at = now,
           !.bound = IF row[d] = None THEN heldBack ELSE Later(row[d], heldBack)]]
      /\ UNCHANGED <<serverVars, row, cursor, delivered, floors>>

\* The snapshot holds what has reached the entity collections.
BootRead(c) ==
  /\ req[c].phase = "bootBegun"
  /\ req' = [req EXCEPT ![c] = [@ EXCEPT !.phase = "bootRead", !.ops = issued \ applying]]
  /\ UNCHANGED <<serverVars, row, cursor, delivered, floors>>

\* The row is registered before the reply leaves.
BootRegister(c) ==
  LET d == DeviceOf[c] IN
  /\ req[c].phase = "bootRead"
  /\ row' = [row EXCEPT ![d] = req[c].bound]
  /\ req' = [req EXCEPT ![c] = [@ EXCEPT !.phase = "bootReply"]]
  /\ UNCHANGED <<serverVars, cursor, delivered, floors>>

\* Every row is put as the snapshot has it, over whatever was newer, and the
\* cursor set whether or not that moves it back.
BootApply(c) ==
  LET d == DeviceOf[c] IN
  /\ req[c].phase = "bootReply"
  /\ delivered' = [delivered EXCEPT ![d] = req[c].ops]
  /\ cursor' = [cursor EXCEPT ![d] = req[c].bound]
  /\ req' = [req EXCEPT ![c] = Idle]
  /\ UNCHANGED <<serverVars, row, floors>>

BootLost(c) ==
  /\ req[c].phase \in {"bootBegun", "bootRead", "bootReply"}
  /\ ("lostBootstrapReply" \notin Anomalies) => cursor[DeviceOf[c]] = None
  /\ req' = [req EXCEPT ![c] = Idle]
  /\ UNCHANGED <<serverVars, row, cursor, delivered, floors>>

-----------------------------------------------------------------------------
(* The rows of deviceSyncState, and the purge *)

\* A row goes when the user removes the device, and when a sweep reaps it as
\* stale.  Staleness is a matter of a month, far beyond this clock, and the
\* sweep deletes by id what an earlier find returned, registered anew or not:
\* any row may go at any moment.
DropRow(d) ==
  /\ row[d] # None
  /\ row' = [row EXCEPT ![d] = None]
  /\ UNCHANGED <<serverVars, cursor, delivered, req, floors>>

Registered == {d \in Devices : row[d] # None}

\* computePurgeFloor over the rows read: the position of a slowest device.
ReadFloor(d) ==
  /\ d \in Registered
  /\ \A e \in Registered : ~After(row[d], row[e])
  /\ Cardinality(floors) < MaxPurges
  /\ floors' = floors \cup {row[d]}
  /\ UNCHANGED <<serverVars, row, cursor, delivered, req>>

\* deleteOlderThan
Purge(f) ==
  /\ log' = {o \in log : After(o, f)}
  /\ floors' = floors \ {f}
  /\ UNCHANGED <<now, alloc, issued, inserting, applying, row,
                 cursor, delivered, req>>

\* The account leaves the device: rows and cursor are wiped, replies under way
\* will be dropped (isRemovedFromDevice); the server's row stays.
Wipe(d) ==
  /\ cursor[d] # None
  /\ cursor' = [cursor EXCEPT ![d] = None]
  /\ delivered' = [delivered EXCEPT ![d] = {}]
  /\ req' = [c \in Contexts |-> IF DeviceOf[c] = d THEN Idle ELSE req[c]]
  /\ UNCHANGED <<serverVars, row, floors>>

-----------------------------------------------------------------------------

Walls == (now - Skew)..now

PullStep(c) ==
  \/ PullCheck(c) \/ PullRead(c) \/ PullRefused(c) \/ PullApply(c)
  \/ \E wall \in Walls : PullRecord(c, wall)

BootStep(c) ==
  \/ \E wall \in Walls : BootBegin(c, wall)
  \/ BootRead(c) \/ BootRegister(c) \/ BootApply(c)

Next ==
  \/ Tick
  \/ \E i \in Instances : \E wall \in Walls : Allocate(i, wall)
  \/ \E o \in inserting : CommitToLog(o)
  \/ \E o \in applying : CommitToEntities(o)
  \/ \E c \in Contexts : PullStep(c) \/ BootStep(c) \/ PullLost(c) \/ BootLost(c)
  \/ \E d \in Devices : DropRow(d) \/ Wipe(d) \/ ReadFloor(d)
  \/ \E f \in floors : Purge(f)

Spec == Init /\ [][Next]_vars

\* Writes under way finish.  A context keeps syncing (on load, on a push, on a
\* timer), and a request repeated for ever is not lost for ever: strong
\* fairness, for a loss disables the step it pre-empts.
Fairness ==
  /\ WF_vars(\E o \in inserting : CommitToLog(o))
  /\ WF_vars(\E o \in applying : CommitToEntities(o))
  /\ \A c \in Contexts :
       /\ SF_vars(PullCheck(c)) /\ SF_vars(PullRead(c)) /\ SF_vars(PullApply(c))
       /\ SF_vars(PullRefused(c))
       /\ SF_vars(\E wall \in Walls : PullRecord(c, wall))
       /\ SF_vars(\E wall \in Walls : BootBegin(c, wall))
       /\ SF_vars(BootRead(c)) /\ SF_vars(BootRegister(c)) /\ SF_vars(BootApply(c))

FairSpec == Spec /\ Fairness

-----------------------------------------------------------------------------
(* What the protocol owes a device *)

\* A bootstrap of the device has registered its row and not yet been applied:
\* for that long the row speaks of a snapshot the device does not hold.
BootUnderWay(d) == \E c \in Contexts : DeviceOf[c] = d /\ req[c].phase = "bootReply"

Settled(d) == cursor[d] # None /\ ~BootUnderWay(d)

\* No operation is ever skipped: whatever lies at or below the cursor of a
\* device has been handed to it.  A commit landing behind an advertised cursor
\* would break it, and so would a reaped device let back in inside a purge gap
\* (routes/sync.ts, the pull and bootstrap handlers).
NoSkippedOperation ==
  \A d \in Devices : Settled(d) =>
    \A o \in issued : ~After(o, cursor[d]) => o \in delivered[d]

\* What the server takes a device to have persisted, the device holds: the
\* acknowledged cursor, never the one about to be returned, goes into the row
\* (recordPullCursorOnExistingRow), and the purge floor is built on it.
AckedIsDelivered ==
  \A d \in Devices : Settled(d) /\ row[d] # None =>
    \A o \in issued : ~After(o, row[d]) => o \in delivered[d]

\* The purge never takes what a registered device still has to pull: a device
\* whose row exists is never inside a purge gap (purgeOldOperations).
NoPurgeGap ==
  \A d \in Devices : Settled(d) /\ row[d] # None =>
    \A o \in issued \ inserting : After(o, cursor[d]) => o \in log \cup delivered[d]

\* A device that keeps syncing catches up with everything committed, again and
\* again, whatever is lost, reaped, purged or wiped on the way.
CatchesUp == \A d \in Devices : []<>(issued \ inserting \subseteq delivered[d])

-----------------------------------------------------------------------------
(* The same, as a specification of its own *)

\* A write reaches the log and the entities in either order, and a reader of
\* one of them sees it from the first on.
Visible == issued \ (inserting \cap applying)

Abstract == INSTANCE ReplicatedLog WITH visible <- Visible, replica <- delivered

\* With one context per device, pull and bootstrap over a log that is written
\* late, purged and reaped are nothing but a replicated log.
ImplementsReplicatedLog == Abstract!Spec

=============================================================================
