----------------------------- MODULE EntitySync -----------------------------
(***************************************************************************)
(* One entity on the server and on the devices of its owner: local writes  *)
(* and the queue that carries them, POST /sync/push and the last-write-    *)
(* wins rule it applies, writes through the public API, and the replay of  *)
(* the operation log on each device.                                       *)
(*                                                                         *)
(* Delivery is OpLog's business: here a pull returns the log from the      *)
(* device's cursor on, and the cursor it leaves is held back by up to      *)
(* Redelivery operations, which the next pull brings again.                *)
(* A snapshot is its updatedTs and the write it comes from.                *)
(***************************************************************************)
EXTENDS Naturals, Sequences, SequencesExt

CONSTANTS
  Devices,
  Apis,         \* writers that go through /v1 or the MCP server
  None,         \* no row
  Races,        \* which races may happen: subset of AllRaces
  BatchMax,     \* PUSH_BATCH_MAX
  Redelivery,   \* operations the cursor stays behind (the holdback window)
  MaxWrites, MaxLog, MaxLosses   \* bounds of the state space

\* parallelWrites: two writes of the entity overlap on the server.
\* unmarkedPull:   a pull reads an update between its insert and its marking.
\* slowClock:      a write is stamped below one that was made before it.
\* staleEdit:      an edit is saved from a copy read before the row went.
\* deathMidDelete: a context dies between dropping an unsent create and
\*                 removing its row.
\* forgottenPush:  a context dies while a push of its create is unanswered, and
\*                 with it the mark that a push carried the create.
\* recreated:      a create whose answer was lost is pushed again after a delete
\*                 of the entity was logged, in a push that ends in no delete.
AllRaces == {"parallelWrites", "unmarkedPull", "slowClock", "staleEdit",
             "deathMidDelete", "forgottenPush", "recreated"}

ASSUME WriterAssumption == Apis \cap Devices = {}
ASSUME RaceAssumption == Races \subseteq AllRaces
ASSUME BoundAssumption == {BatchMax, Redelivery, MaxWrites, MaxLog, MaxLosses} \subseteq Nat /\ BatchMax > 0

Writers == Devices \cup Apis

VARIABLES
  clock,     \* the latest updatedTs stamped
  writes,    \* how many writes were made: the next one's number
  losses,    \* how many pushes and contexts were lost
  row,       \* the server's row
  log,       \* the operations collection, in (ts, _id) order
  req,       \* the write request of each writer, on the server
  local,     \* each device's row
  queue,     \* each device's syncOperations; their n is the order of their ids
  tried,     \* pushAttemptedOpIds
  awaiting,  \* unconfirmed delete (isAwaitingDeleteEcho)
  removing,  \* a delete is queued, its row not yet removed
  cursor,    \* the cursor each device has recorded, as a place in the log
  pull,      \* the pull each device has under way
  gone       \* history: a delete was queued here, none has been replayed since

serverVars == <<row, log, req>>
queueVars  == <<queue, tried, awaiting, removing>>
tally      == <<writes, losses>>
vars == <<clock, tally, serverVars, local, queueVars, cursor, pull, gone>>

Values == [ts : 1..MaxWrites, id : 1..MaxWrites]
ASSUME NoneAssumption == None \notin Values

Kinds == {"create", "update", "delete"}
Ops == [kind : Kinds, val : Values \cup {None}, n : 1..MaxWrites]
Entries == [op : Ops, applied : BOOLEAN]

Slots == 1..BatchMax
Sights == UNION {[I -> Values \cup {None}] : I \in SUBSET Slots}
Requests == [stage : {"idle", "sent", "applying", "answered"},
             ops : Seq(Ops),
             seen : Sights,
             done : SUBSET Slots, skipped : SUBSET Slots,
             at : 0..MaxLog, heard : BOOLEAN]
Pulls == [stage : {"idle", "fetched", "applying"},
          todo : SUBSET (1..MaxLog), upto : 0..MaxLog, hold : BOOLEAN]

NoReq == [stage |-> "idle", ops |-> <<>>, seen |-> [i \in {} |-> None], done |-> {},
          skipped |-> {}, at |-> 0, heard |-> TRUE]
NoPull == [stage |-> "idle", todo |-> {}, upto |-> 0, hold |-> FALSE]

TypeOK ==
  /\ writes \in 0..MaxWrites /\ clock \in 0..writes /\ losses \in 0..MaxLosses
  /\ row \in Values \cup {None}
  /\ log \in Seq(Entries) /\ Len(log) <= MaxLog
  /\ req \in [Writers -> Requests]
  /\ \A w \in Writers :
       /\ Len(req[w].ops) <= BatchMax
       /\ req[w].done \cup DOMAIN req[w].seen \subseteq DOMAIN req[w].ops
       /\ req[w].skipped \subseteq req[w].done
  /\ local \in [Devices -> Values \cup {None}]
  /\ queue \in [Devices -> SUBSET Ops]
  /\ tried \in [Devices -> SUBSET (1..MaxWrites)]
  /\ {awaiting, removing, gone} \subseteq [Devices -> BOOLEAN]
  /\ cursor \in [Devices -> 0..MaxLog]
  /\ pull \in [Devices -> Pulls]
  /\ \A d \in Devices : cursor[d] <= Len(log) /\ pull[d].upto <= Len(log)
       /\ pull[d].todo \subseteq 1..pull[d].upto

Init ==
  /\ clock = 0 /\ writes = 0 /\ losses = 0
  /\ row = None /\ log = <<>>
  /\ req = [w \in Writers |-> NoReq]
  /\ local = [d \in Devices |-> None]
  /\ queue = [d \in Devices |-> {}]
  /\ tried = [d \in Devices |-> {}]
  /\ awaiting = [d \in Devices |-> FALSE]
  /\ removing = [d \in Devices |-> FALSE]
  /\ cursor = [d \in Devices |-> 0]
  /\ pull = [d \in Devices |-> NoPull]
  /\ gone = [d \in Devices |-> FALSE]

-----------------------------------------------------------------------------
(* Local writes and the queue *)

\* Two clocks may read the same millisecond; only a slow one goes back.
Stamps == ((IF "slowClock" \in Races THEN 1 ELSE clock)..(clock + 1)) \ {0}

\* A write takes the next number; a delete is stamped with nothing.
Writing(t) ==
  /\ writes < MaxWrites
  /\ writes' = writes + 1
  /\ UNCHANGED losses
  /\ clock' = IF t > clock THEN t ELSE clock

Op(kind, val) == [kind |-> kind, val |-> val, n |-> writes + 1]

PendingCreates(d) == {o \in queue[d] : o.kind = "create"}

\* Ids are random: an entity is created once.
Create(d, t) ==
  LET v == [ts |-> t, id |-> writes + 1] IN
  /\ writes = 0
  /\ Writing(t)
  /\ local' = [local EXCEPT ![d] = v]
  /\ queue' = [queue EXCEPT ![d] = @ \cup {Op("create", v)}]
  /\ UNCHANGED <<serverVars, tried, awaiting, removing, cursor, pull, gone>>

\* An update folds into a pending create (mergeUpdateIntoCreate), which then
\* counts as attempted if the create it replaces was.
Edit(d, t) ==
  LET v == [ts |-> t, id |-> writes + 1]
      creates == PendingCreates(d)
  IN  /\ writes > 0
      /\ local[d] # None \/ "staleEdit" \in Races
      /\ ~removing[d]
      /\ Writing(t)
      /\ local' = [local EXCEPT ![d] = v]
      /\ queue' = [queue EXCEPT ![d] =
           IF creates = {} THEN @ \cup {Op("update", v)}
           ELSE (@ \ creates) \cup {Op("create", v)}]
      /\ tried' = [tried EXCEPT ![d] =
           IF \E o \in creates : o.n \in @
           THEN (@ \ {o.n : o \in creates}) \cup {writes + 1} ELSE @]
      /\ gone' = [gone EXCEPT ![d] = FALSE]
      /\ UNCHANGED <<serverVars, awaiting, removing, cursor, pull>>

\* Fault: what a push has carried collapses like what none has.
QueueDeleteCollapsing(d) ==
  LET neverSent == PendingCreates(d) # {} IN
  /\ local[d] # None /\ ~removing[d]
  /\ Writing(0)
  /\ removing' = [removing EXCEPT ![d] = TRUE]
  /\ queue' = [queue EXCEPT ![d] = IF neverSent THEN {} ELSE {Op("delete", None)}]
  /\ awaiting' = [awaiting EXCEPT ![d] = @ \/ ~neverSent]
  /\ gone' = [gone EXCEPT ![d] = ~neverSent]
  /\ UNCHANGED <<serverVars, local, tried, cursor, pull>>

\* queueDeleteThenRemove, its first half: unsent operations collapse, and with
\* an unsent create the entity never reached the server.
QueueDelete(d) ==
  LET kept == {o \in queue[d] : o.n \in tried[d]}
      neverSent == ~(PendingCreates(d) \subseteq kept)
  IN  /\ local[d] # None /\ ~removing[d]
      /\ Writing(0)
      /\ removing' = [removing EXCEPT ![d] = TRUE]
      /\ queue' = [queue EXCEPT ![d] =
           IF neverSent THEN kept ELSE kept \cup {Op("delete", None)}]
      /\ awaiting' = [awaiting EXCEPT ![d] = @ \/ ~neverSent]
      /\ gone' = [gone EXCEPT ![d] = ~neverSent]
      /\ UNCHANGED <<serverVars, local, tried, cursor, pull>>

RemoveRow(d) ==
  /\ removing[d]
  /\ local' = [local EXCEPT ![d] = None]
  /\ removing' = [removing EXCEPT ![d] = FALSE]
  /\ UNCHANGED <<clock, tally, serverVars, queue, tried, awaiting, cursor, pull, gone>>

-----------------------------------------------------------------------------
(* POST /sync/push *)

\* b is the first BatchMax operations of q, in the order they were queued.
Oldest(b, q) ==
  /\ \A i, j \in DOMAIN b : i < j => b[i].n < b[j].n
  /\ \A o \in q \ ToSet(b) : Len(b) = BatchMax /\ \A i \in DOMAIN b : b[i].n < o.n

\* pushBatch: marked as attempted before anything is awaited.
Send(d) ==
  \E k \in Slots : \E b \in [1..k -> queue[d]] :
    /\ req[d].stage = "idle"
    /\ Oldest(b, queue[d])
    /\ tried' = [tried EXCEPT ![d] = @ \cup {o.n : o \in ToSet(b)}]
    /\ req' = [req EXCEPT ![d] = [NoReq EXCEPT !.stage = "sent", !.ops = b]]
    /\ UNCHANGED <<clock, tally, row, log, local, queue, awaiting, removing,
                   cursor, pull, gone>>

Alone(w) == "parallelWrites" \in Races
            \/ \A v \in Writers \ {w} : req[v].stage # "applying"

Recreates(d) ==
  /\ Last(req[d].ops).kind # "delete"
  /\ \E o \in ToSet(req[d].ops) : o.kind = "create"
  /\ \E e \in ToSet(log) : e.op.kind = "delete"

\* The batch takes its identities, in order, and is inserted.
Insert(d) ==
  /\ req[d].stage = "sent"
  /\ Alone(d)
  /\ "recreated" \in Races \/ ~Recreates(d)
  /\ Len(log) + Len(req[d].ops) <= MaxLog
  /\ log' = log \o [i \in DOMAIN req[d].ops |->
                      [op |-> req[d].ops[i], applied |-> TRUE]]
  /\ req' = [req EXCEPT ![d] = [@ EXCEPT !.stage = "applying", !.at = Len(log)]]
  /\ UNCHANGED <<clock, tally, row, local, queueVars, cursor, pull, gone>>

\* Promise.all over the batch starts every operation at once.
Startable(w, i) == "parallelWrites" \in Races \/ \A j \in 1..(i - 1) : j \in req[w].done

Seeing(seen, i, v) == [j \in DOMAIN seen \cup {i} |-> IF j = i THEN v ELSE seen[j]]

\* applyEntitySnapshotOp first reads the row ...
ReadRow(w, i) ==
  /\ req[w].stage = "applying"
  /\ req[w].ops[i].kind # "delete"
  /\ i \notin req[w].done \cup DOMAIN req[w].seen
  /\ Startable(w, i)
  /\ req' = [req EXCEPT ![w] = [req[w] EXCEPT !.seen = Seeing(@, i, row)]]
  /\ UNCHANGED <<clock, tally, row, log, local, queueVars, cursor, pull, gone>>

\* Fault: a tie goes to the snapshot that is there.
IncomingWinsLwwStrict(existing, incoming) == existing.ts < incoming.ts

IncomingWinsLww(existing, incoming) == existing.ts <= incoming.ts

Wins(existing, v) == existing = None \/ IncomingWinsLww(existing, v)

\* ... and then replaces it, unless the snapshot is older than the row read or
\* updates a row that is gone.  A delete looks at nothing.
WriteRow(w, i) ==
  LET op == req[w].ops[i]
      missing == op.kind = "update" /\ req[w].seen[i] = None
  IN  /\ req[w].stage = "applying" /\ i \notin req[w].done
      /\ IF op.kind = "delete" THEN Startable(w, i) ELSE i \in DOMAIN req[w].seen
      /\ row' = IF op.kind = "delete" THEN None
                ELSE IF ~missing /\ Wins(req[w].seen[i], op.val) THEN op.val ELSE row
      /\ req' = [req EXCEPT ![w] = [req[w] EXCEPT
           !.done = @ \cup {i},
           !.skipped = IF op.kind # "delete" /\ missing THEN @ \cup {i} ELSE @]]
      /\ UNCHANGED <<clock, tally, log, local, queueVars, cursor, pull, gone>>

\* What was skipped is marked notApplied, and the reply sent if anyone waits.
Answer(d) ==
  LET r == req[d] IN
  /\ r.stage = "applying" /\ r.done = DOMAIN r.ops
  /\ log' = [k \in DOMAIN log |->
       IF \E i \in r.skipped : k = r.at + i THEN [log[k] EXCEPT !.applied = FALSE] ELSE log[k]]
  /\ req' = [req EXCEPT ![d] =
       IF r.heard THEN [NoReq EXCEPT !.stage = "answered", !.ops = r.ops] ELSE NoReq]
  /\ UNCHANGED <<clock, tally, row, local, queueVars, cursor, pull, gone>>

\* Fault: everything queued leaves, and not only what was sent.
AcknowledgeAll(d) ==
  /\ req[d].stage = "answered"
  /\ awaiting' = [awaiting EXCEPT ![d] = @ \/ \E o \in ToSet(req[d].ops) : o.kind = "delete"]
  /\ queue' = [queue EXCEPT ![d] = {}]
  /\ tried' = [tried EXCEPT ![d] = {}]
  /\ req' = [req EXCEPT ![d] = NoReq]
  /\ UNCHANGED <<clock, tally, row, log, local, removing, cursor, pull, gone>>

\* rememberPushedDeletes, then the batch leaves the queue.
Acknowledge(d) ==
  LET sent == {o.n : o \in ToSet(req[d].ops)} IN
  /\ req[d].stage = "answered"
  /\ awaiting' = [awaiting EXCEPT ![d] = @ \/ \E o \in ToSet(req[d].ops) : o.kind = "delete"]
  /\ queue' = [queue EXCEPT ![d] = {o \in @ : o.n \notin sent}]
  /\ tried' = [tried EXCEPT ![d] = @ \ sent]
  /\ req' = [req EXCEPT ![d] = NoReq]
  /\ UNCHANGED <<clock, tally, row, log, local, removing, cursor, pull, gone>>

Losing ==
  /\ losses < MaxLosses
  /\ losses' = losses + 1
  /\ UNCHANGED <<clock, writes>>

\* The request or its reply is lost: the batch stays queued.
LosePush(d) ==
  /\ req[d].stage \in {"sent", "answered"}
  /\ Losing
  /\ req' = [req EXCEPT ![d] = NoReq]
  /\ UNCHANGED <<row, log, local, queueVars, cursor, pull, gone>>

-----------------------------------------------------------------------------
(* A write through the API: applied first, logged after *)

ApiBegin(a, t, kind) ==
  LET v == IF kind = "delete" THEN None ELSE [ts |-> t, id |-> writes + 1] IN
  /\ req[a].stage = "idle"
  /\ IF kind = "create" THEN writes = 0 ELSE row # None
  /\ Alone(a)
  /\ Writing(IF kind = "delete" THEN 0 ELSE t)
  /\ req' = [req EXCEPT ![a] = [NoReq EXCEPT
       !.stage = "applying", !.ops = <<Op(kind, v)>>]]
  /\ UNCHANGED <<row, log, local, queueVars, cursor, pull, gone>>

ApiLog(a) ==
  LET r == req[a] IN
  /\ r.stage = "applying" /\ r.done = {1}
  /\ Len(log) < MaxLog
  /\ log' = Append(log, [op |-> r.ops[1], applied |-> r.skipped = {}])
  /\ req' = [req EXCEPT ![a] = NoReq]
  /\ UNCHANGED <<clock, tally, row, local, queueVars, cursor, pull, gone>>

-----------------------------------------------------------------------------
(* GET /sync/pull and the replay of what it returns *)

Unmarked(k) == \E d \in Devices :
  /\ req[d].stage = "applying"
  /\ k \in (req[d].at + 1)..(req[d].at + Len(req[d].ops))
  /\ log[k].op.kind = "update"

PullFetch(d) ==
  LET todo == {k \in (cursor[d] + 1)..Len(log) : log[k].applied}
  IN  /\ pull[d].stage = "idle"
      /\ cursor[d] < Len(log)
      /\ "unmarkedPull" \in Races \/ \A k \in todo : ~Unmarked(k)
      /\ pull' = [pull EXCEPT ![d] = [NoPull EXCEPT
           !.stage = "fetched", !.todo = todo, !.upto = Len(log)]]
      /\ UNCHANGED <<clock, tally, serverVars, local, queueVars, cursor, gone>>

\* applyPulledOps reads the queued deletes once, before it applies anything.
PullBegin(d) ==
  /\ pull[d].stage = "fetched"
  /\ pull' = [pull EXCEPT ![d] = [@ EXCEPT !.stage = "applying",
       !.hold = \E o \in queue[d] : o.kind = "delete"]]
  /\ UNCHANGED <<clock, tally, serverVars, local, queueVars, cursor, gone>>

\* Fault: only the deletes queued when the pull began hold an entity back.
PullNextUnheld(d) == \E k \in pull[d].todo :
  LET op == log[k].op
  IN  /\ pull[d].stage = "applying" /\ \A l \in pull[d].todo : k <= l
      /\ pull' = [pull EXCEPT ![d] = [pull[d] EXCEPT !.todo = @ \ {k}]]
      /\ local' = [local EXCEPT ![d] =
           IF op.kind # "delete" /\ pull[d].hold THEN @
           ELSE IF op.kind = "delete" THEN None
           ELSE IF Wins(@, op.val) THEN op.val ELSE @]
      /\ gone' = [gone EXCEPT ![d] = @ /\ op.kind # "delete"]
      /\ UNCHANGED <<clock, tally, serverVars, queueVars, cursor>>

\* Operations are replayed in their order, each in one transaction: local
\* writes may come in between.
PullNext(d) == \E k \in pull[d].todo :
  LET op == log[k].op
      held == op.kind # "delete" /\ (pull[d].hold \/ awaiting[d])
  IN  /\ pull[d].stage = "applying" /\ \A l \in pull[d].todo : k <= l
      /\ pull' = [pull EXCEPT ![d] = [pull[d] EXCEPT !.todo = @ \ {k}]]
      /\ local' = [local EXCEPT ![d] =
           IF held THEN @
           ELSE IF op.kind = "delete" THEN None
           ELSE IF Wins(@, op.val) THEN op.val ELSE @]
      /\ awaiting' = [awaiting EXCEPT ![d] = @ /\ op.kind # "delete"]
      /\ gone' = [gone EXCEPT ![d] = @ /\ op.kind # "delete"]
      /\ UNCHANGED <<clock, tally, serverVars, queue, tried, removing, cursor>>

\* Fault: the cursor is set one past what was returned.
PullEndOnePast(d, held) ==
  /\ pull[d].stage = "applying" /\ pull[d].todo = {}
  /\ cursor' = [cursor EXCEPT ![d] = pull[d].upto + 1]
  /\ pull' = [pull EXCEPT ![d] = NoPull]
  /\ UNCHANGED <<clock, tally, serverVars, local, queueVars, gone>>

\* The cursor moves to the end of what was replayed, or stays held back.
PullEnd(d, held) ==
  /\ pull[d].stage = "applying" /\ pull[d].todo = {}
  /\ cursor' = [cursor EXCEPT ![d] = IF @ + held < pull[d].upto THEN pull[d].upto - held ELSE @]
  /\ pull' = [pull EXCEPT ![d] = NoPull]
  /\ UNCHANGED <<clock, tally, serverVars, local, queueVars, gone>>

\* The tab is closed and opened again: what IndexedDB holds survives.
Reload(d) ==
  /\ Losing
  /\ "deathMidDelete" \in Races \/ (removing[d] => awaiting[d])
  /\ "forgottenPush" \in Races
     \/ \A o \in PendingCreates(d) : o.n \notin tried[d]
  /\ tried' = [tried EXCEPT ![d] = {}]
  /\ awaiting' = [awaiting EXCEPT ![d] = FALSE]
  /\ removing' = [removing EXCEPT ![d] = FALSE]
  /\ pull' = [pull EXCEPT ![d] = NoPull]
  /\ gone' = [gone EXCEPT ![d] = FALSE]
  /\ req' = [req EXCEPT ![d] =
       IF @.stage = "applying" THEN [@ EXCEPT !.heard = FALSE] ELSE NoReq]
  /\ UNCHANGED <<row, log, local, queue, cursor>>

-----------------------------------------------------------------------------

LocalWrite(d) ==
  \/ \E t \in Stamps : Create(d, t) \/ Edit(d, t)
  \/ QueueDelete(d) \/ RemoveRow(d)

Push(d) == Send(d) \/ Insert(d) \/ Answer(d) \/ Acknowledge(d) \/ LosePush(d)

Apply(w) == \E i \in DOMAIN req[w].ops : ReadRow(w, i) \/ WriteRow(w, i)

ApiWrite(a) ==
  \/ \E t \in Stamps, kind \in {"create", "update", "delete"} : ApiBegin(a, t, kind)
  \/ ApiLog(a)

Pull(d) ==
  \/ PullFetch(d) \/ PullBegin(d) \/ PullNext(d)
  \/ \E held \in 0..Redelivery : PullEnd(d, held)

Next ==
  \/ \E d \in Devices : LocalWrite(d) \/ Push(d) \/ Pull(d) \/ Reload(d)
  \/ \E w \in Writers : Apply(w)
  \/ \E a \in Apis : ApiWrite(a)

Spec == Init /\ [][Next]_vars

-----------------------------------------------------------------------------
(* What replication owes the user *)

ServerQuiet == \A w \in Writers : req[w].stage # "applying"

CaughtUp(d) ==
  /\ queue[d] = {} /\ req[d].stage = "idle" /\ ~removing[d]
  /\ pull[d].stage = "idle" /\ cursor[d] = Len(log)

\* A device that has pushed all it wrote and been through the whole log holds
\* exactly the server's row, or none with it: every replica converges on what
\* last-write-wins left on the server (incomingWinsLww on both sides).
Converged == \A d \in Devices : ServerQuiet /\ CaughtUp(d) => local[d] = row

\* What the user deleted here does not come back before a delete of the entity
\* is replayed, whatever older operations are (applyPulledOps,
\* unconfirmedDeletes.ts).
NoResurrection == \A d \in Devices : gone[d] /\ ~removing[d] => local[d] = None

\* An operation leaves the queue only by another write of the user, or when
\* the server has logged it: at least once, never not at all (deleteSentOps).
NoWriteDropped ==
  [][writes' = writes =>
       \A d \in Devices : \A o \in queue[d] \ queue'[d] :
         \E k \in DOMAIN log : log[k].op = o]_vars
=============================================================================
