----------------------------- MODULE BriefSweep -----------------------------
(***************************************************************************)
(* Which items still need a brief.  items.briefStale puts an item into the *)
(* sweep's candidate set; a brief row beside the item says what content it *)
(* was made from.  Five kinds of writer touch the two: the scheduled sweep *)
(* with its batch at the model's provider, the sweep of a weekly review,   *)
(* generation on demand and after an edit, authored briefs, and removals.  *)
(* A content stands for its title and notes, and for their hash.           *)
(***************************************************************************)
EXTENDS Naturals

CONSTANTS
  Items, Contents,
  Short,      \* contents with too few notes to be worth a brief
  Workers,    \* requests and background runs that may be under way at once
  Scheduler,  \* the one of them that is the scheduled sweep
  Nobody,     \* holds no lock
  None,       \* no brief row
  Races,      \* which of AllRaces may happen
  MaxGestures, MaxFaults   \* bounds of the state space

AllRaces == {"editorClear", "unlockedClear", "deathMidClear", "unlockedEdit",
             "judgedDuringWrite"}

ASSUME ShortAssumption == Short \subseteq Contents
ASSUME NobodyAssumption == Nobody \notin Workers /\ Scheduler \in Workers
ASSUME RaceAssumption == Races \subseteq AllRaces
ASSUME BoundAssumption == MaxGestures \in Nat /\ MaxFaults \in Nat

Origins == {"model", "skipped", "authored"}
Rows == [source : Contents, origin : Origins]
ASSUME NoneAssumption == None \notin Rows

VARIABLES
  item,     \* what the sweep asks of an item: content, open or closed, marker
  brief,    \* the itemBriefs row of each item, or None
  lock,     \* who holds withBriefWriteLock of each item
  job,      \* what each worker is doing
  cron,     \* the scheduled sweep
  batch,    \* a batch row is "processing"
  requests, \* the briefBatchRequests rows of the last batch
  gestures, \* edits, authored briefs and removals so far
  faults

dbVars == <<item, brief, batch, requests>>
counts == <<gestures, faults>>
vars == <<dbVars, lock, job, cron, counts>>

Kinds == {"cron", "review", "inline", "demand", "harvest", "author", "clear"}
Phases == {"idle", "read", "planned", "deciding", "writing", "settling",
           "clearing", "marking", "deleting", "remarking"}
Locked == {"deciding", "writing", "settling", "marking"}

CronPhases == {"idle", "harvesting", "harvested", "ready", "picking", "created", "stored"}
Requests == Items \X Contents

Jobs == [phase : Phases, by : Kinds, item : Items, source : Contents,
         live : BOOLEAN, origin : Origins, force : BOOLEAN, seen : BOOLEAN]

ASSUME SomeAssumption == Items # {} /\ Contents # {}

NoJob == [phase |-> "idle", by |-> "cron", item |-> CHOOSE i \in Items : TRUE,
          source |-> CHOOSE c \in Contents : TRUE, live |-> FALSE,
          origin |-> "model", force |-> FALSE, seen |-> FALSE]

Idle(j) == j.phase = "idle"

TypeOK ==
  /\ item \in [Items -> [content : Contents, live : BOOLEAN, stale : BOOLEAN]]
  /\ brief \in [Items -> Rows \cup {None}]
  /\ lock \in [Items -> Workers \cup {Nobody}]
  /\ job \in [Workers -> Jobs]
  /\ cron \in [phase : CronPhases, walk : SUBSET Items, picked : SUBSET Requests]
  /\ batch \in BOOLEAN
  /\ requests \subseteq Requests
  /\ gestures \in Nat /\ faults \in Nat

Init ==
  /\ item \in [Items -> [content : Contents, live : {TRUE}, stale : {TRUE}]]
  /\ brief = [i \in Items |-> None]
  /\ lock = [i \in Items |-> Nobody]
  /\ job = [w \in Workers |-> NoJob]
  /\ cron = [phase |-> "idle", walk |-> {}, picked |-> {}]
  /\ batch = FALSE /\ requests = {}
  /\ gestures = 0 /\ faults = 0

\* isBriefTarget
IsBriefTarget(content, live, row) ==
  /\ live
  /\ row # None => row.source # content /\ row.origin # "authored"

Goes(w, phase) == job' = [job EXCEPT ![w].phase = phase]

Ends(w) == job' = [job EXCEPT ![w] = NoJob]

Releases(w) == lock' = [i \in Items |-> IF lock[i] = w THEN Nobody ELSE lock[i]]

Others(w, i, phases) == {v \in Workers \ {w} : job[v].item = i /\ job[v].phase \in phases}

\* A verdict on one content and a write from another do not overlap.
Undisturbed(w, phases) ==
  \/ "judgedDuringWrite" \in Races
  \/ \A v \in Others(w, job[w].item, phases) : job[v].source = job[w].source

Gesture ==
  /\ gestures < MaxGestures
  /\ gestures' = gestures + 1
  /\ UNCHANGED faults

-----------------------------------------------------------------------------
(* Selecting: the item is read first, its brief row after *)

\* Fault: only a change of status marks the item.
EditUnmarked(i, c, live) ==
  /\ Gesture
  /\ item' = [item EXCEPT ![i] = [content |-> c, live |-> live,
                                  stale |-> @.stale \/ live # @.live]]
  /\ UNCHANGED <<brief, lock, job, cron, batch, requests>>

\* Every write of an item marks it: markBriefStaleOnDocument.
Edit(i, c, live) ==
  /\ Gesture
  /\ item' = [item EXCEPT ![i] = [content |-> c, live |-> live, stale |-> TRUE]]
  /\ UNCHANGED <<brief, lock, job, cron, batch, requests>>

Starts(w, i, by, force, origin, phase) ==
  /\ Idle(job[w])
  /\ job' = [job EXCEPT ![w] = [phase |-> phase, by |-> by, item |-> i,
       source |-> item[i].content, live |-> item[i].live, origin |-> origin,
       force |-> force, seen |-> FALSE]]
  /\ UNCHANGED <<dbVars, lock>>

Generated(i) == IF item[i].content \in Short THEN "skipped" ELSE "model"

Selectable(i) == item[i].stale /\ item[i].live

\* pageItems, of the scheduled sweep: only what is marked and open.
ReadPage(i) ==
  /\ cron.phase = "picking" /\ i \in cron.walk /\ Idle(job[Scheduler])
  /\ cron' = [cron EXCEPT !.walk = @ \ {i}]
  /\ IF Selectable(i)
     THEN Starts(Scheduler, i, "cron", FALSE, Generated(i), "read")
     ELSE UNCHANGED <<dbVars, lock, job>>
  /\ UNCHANGED counts

\* ... and of a review's own (runMinePass)
ReadMine(w, i) ==
  /\ w # Scheduler /\ Selectable(i)
  /\ Starts(w, i, "review", FALSE, Generated(i), "read")
  /\ UNCHANGED <<cron, counts>>

\* loadBriefTarget, on demand or some time after an edit (scheduleInlineBrief)
ReadTarget(w, i, by, force) ==
  /\ w # Scheduler /\ by \in {"demand", "inline"} /\ (force => by = "demand")
  /\ Starts(w, i, by, force, Generated(i), "read")
  /\ UNCHANGED <<cron, counts>>

\* Fault: a false positive of the marker is passed over.
JudgeLeaves(w) ==
  /\ job[w].phase = "read"
  /\ IF IsBriefTarget(job[w].source, job[w].live, brief[job[w].item])
     THEN Goes(w, "planned") ELSE Ends(w)
  /\ UNCHANGED <<dbVars, lock, cron, counts>>

\* classifyPage, planFromTarget: what is no target any more is to be settled.
Judge(w) ==
  LET j == job[w]
      row == brief[j.item]
      target == IsBriefTarget(j.source, j.live, row)
      wanted == j.live /\ (row # None /\ row.origin = "authored" => j.force)
  IN  /\ j.phase = "read"
      /\ \/ target /\ j.by # "demand" /\ Goes(w, "planned")
         \/ ~target /\ j.by = "inline" /\ Ends(w)
         \/ /\ ~target /\ j.by \in {"cron", "review"}
            /\ Undisturbed(w, {"deciding", "writing"})
            /\ Goes(w, "clearing")
         \/ /\ j.by = "demand"
            /\ IF wanted THEN Goes(w, "planned") ELSE Ends(w)
      /\ UNCHANGED <<dbVars, lock, cron, counts>>

Unmark(j) ==
  item' = IF item[j.item].content = j.source /\ item[j.item].live = j.live
          THEN [item EXCEPT ![j.item].stale = FALSE] ELSE item

\* Fault: the marker goes whatever the item has become.
ClearBatchUnguarded(w) ==
  /\ job[w].phase = "clearing"
  /\ item' = [item EXCEPT ![job[w].item].stale = FALSE]
  /\ Ends(w)
  /\ UNCHANGED <<brief, lock, cron, batch, requests, counts>>

\* clearBriefStaleBatch: guarded by the content the verdict was made on.
ClearBatch(w) ==
  /\ job[w].phase = "clearing"
  /\ Unmark(job[w])
  /\ Ends(w)
  /\ UNCHANGED <<brief, lock, cron, batch, requests, counts>>

-----------------------------------------------------------------------------
(* Writing a generated brief: compare and set, under the item's lock *)

ForBatch(j) == j.by = "cron" /\ j.origin = "model"

\* Fault: the lock is looked at and not taken.
AcquireUnlocked(w) ==
  LET j == job[w] IN
  /\ j.phase = "planned" /\ j.by # "author" /\ ~ForBatch(j) /\ lock[j.item] = Nobody
  /\ item[j.item].content = j.source
  /\ job' = [job EXCEPT ![w].phase = "deciding", ![w].live = item[j.item].live]
  /\ UNCHANGED <<lock, dbVars, cron, counts>>

\* decideBriefWrite reads the item again: its content must not have moved ...
Acquire(w) ==
  LET j == job[w]
      current == item[j.item].content = j.source
  IN  /\ j.phase = "planned" /\ j.by # "author" /\ ~ForBatch(j)
      /\ lock[j.item] = Nobody
      /\ Undisturbed(w, {"clearing"})
      /\ lock' = IF current THEN [lock EXCEPT ![j.item] = w] ELSE lock
      /\ IF current
         THEN job' = [job EXCEPT ![w].phase = "deciding", ![w].live = item[j.item].live]
         ELSE Ends(w)
      /\ UNCHANGED <<dbVars, cron, counts>>

\* Fault: what the plan saw is not looked at again.
ReadRowOnce(w) ==
  /\ job[w].phase = "deciding"
  /\ job' = [job EXCEPT ![w].phase = "writing", ![w].seen = brief[job[w].item] # None]
  /\ UNCHANGED <<lock, dbVars, cron, counts>>

\* ... and then the row: an authored brief stays unless forced, and a skip
\* leaves one alone that is already current.
ReadRow(w) ==
  LET j == job[w]
      row == brief[j.item]
      keeps == /\ row # None /\ ~j.force
               /\ \/ row.origin = "authored"
                  \/ j.origin = "skipped" /\ row.source = j.source
  IN  /\ j.phase = "deciding"
      /\ IF keeps
         THEN Ends(w) /\ Releases(w)
         ELSE job' = [job EXCEPT ![w].phase = "writing", ![w].seen = row # None]
              /\ UNCHANGED lock
      /\ UNCHANGED <<dbVars, cron, counts>>

\* upsertBriefRow: an update of a row that is gone is quarantined.
Upsert(w) ==
  LET j == job[w] IN
  /\ j.phase = "writing"
  /\ brief' = IF j.seen /\ brief[j.item] = None THEN brief
              ELSE [brief EXCEPT ![j.item] = [source |-> j.source, origin |-> j.origin]]
  /\ Goes(w, IF j.origin = "authored" THEN "marking" ELSE "settling")
  /\ UNCHANGED <<item, lock, cron, batch, requests, counts>>

\* clearBriefStale: guarded by the content and status read under the lock.
Settle(w) ==
  /\ job[w].phase = "settling"
  /\ Unmark(job[w])
  /\ Ends(w) /\ Releases(w)
  /\ UNCHANGED <<brief, cron, batch, requests, counts>>

-----------------------------------------------------------------------------
(* Authored briefs, and removals *)

\* writeAuthoredBrief: the item was read when the request came in.
AuthorBegin(w, i) ==
  /\ w # Scheduler /\ Gesture
  /\ Starts(w, i, "author", TRUE, "authored", "planned")
  /\ UNCHANGED cron

\* Authoring looks at no content: only whether there is a row to update.
AuthorLock(w) ==
  LET j == job[w] IN
  /\ j.phase = "planned" /\ j.by = "author" /\ lock[j.item] = Nobody
  /\ lock' = [lock EXCEPT ![j.item] = w]
  /\ job' = [job EXCEPT ![w].phase = "writing", ![w].seen = brief[j.item] # None]
  /\ UNCHANGED <<dbVars, cron, counts>>

\* markBriefStale
Mark(w) ==
  /\ job[w].phase \in {"marking", "remarking"}
  /\ item' = [item EXCEPT ![job[w].item].stale = TRUE]
  /\ Ends(w) /\ Releases(w)
  /\ UNCHANGED <<brief, cron, batch, requests, counts>>

\* clearBrief, of the public API: no lock.
RemoveBegin(w, i) ==
  /\ w # Scheduler /\ brief[i] # None /\ Gesture
  /\ Starts(w, i, "clear", FALSE, "model", "deleting")
  /\ UNCHANGED cron

\* Fault: a removal leaves the marker as it was.
RemoveOnly(w) ==
  LET i == job[w].item IN
  /\ job[w].phase = "deleting"
  /\ Others(w, i, Locked \cup {"clearing"}) = {}
  /\ brief' = [brief EXCEPT ![i] = None]
  /\ Ends(w)
  /\ UNCHANGED <<item, lock, cron, batch, requests, counts>>

Remove(w) ==
  LET i == job[w].item IN
  /\ job[w].phase = "deleting"
  /\ "unlockedClear" \in Races \/ Others(w, i, Locked \cup {"clearing"}) = {}
  /\ brief' = [brief EXCEPT ![i] = None]
  /\ Goes(w, "remarking")
  /\ UNCHANGED <<item, lock, cron, batch, requests, counts>>

\* An operation pushed by a device: no lock, and whatever content it knows.
\* The editor's clearBrief is a delete of the row, and marks nothing.
DeviceBriefs(i, c) ==
  /\ Gesture
  /\ "unlockedEdit" \in Races
     \/ \A w \in Workers : job[w].item = i => job[w].phase # "writing"
  /\ \/ brief' = [brief EXCEPT ![i] = [source |-> c, origin |-> "authored"]]
     \/ "editorClear" \in Races /\ brief[i] # None /\ brief' = [brief EXCEPT ![i] = None]
  /\ UNCHANGED <<item, lock, job, cron, batch, requests>>

-----------------------------------------------------------------------------
(* The scheduled sweep: harvest first, then select and submit *)

CronGoes(phase, picked) == cron' = [phase |-> phase, walk |-> {}, picked |-> picked]

HarvestBegin ==
  /\ cron.phase = "idle" /\ batch
  /\ CronGoes("harvesting", requests)
  /\ UNCHANGED <<dbVars, lock, job, counts>>

\* Results are written one at a time; whatever cannot be is left for later.
HarvestWrite(r) ==
  /\ cron.phase = "harvesting" /\ r \in cron.picked /\ Idle(job[Scheduler])
  /\ CronGoes("harvesting", cron.picked \ {r})
  /\ job' = [job EXCEPT ![Scheduler] = [NoJob EXCEPT !.phase = "planned",
       !.by = "harvest", !.item = r[1], !.source = r[2]]]
  /\ UNCHANGED <<dbVars, lock, counts>>

HarvestError(r) ==
  /\ cron.phase = "harvesting" /\ r \in cron.picked /\ Idle(job[Scheduler])
  /\ CronGoes("harvesting", cron.picked \ {r})
  /\ UNCHANGED <<dbVars, lock, job, counts>>

\* markHarvested
HarvestEnd ==
  /\ cron.phase = "harvesting" /\ cron.picked = {} /\ Idle(job[Scheduler])
  /\ batch' = FALSE
  /\ CronGoes("harvested", {})
  /\ UNCHANGED <<item, brief, requests, lock, job, counts>>

\* expireBatch, or a batch the provider does not know: markTerminal
Expire ==
  /\ cron.phase = "idle" /\ batch
  /\ batch' = FALSE
  /\ CronGoes("harvested", {})
  /\ UNCHANGED <<item, brief, requests, lock, job, counts>>

\* deleteByBatch
DropRequests ==
  /\ cron.phase = "harvested"
  /\ requests' = {}
  /\ CronGoes("ready", {})
  /\ UNCHANGED <<item, brief, batch, lock, job, counts>>

\* submitBriefBatch, when no batch is out: what is marked now is walked.
SubmitBegin ==
  /\ cron.phase \in {"idle", "ready"} /\ ~batch
  /\ cron' = [phase |-> "picking", walk |-> {i \in Items : Selectable(i)}, picked |-> {}]
  /\ UNCHANGED <<dbVars, lock, job, counts>>

Enlist ==
  LET j == job[Scheduler] IN
  /\ cron.phase = "picking" /\ j.phase = "planned"
  /\ ForBatch(j)
  /\ cron' = [cron EXCEPT !.picked = @ \cup {<<j.item, j.source>>}]
  /\ Ends(Scheduler)
  /\ UNCHANGED <<dbVars, lock, counts>>

\* messages.batches.create, or nothing to submit
SubmitEnd ==
  /\ cron.phase = "picking" /\ cron.walk = {} /\ Idle(job[Scheduler])
  /\ CronGoes(IF cron.picked = {} THEN "idle" ELSE "created", cron.picked)
  /\ UNCHANGED <<dbVars, lock, job, counts>>

\* Fault: the batch row goes first.
StoreBatchFirst ==
  /\ cron.phase = "created"
  /\ batch' = TRUE
  /\ CronGoes("idle", {})
  /\ UNCHANGED <<item, brief, requests, lock, job, counts>>

StoreRequests ==
  /\ cron.phase = "created"
  /\ requests' = cron.picked
  /\ CronGoes("stored", cron.picked)
  /\ UNCHANGED <<item, brief, batch, lock, job, counts>>

StoreBatch ==
  /\ cron.phase = "stored"
  /\ batch' = TRUE
  /\ CronGoes("idle", {})
  /\ UNCHANGED <<item, brief, requests, lock, job, counts>>

-----------------------------------------------------------------------------
(* Failures *)

Failing ==
  /\ faults < MaxFaults
  /\ faults' = faults + 1
  /\ UNCHANGED <<dbVars, gestures>>

Mortal(w) == "deathMidClear" \in Races \/ job[w].phase # "remarking"

\* One generation fails: no model, no database.  A sweep fails with it.
Fail(w) ==
  /\ ~Idle(job[w]) /\ Mortal(w)
  /\ Failing
  /\ Ends(w) /\ Releases(w)
  /\ IF job[w].by = "cron" THEN CronGoes("idle", {}) ELSE UNCHANGED cron

\* The provider refuses a batch, or the database a write of the sweep's own.
SweepFails ==
  /\ cron.phase # "idle" /\ Idle(job[Scheduler])
  /\ Failing
  /\ CronGoes("idle", {})
  /\ UNCHANGED <<lock, job>>

\* The process stops.
Restart ==
  /\ \A w \in Workers : Mortal(w)
  /\ Failing
  /\ job' = [w \in Workers |-> NoJob]
  /\ lock' = [i \in Items |-> Nobody]
  /\ CronGoes("idle", {})

-----------------------------------------------------------------------------

Select(w) ==
  \/ \E i \in Items :
       ReadMine(w, i) \/ \E by \in Kinds, force \in BOOLEAN : ReadTarget(w, i, by, force)
  \/ Judge(w) \/ ClearBatch(w)

Write(w) == Acquire(w) \/ ReadRow(w) \/ Upsert(w) \/ Settle(w)

ByHand(w) ==
  \/ \E i \in Items : AuthorBegin(w, i) \/ RemoveBegin(w, i)
  \/ AuthorLock(w) \/ Remove(w) \/ Mark(w)

Device(i) ==
  \E c \in Contents : DeviceBriefs(i, c) \/ \E live \in BOOLEAN : Edit(i, c, live)

Harvest ==
  \/ HarvestBegin \/ HarvestEnd \/ Expire \/ DropRequests
  \/ \E r \in Requests : HarvestError(r) \/ HarvestWrite(r)

Submit ==
  \/ SubmitBegin \/ Enlist \/ SubmitEnd \/ StoreRequests \/ StoreBatch
  \/ \E i \in Items : ReadPage(i)

Next ==
  \/ \E w \in Workers : Select(w) \/ Write(w) \/ ByHand(w) \/ Fail(w)
  \/ \E i \in Items : Device(i)
  \/ Harvest \/ Submit \/ SweepFails \/ Restart

Spec == Init /\ [][Next]_vars

\* What is under way goes on, the lock's queue is fair, the scheduler keeps
\* calling, and the provider does not refuse for ever.
Fairness ==
  /\ \A w \in Workers :
       /\ WF_vars(Judge(w) \/ ClearBatch(w) \/ ReadRow(w) \/ Upsert(w) \/ Settle(w))
       /\ WF_vars(Remove(w) \/ Mark(w))
       /\ SF_vars(Acquire(w)) /\ SF_vars(AuthorLock(w))
  /\ WF_vars(Submit) /\ WF_vars(HarvestEnd \/ DropRequests)
  /\ SF_vars(HarvestBegin)
  /\ \A r \in Requests : SF_vars(HarvestWrite(r))

FairSpec == Spec /\ Fairness

-----------------------------------------------------------------------------
(* What the sweep owes an item *)

NeedsBrief(i) == IsBriefTarget(item[i].content, item[i].live, brief[i])

\* No item that needs a brief is ever lost sight of: it is marked, or whoever
\* took its brief away is about to mark it (briefStaleMarker.ts: a false
\* "settled" would mean an item never gets a brief).
NotForgotten ==
  \A i \in Items : NeedsBrief(i) =>
    item[i].stale \/ \E w \in Workers : job[w].item = i /\ job[w].phase = "remarking"

\* Nothing generated replaces what somebody wrote, unless they asked for it
\* (writeModelBrief: refuses to replace an authored brief without force).
AuthoredKept ==
  [][\A i \in Items :
       brief[i] # None /\ brief[i].origin = "authored"
       /\ brief'[i] # None /\ brief'[i].origin # "authored" =>
         \E w \in Workers : job[w].item = i /\ job[w].phase = "writing" /\ job[w].force]_vars

\* A batch on record has its requests on record: a result that comes back can
\* be told apart (createBatch: the batch row is persisted last).
BatchHasRequests == batch => requests # {}

-----------------------------------------------------------------------------
(* Why no item is lost, when none of the races happens *)

Generates(w) == job[w].phase \in {"deciding", "writing"} /\ job[w].origin # "authored"

\* A lock is held by whoever is past taking it.
LocksHeld == \A w \in Workers : job[w].phase \in Locked => lock[job[w].item] = w

\* Who is about to take a marker away has seen to what the item needed.
VerdictsStand ==
  \A w \in Workers : job[w].phase \in {"settling", "clearing"} =>
    ~IsBriefTarget(job[w].source, job[w].live, brief[job[w].item])

\* A brief about to be written is of the present content, or will be redone.
WritesCurrent ==
  \A w \in Workers : Generates(w) =>
    item[job[w].item].content = job[w].source \/ item[job[w].item].stale

NoOverlap ==
  \A v, w \in Workers :
    Generates(v) /\ job[w].phase = "clearing" /\ job[v].item = job[w].item =>
      job[v].source = job[w].source

\* A row that the writer has seen under its lock is there when it writes ...
RowStays ==
  \A w \in Workers : job[w].phase = "writing" /\ job[w].seen => brief[job[w].item] # None

\* ... and if somebody wrote it, so is their consent.
WritesAsked ==
  \A w \in Workers : job[w].phase = "writing" =>
    LET row == brief[job[w].item] IN
    row # None /\ row.origin = "authored" => job[w].force

AuthorsInsist ==
  \A w \in Workers : job[w].by = "author" => job[w].force /\ job[w].origin = "authored"

BatchInOrder ==
  /\ cron.phase \in {"created", "stored"} => cron.picked # {}
  /\ cron.phase = "stored" => requests = cron.picked
  /\ cron.phase = "harvested" => ~batch

IInv ==
  /\ TypeOK /\ LocksHeld /\ VerdictsStand /\ WritesCurrent /\ NoOverlap
  /\ RowStays /\ WritesAsked /\ AuthorsInsist /\ BatchInOrder /\ BatchHasRequests /\ NotForgotten

-----------------------------------------------------------------------------
\* Every item comes to rest, again and again, however often it is written:
\* briefed, judged, or closed.
Drains == \A i \in Items : []<>(item[i].stale => ~item[i].live)
=============================================================================
