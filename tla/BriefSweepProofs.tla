-------------------------- MODULE BriefSweepProofs --------------------------
(* What the sweep never loses, for any number of items and workers. *)
EXTENDS BriefSweep, TLAPS

\* What holds of the locks, whatever races.
LockInv == LocksHeld /\ AuthorsInsist

\* What holds of items and briefs, when only a device's brief may race.
Core == VerdictsStand /\ WritesCurrent /\ NoOverlap /\ RowStays /\ NotForgotten
Serial == Races \subseteq {"unlockedEdit"}

\* A phase in which a worker has neither a lock nor a verdict nor a debt.
Harmless == {"idle", "read", "planned", "deleting"}

LEMMA NoJobTyped == NoJob \in Jobs
BY SomeAssumption DEF NoJob, Jobs, Phases, Kinds, Origins

\* Goes changes the phase of one worker.
LEMMA Going ==
  ASSUME job \in [Workers -> Jobs], NEW w \in Workers, NEW p \in Phases, Goes(w, p)
  PROVE  /\ job' \in [Workers -> Jobs]
         /\ job'[w] = [job[w] EXCEPT !.phase = p]
         /\ \A v \in Workers : v # w => job'[v] = job[v]
BY DEF Goes, Jobs

LEMMA GoingFields ==
  ASSUME job \in [Workers -> Jobs], NEW w \in Workers, NEW p \in Phases,
         job'[w] = [job[w] EXCEPT !.phase = p]
  PROVE  /\ job'[w].phase = p /\ job'[w].by = job[w].by
         /\ job'[w].item = job[w].item /\ job'[w].source = job[w].source
         /\ job'[w].live = job[w].live /\ job'[w].origin = job[w].origin
         /\ job'[w].force = job[w].force /\ job'[w].seen = job[w].seen
BY DEF Jobs

\* The two together: what one worker's move to another phase leaves and changes.
LEMMA Moved ==
  ASSUME TypeOK, NEW w \in Workers, NEW p \in Phases, Goes(w, p)
  PROVE  /\ job' \in [Workers -> Jobs] /\ \A v \in Workers : v # w => job'[v] = job[v]
         /\ job'[w].phase = p /\ job'[w].by = job[w].by /\ job'[w].item = job[w].item
         /\ job'[w].source = job[w].source /\ job'[w].live = job[w].live
         /\ job'[w].origin = job[w].origin /\ job'[w].force = job[w].force
<1>1. job \in [Workers -> Jobs]
  BY DEF TypeOK
<1>2. /\ job' \in [Workers -> Jobs] /\ \A v \in Workers : v # w => job'[v] = job[v]
      /\ job'[w] = [job[w] EXCEPT !.phase = p]
  BY <1>1, Going
<1>3. /\ job'[w].phase = p /\ job'[w].by = job[w].by /\ job'[w].item = job[w].item
      /\ job'[w].source = job[w].source /\ job'[w].live = job[w].live
      /\ job'[w].origin = job[w].origin /\ job'[w].force = job[w].force
  BY <1>1, <1>2, GoingFields
<1> QED BY <1>2, <1>3

LEMMA Ending ==
  ASSUME job \in [Workers -> Jobs], NEW w \in Workers, Ends(w)
  PROVE  /\ job' \in [Workers -> Jobs]
         /\ job'[w].phase = "idle" /\ job'[w].by = "cron"
         /\ \A v \in Workers : v # w => job'[v] = job[v]
BY NoJobTyped DEF Ends, NoJob

\* Only the acting worker lets a lock go.
LEMMA Releasing ==
  ASSUME lock \in [Items -> Workers \cup {Nobody}], NEW w \in Workers, Releases(w)
  PROVE  /\ lock' \in [Items -> Workers \cup {Nobody}]
         /\ \A i \in Items : lock'[i] = lock[i] \/ lock[i] = w
BY DEF Releases

\* A worker that turns harmless leaves everything as good as it was.
LEMMA Quiet ==
  ASSUME TypeOK, LockInv, Core, NEW w \in Workers, UNCHANGED <<item, brief>>,
         job' \in [Workers -> Jobs],
         \A v \in Workers : v # w => job'[v] = job[v],
         job'[w].phase \in Harmless, job[w].phase # "remarking"
  PROVE  Core'
<1>1. VerdictsStand'
  BY DEF Core, VerdictsStand, Harmless, TypeOK, Jobs, IsBriefTarget
<1>2. WritesCurrent'
  BY DEF Core, WritesCurrent, Generates, Harmless
<1>3. NoOverlap'
  BY DEF Core, NoOverlap, Generates, Harmless
<1>4. RowStays'
  BY DEF Core, RowStays, Harmless
<1>5. NotForgotten'
  BY DEF Core, NotForgotten, NeedsBrief, IsBriefTarget
<1> QED BY <1>1, <1>2, <1>3, <1>4, <1>5 DEF Core

LEMMA GeneratedTyped ==
  ASSUME NEW i \in Items PROVE Generated(i) \in Origins /\ Generated(i) # "authored"
BY DEF Generated, Origins

-----------------------------------------------------------------------------
(* Locks, whatever races *)

\* An author insists.
Insists(w) == job'[w].by = "author" => job'[w].force /\ job'[w].origin = "authored"

\* Only worker w has moved.
Alone(w) == job' \in [Workers -> Jobs] /\ \A v \in Workers : v # w => job'[v] = job[v]

\* A worker begins a job, or drops one, and nothing hangs on it.
Prepares(w) ==
  /\ Alone(w) /\ Insists(w)
  /\ job[w].phase # "remarking" /\ job'[w].phase \in Harmless
  /\ UNCHANGED <<item, brief, lock>>

\* After the step worker w needs no lock ...
LetsGo(w) ==
  /\ Alone(w) /\ Insists(w)
  /\ job'[w].phase \notin Locked
  /\ \A i \in Items : lock'[i] = lock[i] \/ lock[i] = w
  /\ brief' \in [Items -> Rows \cup {None}]
  /\ \A i \in Items : brief'[i] = brief[i] \/ brief'[i] = None

\* ... or has the one it needs.
Holds(w) ==
  /\ Alone(w) /\ Insists(w)
  /\ lock'[job'[w].item] = w
  /\ \A i \in Items : lock'[i] = lock[i] \/ lock[i] = Nobody
  /\ job'[w].phase = "writing" =>
       LET row == brief[job'[w].item] IN row # None /\ row.origin = "authored" => job'[w].force
  /\ \/ brief' = brief
     \/ /\ job[w].phase = "writing" /\ job'[w].phase # "writing"
        /\ brief' \in [Items -> Rows \cup {None}]
        /\ \A i \in Items : i # job[w].item => brief'[i] = brief[i]

LEMMA Prepared ==
  ASSUME TypeOK, NEW w \in Workers, NEW i \in Items, NEW by \in Kinds, NEW force \in BOOLEAN,
         NEW origin \in Origins, NEW p \in Harmless, Starts(w, i, by, force, origin, p),
         by = "author" => force /\ origin = "authored"
  PROVE  Prepares(w)
<1> DEFINE new == [phase |-> p, by |-> by, item |-> i, source |-> item[i].content,
                   live |-> item[i].live, origin |-> origin, force |-> force, seen |-> FALSE]
<1>1. p \in Phases
  BY DEF Phases, Harmless
<1>2. new \in Jobs
  BY <1>1 DEF TypeOK, Jobs
<1>3. job' = [job EXCEPT ![w] = new] /\ job[w].phase = "idle" /\ UNCHANGED <<item, brief, lock>>
  BY DEF Starts, Idle, dbVars
<1>4. new.phase = p /\ new.by = by /\ new.force = force /\ new.origin = origin
  OBVIOUS
<1> HIDE DEF new
<1>5. /\ job' \in [Workers -> Jobs] /\ job'[w] = new
      /\ \A u \in Workers : u # w => job'[u] = job[u]
  BY <1>2, <1>3 DEF TypeOK
<1> QED BY <1>3, <1>4, <1>5 DEF Prepares, Alone, Insists

\* Whatever begins with an item read, and the sweep's own jobs.
LEMMA Beginning ==
  ASSUME TypeOK, NEW w \in Workers, NEW i \in Items, NEW by \in Kinds, NEW force \in BOOLEAN,
         ReadMine(w, i) \/ ReadTarget(w, i, by, force) \/ AuthorBegin(w, i) \/ RemoveBegin(w, i)
  PROVE  Prepares(w)
<1>1. /\ Generated(i) \in Origins /\ "authored" \in Origins /\ "model" \in Origins
      /\ "review" \in Kinds /\ "author" \in Kinds /\ "clear" \in Kinds
      /\ "read" \in Harmless /\ "planned" \in Harmless /\ "deleting" \in Harmless
      /\ TRUE \in BOOLEAN /\ FALSE \in BOOLEAN
      /\ "review" # "author" /\ "clear" # "author"
  BY GeneratedTyped DEF Origins, Kinds, Harmless
<1>2. CASE ReadMine(w, i)
  <2>1. Starts(w, i, "review", FALSE, Generated(i), "read")
    BY <1>2 DEF ReadMine
  <2> QED BY ZenonT(30), <1>1, <2>1, Prepared
<1>3. CASE ReadTarget(w, i, by, force)
  <2>1. Starts(w, i, by, force, Generated(i), "read") /\ by # "author"
    BY <1>3 DEF ReadTarget
  <2> QED BY ZenonT(30), <1>1, <2>1, Prepared
<1>4. CASE AuthorBegin(w, i)
  <2>1. Starts(w, i, "author", TRUE, "authored", "planned")
    BY <1>4 DEF AuthorBegin
  <2> QED BY ZenonT(30), <1>1, <2>1, Prepared
<1>5. CASE RemoveBegin(w, i)
  <2>1. Starts(w, i, "clear", FALSE, "model", "deleting")
    BY <1>5 DEF RemoveBegin
  <2> QED BY ZenonT(30), <1>1, <2>1, Prepared
<1> QED BY <1>2, <1>3, <1>4, <1>5

LEMMA CronMoves ==
  ASSUME TypeOK, Harvest \/ Submit \/ SweepFails
  PROVE  Prepares(Scheduler) \/ UNCHANGED <<item, brief, lock, job>>
<1>1. ASSUME NEW i \in Items, ReadPage(i), Selectable(i)
      PROVE  Prepares(Scheduler)
  <2>1. Starts(Scheduler, i, "cron", FALSE, Generated(i), "read")
    BY <1>1 DEF ReadPage
  <2>2. /\ Generated(i) \in Origins /\ "cron" \in Kinds /\ "read" \in Harmless
        /\ FALSE \in BOOLEAN /\ "cron" # "author" /\ Scheduler \in Workers
    BY GeneratedTyped, NobodyAssumption DEF Kinds, Harmless
  <2> QED BY ZenonT(30), <2>1, <2>2, Prepared
<1>2. ASSUME NEW i \in Items, ReadPage(i), ~Selectable(i)
      PROVE  UNCHANGED <<item, brief, lock, job>>
  BY <1>2 DEF ReadPage, dbVars
<1>3. ASSUME NEW r \in Requests, HarvestWrite(r) PROVE Prepares(Scheduler)
  <2> DEFINE new == [NoJob EXCEPT !.phase = "planned", !.by = "harvest",
                                  !.item = r[1], !.source = r[2]]
  <2>1. new \in Jobs /\ new.phase = "planned" /\ new.by = "harvest"
    BY NoJobTyped DEF NoJob, Jobs, Phases, Kinds, Requests
  <2>2. /\ job' = [job EXCEPT ![Scheduler] = new] /\ UNCHANGED <<item, brief, lock>>
        /\ job[Scheduler].phase = "idle"
    BY <1>3 DEF HarvestWrite, dbVars, Idle
  <2> HIDE DEF new
  <2>3. /\ job' \in [Workers -> Jobs] /\ job'[Scheduler] = new
        /\ \A v \in Workers : v # Scheduler => job'[v] = job[v]
    BY <2>1, <2>2, NobodyAssumption DEF TypeOK
  <2> QED BY <2>1, <2>2, <2>3 DEF Prepares, Alone, Insists, Harmless
<1>4. CASE Enlist
  <2>1. Ends(Scheduler) /\ UNCHANGED <<item, brief, lock>> /\ job[Scheduler].phase = "planned"
    BY <1>4 DEF Enlist, dbVars
  <2> QED BY <2>1, Ending, NobodyAssumption DEF TypeOK, Prepares, Alone, Insists, Harmless
<1>5. CASE \/ HarvestBegin \/ HarvestEnd \/ Expire \/ DropRequests \/ SubmitBegin \/ SubmitEnd
           \/ StoreRequests \/ StoreBatch \/ SweepFails
  BY <1>5 DEF HarvestBegin, HarvestEnd, Expire, DropRequests, SubmitBegin, SubmitEnd,
              StoreRequests, StoreBatch, SweepFails, Failing, dbVars
<1>6. ASSUME NEW r \in Requests, HarvestError(r) PROVE UNCHANGED <<item, brief, lock, job>>
  BY <1>6 DEF HarvestError, dbVars
<1> QED BY <1>1, <1>2, <1>3, <1>4, <1>5, <1>6 DEF Harvest, Submit

\* A step of a worker's own, that has begun.
LEMMA WorkerMoves ==
  ASSUME TypeOK, LockInv, NEW w \in Workers,
         \/ Judge(w) \/ ClearBatch(w) \/ Write(w) \/ AuthorLock(w) \/ Remove(w) \/ Mark(w) \/ Fail(w)
  PROVE  LetsGo(w) \/ Holds(w)
<1> DEFINE k == job[w].item
<1>1. /\ k \in Items /\ job[w] \in Jobs
      /\ lock \in [Items -> Workers \cup {Nobody}] /\ brief \in [Items -> Rows \cup {None}]
      /\ job[w].by = "author" => job[w].force /\ job[w].origin = "authored"
      /\ job[w].phase \in Locked => lock[k] = w
  BY DEF TypeOK, Jobs, LockInv, LocksHeld, AuthorsInsist
<1>2. ASSUME Ends(w), UNCHANGED lock \/ Releases(w), UNCHANGED brief PROVE LetsGo(w)
  <2>1. Alone(w) /\ job'[w].phase = "idle" /\ job'[w].by = "cron"
    BY <1>2, Ending DEF Alone, TypeOK
  <2>2. \A i \in Items : lock'[i] = lock[i] \/ lock[i] = w
    BY <1>1, <1>2, Releasing
  <2>3. QED  BY <1>1, <1>2, <2>1, <2>2 DEF LetsGo, Insists, Locked
<1>3. ASSUME NEW p \in Phases, Goes(w, p)
      PROVE  /\ Alone(w) /\ Insists(w)
             /\ job'[w].phase = p /\ job'[w].item = k
  BY <1>1, <1>3, Moved DEF Alone, Insists
<1>4. ASSUME UNCHANGED brief,
             job' = [job EXCEPT ![w].phase = "writing", ![w].seen = brief[k] # None],
             lock'[k] = w, \A i \in Items : lock'[i] = lock[i] \/ lock[i] = Nobody,
             brief[k] # None /\ brief[k].origin = "authored" => job[w].force
      PROVE  Holds(w)
  <2> DEFINE new == [job[w] EXCEPT !.phase = "writing", !.seen = brief[k] # None]
  <2>1. job' = [job EXCEPT ![w] = new]
    BY <1>4 DEF TypeOK, Jobs
  <2>2. "writing" \in Phases /\ (brief[k] # None) \in BOOLEAN
    BY DEF Phases
  <2>3. /\ new \in Jobs /\ new.phase = "writing" /\ new.item = k
        /\ new.by = job[w].by /\ new.force = job[w].force /\ new.origin = job[w].origin
    BY <1>1, <2>2 DEF Jobs
  <2> HIDE DEF new
  <2>4. job' \in [Workers -> Jobs] /\ job'[w] = new /\ \A v \in Workers : v # w => job'[v] = job[v]
    BY ZenonT(30), <2>1, <2>3 DEF TypeOK
  <2>5. QED  BY <1>1, <1>4, <2>3, <2>4 DEF Holds, Alone, Insists
<1>5. CASE Judge(w)
  <2>1. UNCHANGED <<brief, lock>> /\ (Ends(w) \/ Goes(w, "planned") \/ Goes(w, "clearing"))
    BY <1>5 DEF Judge, dbVars
  <2>2. {"planned", "clearing"} \subseteq Phases \ Locked
    BY DEF Phases, Locked
  <2>3. QED  BY <1>1, <1>2, <1>3, <2>1, <2>2 DEF LetsGo
<1>6. CASE ClearBatch(w) \/ Settle(w) \/ Mark(w) \/ Fail(w)
  BY <1>2, <1>6 DEF ClearBatch, Settle, Mark, Fail, Failing, dbVars
<1>7. CASE Acquire(w)
  <2>1. /\ UNCHANGED brief /\ lock[k] = Nobody
        /\ \/ UNCHANGED lock /\ Ends(w)
           \/ /\ lock' = [lock EXCEPT ![k] = w]
              /\ job' = [job EXCEPT ![w].phase = "deciding", ![w].live = item[k].live]
    BY <1>7 DEF Acquire, dbVars
  <2>2. CASE /\ lock' = [lock EXCEPT ![k] = w]
             /\ job' = [job EXCEPT ![w].phase = "deciding", ![w].live = item[k].live]
    <3> DEFINE new == [job[w] EXCEPT !.phase = "deciding", !.live = item[k].live]
    <3>1. job' = [job EXCEPT ![w] = new]
      BY <2>2 DEF TypeOK, Jobs
    <3>2. "deciding" \in Phases /\ item[k].live \in BOOLEAN
      BY <1>1 DEF Phases, TypeOK
    <3>3. /\ new \in Jobs /\ new.phase = "deciding" /\ new.item = k
          /\ new.by = job[w].by /\ new.force = job[w].force /\ new.origin = job[w].origin
      BY <1>1, <3>2 DEF Jobs
    <3> HIDE DEF new
    <3>4. job' \in [Workers -> Jobs] /\ job'[w] = new /\ \A v \in Workers : v # w => job'[v] = job[v]
      BY ZenonT(30), <3>1, <3>3 DEF TypeOK
    <3>5. lock'[k] = w /\ \A i \in Items : lock'[i] = lock[i] \/ lock[i] = Nobody
      BY <1>1, <2>1, <2>2
    <3>6. QED  BY <1>1, <2>1, <3>3, <3>4, <3>5 DEF Holds, Alone, Insists
  <2>3. QED  BY <1>2, <2>1, <2>2
<1>8. CASE ReadRow(w)
  <2>1. /\ UNCHANGED brief /\ lock[k] = w
        /\ \/ Ends(w) /\ Releases(w)
           \/ /\ job' = [job EXCEPT ![w].phase = "writing", ![w].seen = brief[k] # None]
              /\ UNCHANGED lock
              /\ brief[k] # None /\ brief[k].origin = "authored" => job[w].force
    BY <1>1, <1>8 DEF ReadRow, dbVars, Locked
  <2>2. QED  BY <1>2, <1>4, <2>1
<1>9. CASE AuthorLock(w)
  <2>1. /\ UNCHANGED brief /\ lock[k] = Nobody /\ lock' = [lock EXCEPT ![k] = w] /\ job[w].by = "author"
        /\ job' = [job EXCEPT ![w].phase = "writing", ![w].seen = brief[k] # None]
    BY <1>9 DEF AuthorLock, dbVars
  <2>2. lock'[k] = w /\ \A i \in Items : lock'[i] = lock[i] \/ lock[i] = Nobody
    BY <1>1, <2>1
  <2>3. QED  BY <1>1, <1>4, <2>1, <2>2
<1>10. CASE Upsert(w)
  <2>1. PICK p \in {"marking", "settling"} : Goes(w, p)
    BY <1>10 DEF Upsert
  <2>2. p \in Phases /\ p # "writing"
    BY DEF Phases
  <2>3. job[w].phase = "writing" /\ UNCHANGED lock /\ lock[k] = w
    BY <1>1, <1>10 DEF Upsert, Locked
  <2>4. [source |-> job[w].source, origin |-> job[w].origin] \in Rows
    BY <1>1 DEF Jobs, Rows
  <2>5. brief' \in [Items -> Rows \cup {None}] /\ \A i \in Items : i # k => brief'[i] = brief[i]
    BY <1>1, <1>10, <2>4 DEF Upsert
  <2>6. Alone(w) /\ Insists(w) /\ job'[w].phase = p /\ job'[w].item = k
    BY <1>3, <2>1, <2>2
  <2>7. QED  BY <2>2, <2>3, <2>5, <2>6 DEF Holds
<1>11. CASE Remove(w)
  <2>1. Goes(w, "remarking") /\ UNCHANGED lock /\ brief' = [brief EXCEPT ![k] = None]
    BY <1>11 DEF Remove
  <2>2. "remarking" \in Phases \ Locked
    BY DEF Phases, Locked
  <2>3. /\ brief' \in [Items -> Rows \cup {None}]
        /\ \A i \in Items : brief'[i] = brief[i] \/ brief'[i] = None
    BY <1>1, <2>1
  <2>4. QED  BY <1>3, <2>1, <2>2, <2>3 DEF LetsGo
<1>12. QED  BY <1>5, <1>6, <1>7, <1>8, <1>9, <1>10, <1>11 DEF Write

\* None of these takes a lock, or a consent, from anybody.
LEMMA LocksKept ==
  ASSUME TypeOK, LockInv, NEW w \in Workers, LetsGo(w) \/ Holds(w) \/ Prepares(w)
  PROVE  /\ LockInv' /\ job' \in [Workers -> Jobs] /\ brief' \in [Items -> Rows \cup {None}]
         /\ WritesAsked => WritesAsked'
<1>1. /\ job' \in [Workers -> Jobs] /\ Insists(w) /\ \A v \in Workers : v # w => job'[v] = job[v]
      /\ brief' \in [Items -> Rows \cup {None}]
  BY DEF LetsGo, Holds, Prepares, Alone, TypeOK
<1>2. AuthorsInsist'
  BY <1>1 DEF LockInv, AuthorsInsist, Insists
<1>3. \A v \in Workers : /\ job[v].item \in Items /\ v # Nobody
                         /\ job[v].phase \in Locked => lock[job[v].item] = v
  BY NobodyAssumption DEF TypeOK, Jobs, LockInv, LocksHeld
<1>4. \A v \in Workers : v # w /\ job[v].phase \in Locked => lock'[job[v].item] = v
  BY <1>3 DEF LetsGo, Holds, Prepares
<1>5. job'[w].phase \in Locked => lock'[job'[w].item] = w
  BY DEF LetsGo, Holds, Prepares, Harmless, Locked
<1>6. LocksHeld'
  BY <1>1, <1>4, <1>5 DEF LocksHeld
<1>7. ASSUME WritesAsked PROVE WritesAsked'
  <2> SUFFICES ASSUME NEW v \in Workers, job'[v].phase = "writing",
                      brief'[job'[v].item] # None, brief'[job'[v].item].origin = "authored"
               PROVE  job'[v].force
    BY DEF WritesAsked
  <2>1. CASE LetsGo(w) \/ Prepares(w)
    <3>1. v # w /\ job'[v] = job[v]
      BY <1>1, <2>1 DEF LetsGo, Prepares, Locked, Harmless
    <3>2. brief'[job[v].item] = brief[job[v].item]
      BY <1>3, <2>1, <3>1 DEF LetsGo, Prepares
    <3> QED BY <1>7, <3>1, <3>2 DEF WritesAsked
  <2>2. CASE Holds(w) /\ v = w
    BY <2>2 DEF Holds
  <2>3. CASE Holds(w) /\ v # w
    <3>1. job'[v] = job[v] /\ lock[job[v].item] = v
      BY <1>1, <1>3, <2>3 DEF Locked
    <3>2. job[w].phase = "writing" => job[v].item # job[w].item
      BY <1>3, <2>3, <3>1 DEF Locked
    <3>3. brief'[job[v].item] = brief[job[v].item]
      BY <1>3, <2>3, <3>2 DEF Holds
    <3> QED BY <1>7, <3>1, <3>3 DEF WritesAsked
  <2> QED BY <2>1, <2>2, <2>3
<1> QED BY <1>1, <1>2, <1>6, <1>7 DEF LockInv

LEMMA RowTyped ==
  ASSUME TypeOK, NEW i \in Items, NEW c \in Contents, DeviceBriefs(i, c)
  PROVE  brief' \in [Items -> Rows \cup {None}] /\ \A k \in Items : k # i => brief'[k] = brief[k]
<1> DEFINE row == [source |-> c, origin |-> "authored"]
<1>1. row \in Rows
  BY DEF Rows, Origins
<1>2. brief' = [brief EXCEPT ![i] = row] \/ brief' = [brief EXCEPT ![i] = None]
  BY DEF DeviceBriefs
<1> HIDE DEF row
<1> QED BY <1>1, <1>2 DEF TypeOK

LEMMA LockNext ==
  ASSUME TypeOK, LockInv, Next
  PROVE  /\ LockInv' /\ job' \in [Workers -> Jobs] /\ brief' \in [Items -> Rows \cup {None}]
         /\ "unlockedEdit" \notin Races /\ WritesAsked => WritesAsked'
<1> DEFINE Goal == /\ LockInv' /\ job' \in [Workers -> Jobs] /\ brief' \in [Items -> Rows \cup {None}]
                   /\ "unlockedEdit" \notin Races /\ WritesAsked => WritesAsked'
<1>1. ASSUME NEW w \in Workers, Prepares(w) \/ LetsGo(w) \/ Holds(w) PROVE Goal
  BY <1>1, LocksKept
<1>2. CASE UNCHANGED <<brief, lock, job>>
  BY <1>2 DEF TypeOK, LockInv, LocksHeld, AuthorsInsist, WritesAsked
<1>3. ASSUME NEW w \in Workers, Select(w) \/ ByHand(w) \/ Write(w) \/ Fail(w) PROVE Goal
  <2> HIDE DEF Goal
  <2>1. ASSUME NEW i \in Items, NEW by \in Kinds, NEW force \in BOOLEAN,
               \/ ReadMine(w, i) \/ ReadTarget(w, i, by, force)
               \/ AuthorBegin(w, i) \/ RemoveBegin(w, i)
        PROVE  Goal
    BY ZenonT(30), <1>1, <2>1, Beginning
  <2>2. CASE \/ Judge(w) \/ ClearBatch(w) \/ Write(w) \/ AuthorLock(w) \/ Remove(w) \/ Mark(w)
             \/ Fail(w)
    BY ZenonT(30), <1>1, <2>2, WorkerMoves
  <2>3. "cron" \in Kinds /\ TRUE \in BOOLEAN
    BY DEF Kinds
  <2> QED BY <1>3, <2>1, <2>2, <2>3 DEF Select, ByHand
<1>4. CASE Harvest \/ Submit \/ SweepFails
  <2> HIDE DEF Goal
  <2>1. CASE Prepares(Scheduler)
    <3>1. Scheduler \in Workers
      BY NobodyAssumption
    <3> QED BY <2>1, <3>1, LocksKept DEF Goal
  <2>2. CASE UNCHANGED <<item, brief, lock, job>>
    BY <1>2, <2>2
  <2> QED BY <1>4, <2>1, <2>2, CronMoves
<1>5. ASSUME NEW i \in Items, NEW c \in Contents, DeviceBriefs(i, c) PROVE Goal
  <2>1. /\ brief' \in [Items -> Rows \cup {None}] /\ \A k \in Items : k # i => brief'[k] = brief[k]
        /\ UNCHANGED <<lock, job>>
    BY <1>5, RowTyped DEF DeviceBriefs
  <2>2. ASSUME "unlockedEdit" \notin Races, WritesAsked PROVE WritesAsked'
    <3>1. \A w \in Workers : job[w].phase = "writing" => job[w].item # i /\ job[w].item \in Items
      BY <1>5, <2>2 DEF DeviceBriefs, TypeOK, Jobs
    <3> QED BY <2>1, <2>2, <3>1 DEF WritesAsked
  <2> QED BY <2>1, <2>2 DEF TypeOK, LockInv, LocksHeld, AuthorsInsist
<1>6. ASSUME NEW i \in Items, Device(i) PROVE Goal
  BY <1>2, <1>5, <1>6 DEF Device, Edit
<1>7. CASE Restart
  <2>1. UNCHANGED brief /\ job' = [w \in Workers |-> NoJob]
    BY <1>7 DEF Restart, Failing, dbVars
  <2>2. job' \in [Workers -> Jobs] /\ \A w \in Workers : job'[w].phase = "idle" /\ job'[w].by = "cron"
    BY <2>1, NoJobTyped DEF NoJob
  <2> QED BY <2>1, <2>2 DEF TypeOK, LockInv, LocksHeld, Locked, AuthorsInsist, WritesAsked
<1> QED BY <1>3, <1>4, <1>6, <1>7 DEF Next

-----------------------------------------------------------------------------
(* Items and briefs, when at most a device's brief races *)

LEMMA PreparesStep ==
  ASSUME TypeOK, LockInv, Core, NEW w \in Workers, Prepares(w)
  PROVE  Core'
BY Quiet DEF Prepares, Alone, Insists

\* A write of the item marks it.
LEMMA EditStep ==
  ASSUME TypeOK, LockInv, Core, NEW i \in Items, NEW c \in Contents, NEW live \in BOOLEAN,
         Edit(i, c, live)
  PROVE  Core'
<1>1. UNCHANGED <<brief, lock, job>> /\ item' = [item EXCEPT ![i] =
         [content |-> c, live |-> live, stale |-> TRUE]]
  BY DEF Edit
<1>2. VerdictsStand' /\ NoOverlap' /\ RowStays'
  BY <1>1 DEF Core, VerdictsStand, NoOverlap, RowStays, Generates, IsBriefTarget
<1>3. \A k \in Items : item'[k] = item[k] \/ item'[k].stale
  BY <1>1 DEF TypeOK
<1>4. WritesCurrent'
  BY <1>1, <1>3 DEF Core, WritesCurrent, Generates, TypeOK, Jobs
<1>5. NotForgotten'
  BY <1>1, <1>3 DEF Core, NotForgotten, NeedsBrief
<1> QED BY <1>2, <1>4, <1>5 DEF Core

LEMMA JudgeStep ==
  ASSUME TypeOK, LockInv, Core, Serial, NEW w \in Workers, Judge(w)
  PROVE  Core'
<1>1. UNCHANGED <<item, brief, lock>> /\ job[w].phase = "read"
  BY DEF Judge, dbVars
<1>2. CASE Ends(w)
  BY <1>1, <1>2, Ending, Quiet DEF TypeOK, Harmless
<1>3. CASE Goes(w, "planned")
  <2>1. "planned" \in Phases /\ "planned" \in Harmless
    BY DEF Phases, Harmless
  <2>2. job' \in [Workers -> Jobs] /\ \A v \in Workers : v # w => job'[v] = job[v]
    BY <1>3, <2>1, Moved
  <2>3. job'[w].phase = "planned"
    BY <1>3, <2>1, Moved
  <2> QED BY <1>1, <2>1, <2>2, <2>3, Quiet
<1>4. CASE /\ Goes(w, "clearing") /\ Undisturbed(w, {"deciding", "writing"})
           /\ ~IsBriefTarget(job[w].source, job[w].live, brief[job[w].item])
  <2>1. "clearing" \in Phases
    BY DEF Phases
  <2>2. job' \in [Workers -> Jobs] /\ \A v \in Workers : v # w => job'[v] = job[v]
    BY <1>4, <2>1, Moved
  <2>3. /\ job'[w].phase = "clearing" /\ job'[w].by = job[w].by
        /\ job'[w].item = job[w].item /\ job'[w].source = job[w].source
        /\ job'[w].live = job[w].live /\ job'[w].origin = job[w].origin
        /\ job'[w].force = job[w].force
    BY <1>4, <2>1, Moved
  <2>4. \A v \in Workers : v # w /\ Generates(v) /\ job[v].item = job[w].item =>
          job[v].source = job[w].source
    BY <1>4 DEF Serial, Undisturbed, Others, Generates
  <2>5. WritesCurrent' /\ RowStays'
    BY <1>1, <2>2, <2>3 DEF Core, WritesCurrent, RowStays, Generates
  <2>6. VerdictsStand'
    BY <1>1, <1>4, <2>2, <2>3 DEF Core, VerdictsStand, IsBriefTarget
  <2>7. NoOverlap'
    BY <2>2, <2>3, <2>4 DEF Core, NoOverlap, Generates
  <2>8. NotForgotten'
    BY <1>1, <2>2 DEF Core, NotForgotten, NeedsBrief, IsBriefTarget
  <2> QED BY <2>2, <2>5, <2>6, <2>7, <2>8 DEF Core
<1> QED BY <1>2, <1>3, <1>4 DEF Judge

\* A marker goes only from an item that needs nothing.
LEMMA Unmarking ==
  ASSUME TypeOK, LockInv, Core, NEW w \in Workers, job[w].phase \in {"settling", "clearing"},
         Unmark(job[w]), Ends(w), brief' = brief,
         \A i \in Items : lock'[i] = lock[i] \/ lock[i] = w
  PROVE  Core'
<1> DEFINE k == job[w].item
<1>1. k \in Items
  BY DEF TypeOK, Jobs
<1>2. /\ job' \in [Workers -> Jobs] /\ \A v \in Workers : v # w => job'[v] = job[v]
      /\ job'[w].phase = "idle" /\ job'[w].by = "cron"
  BY Ending DEF TypeOK
<1>3. /\ \A i \in Items : item'[i].content = item[i].content /\ item'[i].live = item[i].live
      /\ \A i \in Items : i # k => item'[i] = item[i]
      /\ item[k].stale /\ ~item'[k].stale =>
           item[k].content = job[w].source /\ item[k].live = job[w].live
  BY <1>1 DEF Unmark, TypeOK
<1>4. NoOverlap' /\ RowStays'
  BY <1>2 DEF Core, NoOverlap, RowStays, Generates
<1>5. VerdictsStand'
  BY <1>2 DEF Core, VerdictsStand, IsBriefTarget
<1>6. WritesCurrent'
  <2> SUFFICES ASSUME NEW v \in Workers, Generates(v)'
               PROVE  item'[job'[v].item].content = job'[v].source \/ item'[job'[v].item].stale
    BY DEF WritesCurrent
  <2>1. v # w /\ job'[v] = job[v] /\ Generates(v)
    BY <1>2 DEF Generates
  <2>2. job[v].item \in Items
    BY DEF TypeOK, Jobs
  <2>3. item[job[v].item].content = job[v].source \/ item[job[v].item].stale
    BY <2>1 DEF Core, WritesCurrent
  <2>4. CASE job[v].item # k
    BY <1>3, <2>1, <2>2, <2>3, <2>4
  <2>5. CASE job[v].item = k /\ job[w].phase = "clearing"
    <3>1. job[v].source = job[w].source
      BY <2>1, <2>5 DEF Core, NoOverlap
    <3> QED BY <1>3, <2>1, <2>2, <2>3, <2>5, <3>1 DEF TypeOK
  <2>6. CASE job[v].item = k /\ job[w].phase = "settling"
    <3>1. lock[k] = w /\ lock[k] = v
      BY <2>1, <2>6 DEF LockInv, LocksHeld, Locked, Generates
    <3> QED BY <2>1, <3>1
  <2> QED BY <2>4, <2>5, <2>6
<1>7. NotForgotten'
  <2> SUFFICES ASSUME NEW i \in Items, NeedsBrief(i)'
               PROVE  item'[i].stale \/ \E v \in Workers : job'[v].item = i
                                                         /\ job'[v].phase = "remarking"
    BY DEF NotForgotten
  <2>1. NeedsBrief(i)
    BY <1>3 DEF NeedsBrief, IsBriefTarget
  <2>2. CASE \E v \in Workers : job[v].item = i /\ job[v].phase = "remarking"
    BY <1>2, <2>2
  <2>3. CASE item[i].stale
    <3>1. CASE i # k
      BY <1>3, <2>3, <3>1
    <3>2. CASE i = k
      <4>1. ~IsBriefTarget(job[w].source, job[w].live, brief[k])
        BY DEF Core, VerdictsStand
      <4> QED BY <1>3, <2>1, <2>3, <3>2, <4>1 DEF NeedsBrief
    <3> QED BY <3>1, <3>2
  <2> QED BY <2>1, <2>2, <2>3 DEF Core, NotForgotten
<1> QED BY <1>4, <1>5, <1>6, <1>7 DEF Core

LEMMA UnmarkingSteps ==
  ASSUME TypeOK, LockInv, Core, NEW w \in Workers, ClearBatch(w) \/ Settle(w)
  PROVE  Core'
<1>1. CASE ClearBatch(w)
  BY <1>1, Unmarking DEF ClearBatch
<1>2. CASE Settle(w)
  BY <1>2, Unmarking, Releasing DEF Settle, TypeOK
<1> QED BY <1>1, <1>2

-----------------------------------------------------------------------------
(* Writers *)

LEMMA AcquireStep ==
  ASSUME TypeOK, LockInv, Core, Serial, NEW w \in Workers, Acquire(w)
  PROVE  Core'
<1> DEFINE k == job[w].item
<1>1. /\ UNCHANGED <<item, brief>> /\ job[w].phase = "planned" /\ lock[k] = Nobody
      /\ job[w].by # "author" /\ Undisturbed(w, {"clearing"}) /\ k \in Items
  BY DEF Acquire, dbVars, TypeOK, Jobs
<1>2. CASE item[k].content # job[w].source
  <2>1. lock' = lock /\ Ends(w)
    BY <1>2 DEF Acquire
  <2> QED BY <1>1, <2>1, Ending, Quiet DEF TypeOK, Harmless
<1>3. CASE item[k].content = job[w].source
  <2> DEFINE new == [job[w] EXCEPT !.phase = "deciding", !.live = item[k].live]
  <2>1. job' = [job EXCEPT ![w] = new]
    BY <1>3 DEF Acquire, TypeOK, Jobs
  <2>2. /\ new \in Jobs /\ new.phase = "deciding" /\ new.item = k
        /\ new.source = job[w].source /\ new.by = job[w].by
        /\ new.force = job[w].force /\ new.origin = job[w].origin
    BY ZenonT(30), <1>1 DEF TypeOK, Jobs, Phases
  <2> HIDE DEF new
  <2>3. /\ job' \in [Workers -> Jobs] /\ job'[w] = new
        /\ \A v \in Workers : v # w => job'[v] = job[v]
    BY <2>1, <2>2 DEF TypeOK
  <2>4. \A v \in Workers : job[v].phase = "clearing" /\ job[v].item = k =>
          job[v].source = job[w].source
    BY <1>1 DEF Serial, Undisturbed, Others
  <2>5. VerdictsStand' /\ RowStays'
    BY <1>1, <2>2, <2>3 DEF Core, VerdictsStand, RowStays, IsBriefTarget
  <2>6. WritesCurrent'
    BY <1>1, <1>3, <2>2, <2>3 DEF Core, WritesCurrent, Generates
  <2>7. NoOverlap'
    BY <2>2, <2>3, <2>4 DEF Core, NoOverlap, Generates
  <2>8. NotForgotten'
    BY <1>1, <2>2, <2>3 DEF Core, NotForgotten, NeedsBrief, IsBriefTarget
  <2> QED BY <2>5, <2>6, <2>7, <2>8 DEF Core
<1> QED BY <1>2, <1>3

\* A worker that starts to write, its lock held, knows the row.
LEMMA Writing ==
  ASSUME TypeOK, LockInv, Core, NEW w \in Workers, UNCHANGED <<item, brief>>,
         job[w].phase \in {"planned", "deciding"},
         job[w].phase = "deciding" \/ job[w].by = "author",
         job' = [job EXCEPT ![w].phase = "writing", ![w].seen = brief[job[w].item] # None]
  PROVE  Core'
<1> DEFINE k == job[w].item
           new == [job[w] EXCEPT !.phase = "writing", !.seen = brief[k] # None]
<1>1. job' = [job EXCEPT ![w] = new]
  BY DEF TypeOK, Jobs
<1>a. /\ job[w] \in Jobs /\ "writing" \in Phases
      /\ (brief[k] # None) \in BOOLEAN
  BY DEF TypeOK, Phases
<1>2. /\ new \in Jobs /\ new.phase = "writing" /\ new.item = k
      /\ new.source = job[w].source /\ new.by = job[w].by
      /\ new.force = job[w].force /\ new.origin = job[w].origin
      /\ new.seen = (brief[k] # None)
  BY <1>a DEF Jobs
<1> HIDE DEF new
<1>3. /\ job' \in [Workers -> Jobs] /\ job'[w] = new
      /\ \A v \in Workers : v # w => job'[v] = job[v]
  BY ZenonT(30), <1>1, <1>2 DEF TypeOK
<1>4. Generates(w)' => Generates(w)
  BY <1>2, <1>3 DEF LockInv, AuthorsInsist, Generates
<1>5. VerdictsStand'
  BY <1>2, <1>3 DEF Core, VerdictsStand, IsBriefTarget
<1>6. WritesCurrent'
  BY <1>2, <1>3, <1>4 DEF Core, WritesCurrent, Generates
<1>7. NoOverlap'
  BY <1>2, <1>3, <1>4 DEF Core, NoOverlap, Generates
<1>8. RowStays'
  BY <1>2, <1>3 DEF Core, RowStays
<1>9. NotForgotten'
  BY <1>2, <1>3 DEF Core, NotForgotten, NeedsBrief, IsBriefTarget
<1> QED BY <1>5, <1>6, <1>7, <1>8, <1>9 DEF Core

LEMMA ReadRowStep ==
  ASSUME TypeOK, LockInv, Core, NEW w \in Workers, ReadRow(w)
  PROVE  Core'
<1>1. UNCHANGED <<item, brief>> /\ job[w].phase = "deciding" /\ job[w].item \in Items
  BY DEF ReadRow, dbVars, TypeOK, Jobs
<1>2. CASE Ends(w) /\ Releases(w)
  BY <1>1, <1>2, Ending, Releasing, Quiet DEF TypeOK, Harmless
<1>3. CASE job' = [job EXCEPT ![w].phase = "writing", ![w].seen = brief[job[w].item] # None]
  BY <1>1, <1>3, Writing
<1> QED BY <1>2, <1>3 DEF ReadRow

LEMMA AuthorLockStep ==
  ASSUME TypeOK, LockInv, Core, NEW w \in Workers, AuthorLock(w)
  PROVE  Core'
<1>1. /\ UNCHANGED <<item, brief>> /\ job[w].phase = "planned" /\ job[w].by = "author"
      /\ job' = [job EXCEPT ![w].phase = "writing", ![w].seen = brief[job[w].item] # None]
  BY DEF AuthorLock, dbVars
<1> QED BY <1>1, Writing

LEMMA UpsertStep ==
  ASSUME TypeOK, LockInv, Core, NEW w \in Workers, Upsert(w)
  PROVE  Core'
<1> DEFINE k == job[w].item
           row == [source |-> job[w].source, origin |-> job[w].origin]
           next == IF job[w].origin = "authored" THEN "marking" ELSE "settling"
<1>1. /\ job[w].phase = "writing" /\ UNCHANGED <<item, lock>> /\ k \in Items
      /\ Goes(w, next) /\ next \in Phases
  BY DEF Upsert, TypeOK, Jobs, Phases
<1>2. brief' = [brief EXCEPT ![k] = row]
  BY <1>1 DEF Upsert, Core, RowStays
<1>3. row \in Rows /\ row # None /\ row.source = job[w].source /\ row.origin = job[w].origin
  BY NoneAssumption DEF TypeOK, Jobs, Rows
<1> HIDE DEF row
<1>4. /\ job' \in [Workers -> Jobs] /\ \A v \in Workers : v # w => job'[v] = job[v]
      /\ job'[w].phase = next /\ job'[w].by = job[w].by /\ job'[w].item = k
      /\ job'[w].source = job[w].source /\ job'[w].live = job[w].live
      /\ job'[w].origin = job[w].origin /\ job'[w].force = job[w].force
  <2> HIDE DEF next
  <2>1. Goes(w, next) /\ next \in Phases
    BY <1>1
  <2> QED BY <2>1, Moved
<1>5. brief' \in [Items -> Rows \cup {None}] /\ brief'[k] = row
      /\ \A i \in Items : i # k => brief'[i] = brief[i]
  BY <1>1, <1>2, <1>3 DEF TypeOK
<1>6. \A v \in Workers : v # w /\ job[v].phase \in Locked => job[v].item # k
  BY <1>1 DEF LockInv, LocksHeld, Locked
<1>7. \A v \in Workers : job[v].item \in Items
  BY DEF TypeOK, Jobs
<1>8. WritesCurrent' /\ NoOverlap'
  BY <1>1, <1>4 DEF Core, WritesCurrent, NoOverlap, Generates
<1>9. RowStays'
  BY <1>4, <1>5, <1>6, <1>7 DEF Core, RowStays, Locked
<1>10. VerdictsStand'
  <2> SUFFICES ASSUME NEW v \in Workers, job'[v].phase \in {"settling", "clearing"}
               PROVE  ~IsBriefTarget(job'[v].source, job'[v].live, brief'[job'[v].item])
    BY DEF VerdictsStand
  <2>1. CASE v = w
    BY <1>3, <1>4, <1>5, <2>1 DEF IsBriefTarget
  <2>2. CASE v # w /\ job[v].item # k
    BY <1>4, <1>5, <1>7, <2>2 DEF Core, VerdictsStand, IsBriefTarget
  <2>3. CASE v # w /\ job[v].item = k
    <3>1. job'[v] = job[v] /\ job[v].phase = "clearing"
      BY <1>4, <1>6, <2>3 DEF Locked
    <3>2. job[w].origin = "authored" \/ job[v].source = job[w].source
      BY <1>1, <2>3, <3>1 DEF Core, NoOverlap, Generates
    <3> QED BY <1>3, <1>5, <2>3, <3>1, <3>2 DEF IsBriefTarget
  <2> QED BY <2>1, <2>2, <2>3
<1>11. NotForgotten'
  <2> SUFFICES ASSUME NEW i \in Items, NeedsBrief(i)'
               PROVE  item'[i].stale \/ \E v \in Workers : job'[v].item = i
                                                         /\ job'[v].phase = "remarking"
    BY DEF NotForgotten
  <2>1. CASE i # k
    <3>1. NeedsBrief(i)
      BY <1>1, <1>5, <2>1 DEF NeedsBrief, IsBriefTarget
    <3> QED BY <1>1, <1>4, <3>1 DEF Core, NotForgotten
  <2>2. CASE i = k
    <3>1. job[w].origin # "authored" /\ item[k].content # job[w].source
      BY <1>1, <1>3, <1>5, <2>2 DEF NeedsBrief, IsBriefTarget
    <3> QED BY <1>1, <2>2, <3>1 DEF Core, WritesCurrent, Generates
  <2> QED BY <2>1, <2>2
<1> QED BY <1>8, <1>9, <1>10, <1>11 DEF Core

LEMMA MarkStep ==
  ASSUME TypeOK, LockInv, Core, NEW w \in Workers, Mark(w)
  PROVE  Core'
<1> DEFINE k == job[w].item
<1>1. /\ brief' = brief /\ job[w].phase \in {"marking", "remarking"} /\ k \in Items
      /\ item' = [item EXCEPT ![k].stale = TRUE] /\ Ends(w) /\ Releases(w)
  BY DEF Mark, TypeOK, Jobs
<1>2. /\ job' \in [Workers -> Jobs] /\ \A v \in Workers : v # w => job'[v] = job[v]
      /\ job'[w].phase = "idle" /\ job'[w].by = "cron"
  BY <1>1, Ending DEF TypeOK
<1>3. /\ \A i \in Items : /\ item'[i].content = item[i].content
                          /\ item'[i].live = item[i].live
                          /\ item[i].stale => item'[i].stale
      /\ item'[k].stale
  BY <1>1 DEF TypeOK
<1>4. VerdictsStand' /\ NoOverlap' /\ RowStays'
  BY <1>1, <1>2 DEF Core, VerdictsStand, NoOverlap, RowStays, Generates, IsBriefTarget
<1>5. WritesCurrent'
  <2>1. \A v \in Workers : Generates(v)' => v # w /\ Generates(v) /\ job'[v] = job[v]
    BY <1>2 DEF Generates
  <2>2. \A v \in Workers : job[v].item \in Items
    BY DEF TypeOK, Jobs
  <2> QED BY <1>3, <2>1, <2>2 DEF Core, WritesCurrent
<1>6. NotForgotten'
  BY <1>1, <1>2, <1>3 DEF Core, NotForgotten, NeedsBrief, IsBriefTarget
<1> QED BY <1>4, <1>5, <1>6 DEF Core

LEMMA RemoveStep ==
  ASSUME TypeOK, LockInv, Core, Serial, NEW w \in Workers, Remove(w)
  PROVE  Core'
<1> DEFINE k == job[w].item
<1>1. /\ job[w].phase = "deleting" /\ UNCHANGED <<item, lock>> /\ k \in Items
      /\ Others(w, k, Locked \cup {"clearing"}) = {}
      /\ brief' = [brief EXCEPT ![k] = None]
      /\ Goes(w, "remarking") /\ "remarking" \in Phases
  BY DEF Serial, Remove, TypeOK, Jobs, Phases
<1>2. /\ job' \in [Workers -> Jobs] /\ \A v \in Workers : v # w => job'[v] = job[v]
      /\ job'[w].phase = "remarking" /\ job'[w].by = job[w].by /\ job'[w].item = k
      /\ job'[w].origin = job[w].origin /\ job'[w].force = job[w].force
  <2>1. Goes(w, "remarking") /\ "remarking" \in Phases
    BY <1>1
  <2> QED BY <2>1, Moved
<1>3. \A v \in Workers : v # w /\ job[v].phase \in Locked \cup {"clearing"} => job[v].item # k
  BY <1>1 DEF Others
<1>4. \A v \in Workers : job[v].item \in Items
  BY DEF TypeOK, Jobs
<1>5. brief' \in [Items -> Rows \cup {None}] /\ \A i \in Items : i # k => brief'[i] = brief[i]
  BY <1>1 DEF TypeOK
<1>6. WritesCurrent' /\ NoOverlap'
  BY <1>1, <1>2 DEF Core, WritesCurrent, NoOverlap, Generates
<1>7. VerdictsStand' /\ RowStays'
  BY <1>2, <1>3, <1>4, <1>5 DEF Core, VerdictsStand, RowStays, Locked, IsBriefTarget
<1>8. NotForgotten'
  BY <1>1, <1>2, <1>5 DEF Core, NotForgotten, NeedsBrief, IsBriefTarget
<1> QED BY <1>6, <1>7, <1>8 DEF Core

LEMMA DeviceStep ==
  ASSUME TypeOK, LockInv, Core, Serial, NEW i \in Items, NEW c \in Contents, DeviceBriefs(i, c)
  PROVE  Core'
<1> DEFINE row == [source |-> c, origin |-> "authored"]
<1>1. UNCHANGED <<item, lock, job>> /\ brief' = [brief EXCEPT ![i] = row]
  BY DEF Serial, DeviceBriefs
<1>2. row \in Rows /\ row # None /\ row.origin = "authored"
  BY NoneAssumption DEF Rows, Origins
<1> HIDE DEF row
<1>3. brief' \in [Items -> Rows \cup {None}] /\ brief'[i] = row
      /\ \A k \in Items : k # i => brief'[k] = brief[k]
  BY <1>1, <1>2 DEF TypeOK
<1>4. WritesCurrent' /\ NoOverlap'
  BY <1>1 DEF Core, WritesCurrent, NoOverlap, Generates
<1>5. VerdictsStand'
  BY <1>1, <1>2, <1>3 DEF Core, VerdictsStand, IsBriefTarget, TypeOK, Jobs
<1>6. RowStays'
  BY <1>1, <1>2, <1>3 DEF Core, RowStays, TypeOK, Jobs
<1>7. NotForgotten'
  BY <1>1, <1>2, <1>3 DEF Core, NotForgotten, NeedsBrief, IsBriefTarget
<1> QED BY <1>4, <1>5, <1>6, <1>7 DEF Core

-----------------------------------------------------------------------------
(* The sweep's own steps, and failures *)

LEMMA CronSteps ==
  ASSUME TypeOK, LockInv, Core, Harvest \/ Submit \/ SweepFails
  PROVE  Core'
<1>1. CASE UNCHANGED <<item, brief, lock, job>>
  BY <1>1 DEF Core, VerdictsStand, WritesCurrent, NoOverlap, RowStays, NotForgotten, NeedsBrief,
              Generates
<1>2. CASE Prepares(Scheduler)
  BY <1>2, PreparesStep, NobodyAssumption
<1> QED BY <1>1, <1>2, CronMoves

LEMMA FailStep ==
  ASSUME TypeOK, LockInv, Core, Serial, NEW w \in Workers, Fail(w)
  PROVE  Core'
<1>1. Ends(w) /\ UNCHANGED <<item, brief>> /\ job[w].phase # "remarking"
  BY DEF Serial, Fail, Failing, Mortal, dbVars
<1> QED BY <1>1, Ending, Quiet DEF TypeOK, Harmless

LEMMA RestartStep ==
  ASSUME TypeOK, LockInv, Core, Serial, Restart
  PROVE  Core'
<1>1. /\ UNCHANGED <<item, brief>> /\ job' = [w \in Workers |-> NoJob]
      /\ \A w \in Workers : job[w].phase # "remarking"
  BY DEF Serial, Restart, Failing, Mortal, dbVars
<1>2. NoJob.phase = "idle" /\ NoJob.by = "cron"
  BY DEF NoJob
<1>3. \A w \in Workers : job'[w] = NoJob
  BY <1>1
<1>4. VerdictsStand' /\ WritesCurrent' /\ NoOverlap' /\ RowStays'
  BY <1>2, <1>3 DEF VerdictsStand, WritesCurrent, NoOverlap, RowStays, Generates
<1>5. NotForgotten'
  BY <1>1 DEF Core, NotForgotten, NeedsBrief, IsBriefTarget
<1> QED BY <1>4, <1>5 DEF Core

-----------------------------------------------------------------------------
(* Every step *)

LEMMA CoreNext ==
  ASSUME TypeOK, LockInv, Core, Serial, Next
  PROVE  Core'
<1>1. ASSUME NEW w \in Workers, NEW i \in Items, NEW by \in Kinds, NEW force \in BOOLEAN,
             \/ ReadMine(w, i) \/ ReadTarget(w, i, by, force)
             \/ AuthorBegin(w, i) \/ RemoveBegin(w, i)
      PROVE  Core'
  <2>1. Prepares(w)
    BY ZenonT(30), <1>1, Beginning
  <2> QED BY <2>1, PreparesStep
<1>2. ASSUME NEW w \in Workers, Select(w) \/ Write(w) \/ ByHand(w) \/ Fail(w)
      PROVE  Core'
  <2>1. CASE Judge(w)
    BY <2>1, JudgeStep
  <2>2. CASE ClearBatch(w) \/ Settle(w)
    BY <2>2, UnmarkingSteps
  <2>3. CASE Acquire(w)
    BY <2>3, AcquireStep
  <2>4. CASE ReadRow(w)
    BY <2>4, ReadRowStep
  <2>5. CASE Upsert(w)
    BY <2>5, UpsertStep
  <2>6. CASE AuthorLock(w)
    BY <2>6, AuthorLockStep
  <2>7. CASE Remove(w)
    BY <2>7, RemoveStep
  <2>8. CASE Mark(w)
    BY <2>8, MarkStep
  <2>9. CASE Fail(w)
    BY <2>9, FailStep
  <2>10. "cron" \in Kinds /\ TRUE \in BOOLEAN
    BY DEF Kinds
  <2> QED BY <1>1, <1>2, <2>1, <2>2, <2>3, <2>4, <2>5, <2>6, <2>7, <2>8, <2>9, <2>10
          DEF Select, Write, ByHand
<1>3. ASSUME NEW i \in Items, Device(i) PROVE Core'
  BY <1>3, DeviceStep, EditStep DEF Device
<1>4. CASE Harvest \/ Submit \/ SweepFails
  BY <1>4, CronSteps
<1>5. CASE Restart
  BY <1>5, RestartStep
<1> QED BY <1>2, <1>3, <1>4, <1>5 DEF Next

\* What the other variables may hold.
OtherTypes ==
  /\ item \in [Items -> [content : Contents, live : BOOLEAN, stale : BOOLEAN]]
  /\ lock \in [Items -> Workers \cup {Nobody}]
  /\ cron \in [phase : CronPhases, walk : SUBSET Items, picked : SUBSET Requests]
  /\ batch \in BOOLEAN
  /\ requests \subseteq Requests
  /\ gestures \in Nat /\ faults \in Nat

LEMMA MarkerTyped ==
  ASSUME TypeOK, NEW k \in Items, NEW b \in BOOLEAN
  PROVE  [item EXCEPT ![k].stale = b]
           \in [Items -> [content : Contents, live : BOOLEAN, stale : BOOLEAN]]
BY DEF TypeOK

LEMMA UnmarkTyped ==
  ASSUME TypeOK, NEW w \in Workers, Unmark(job[w])
  PROVE  item' \in [Items -> [content : Contents, live : BOOLEAN, stale : BOOLEAN]]
<1>1. job[w].item \in Items
  BY DEF TypeOK, Jobs
<1> QED BY <1>1, MarkerTyped DEF TypeOK, Unmark

LEMMA OthersNext ==
  ASSUME TypeOK, Next
  PROVE  OtherTypes'
<1> USE DEF TypeOK, OtherTypes, CronPhases
<1>1. ASSUME NEW w \in Workers, Select(w) PROVE OtherTypes'
  <2>1. CASE ClearBatch(w)
    BY <2>1, UnmarkTyped DEF ClearBatch, counts
  <2>2. CASE Judge(w)
    BY <2>2 DEF Judge, dbVars, counts
  <2>3. ASSUME NEW i \in Items, NEW by \in Kinds, NEW force \in BOOLEAN,
               ReadMine(w, i) \/ ReadTarget(w, i, by, force)
        PROVE  OtherTypes'
    BY <2>3 DEF ReadMine, ReadTarget, Starts, dbVars, counts
  <2>4. "review" \in Kinds
    BY DEF Kinds
  <2> QED BY <1>1, <2>1, <2>2, <2>3, <2>4 DEF Select
<1>2. ASSUME NEW w \in Workers, Write(w) PROVE OtherTypes'
  <2>1. CASE Acquire(w)
    BY <2>1 DEF Acquire, dbVars, counts, Jobs
  <2>2. CASE ReadRow(w)
    BY <2>2, Releasing DEF ReadRow, dbVars, counts
  <2>3. CASE Upsert(w)
    BY <2>3 DEF Upsert, counts
  <2>4. CASE Settle(w)
    BY <2>4, UnmarkTyped, Releasing DEF Settle, counts
  <2> QED BY <1>2, <2>1, <2>2, <2>3, <2>4 DEF Write
<1>3. ASSUME NEW w \in Workers, ByHand(w) PROVE OtherTypes'
  <2>1. ASSUME NEW i \in Items, AuthorBegin(w, i) \/ RemoveBegin(w, i)
        PROVE  OtherTypes'
    BY <2>1 DEF AuthorBegin, RemoveBegin, Starts, Gesture, dbVars
  <2>2. CASE AuthorLock(w)
    BY <2>2 DEF AuthorLock, dbVars, counts
  <2>3. CASE Remove(w)
    BY <2>3 DEF Remove, counts
  <2>4. CASE Mark(w)
    <3>1. job[w].item \in Items
      BY DEF Jobs
    <3> QED BY <2>4, <3>1, MarkerTyped, Releasing DEF Mark, counts
  <2> QED BY <1>3, <2>1, <2>2, <2>3, <2>4 DEF ByHand
<1>4. ASSUME NEW i \in Items, Device(i) PROVE OtherTypes'
  <2>1. ASSUME NEW c \in Contents, DeviceBriefs(i, c) PROVE OtherTypes'
    BY <2>1 DEF DeviceBriefs, Gesture
  <2>2. ASSUME NEW c \in Contents, NEW live \in BOOLEAN, Edit(i, c, live) PROVE OtherTypes'
    BY <2>2 DEF Edit, Gesture
  <2> QED BY <1>4, <2>1, <2>2 DEF Device
<1>5. CASE Harvest
  <2>1. CASE HarvestBegin
    BY <2>1 DEF HarvestBegin, CronGoes, dbVars, counts
  <2>2. CASE HarvestEnd \/ Expire
    <3>1. /\ batch' = FALSE /\ CronGoes("harvested", {})
          /\ UNCHANGED <<item, requests, lock, gestures, faults>>
      BY <2>2 DEF HarvestEnd, Expire, counts
    <3> QED BY <3>1 DEF CronGoes
  <2>3. CASE DropRequests
    BY <2>3 DEF DropRequests, CronGoes, dbVars, counts
  <2>4. ASSUME NEW r \in Requests, HarvestWrite(r) \/ HarvestError(r) PROVE OtherTypes'
    BY <2>4 DEF HarvestWrite, HarvestError, CronGoes, dbVars, counts
  <2> QED BY <1>5, <2>1, <2>2, <2>3, <2>4 DEF Harvest
<1>6. CASE Submit
  <2>1. CASE Enlist
    <3>1. <<job[Scheduler].item, job[Scheduler].source>> \in Requests
      BY NobodyAssumption DEF Jobs, Requests
    <3> QED BY <2>1, <3>1 DEF Enlist, dbVars, counts
  <2>2. CASE SubmitBegin \/ SubmitEnd \/ StoreRequests \/ StoreBatch
    <3>1. CASE SubmitBegin
      BY <2>2, <3>1 DEF SubmitBegin, dbVars, counts
    <3>2. CASE SubmitEnd
      BY <2>2, <3>2 DEF SubmitEnd, CronGoes, dbVars, counts
    <3>3. CASE StoreRequests
      BY <2>2, <3>3 DEF StoreRequests, CronGoes, dbVars, counts
    <3>4. CASE StoreBatch
      BY <2>2, <3>4 DEF StoreBatch, CronGoes, dbVars, counts
    <3> QED BY <2>2, <3>1, <3>2, <3>3, <3>4
  <2>3. ASSUME NEW i \in Items, ReadPage(i) PROVE OtherTypes'
    BY <2>3 DEF ReadPage, Starts, dbVars, counts
  <2> QED BY <1>6, <2>1, <2>2, <2>3 DEF Submit
<1>7. CASE SweepFails
  BY <1>7 DEF SweepFails, Failing, CronGoes, dbVars
<1>8. ASSUME NEW w \in Workers, Fail(w) PROVE OtherTypes'
  BY <1>8, Releasing DEF Fail, Failing, CronGoes, dbVars
<1>9. CASE Restart
  BY <1>9 DEF Restart, Failing, CronGoes, dbVars
<1> QED BY <1>1, <1>2, <1>3, <1>4, <1>5, <1>6, <1>7, <1>8, <1>9 DEF Next

\* A batch on record has its requests.
LEMMA BatchNext ==
  ASSUME TypeOK, BatchInOrder, BatchHasRequests, Next
  PROVE  BatchInOrder' /\ BatchHasRequests'
<1>1. CASE UNCHANGED <<cron, batch, requests>>
  BY <1>1 DEF BatchInOrder, BatchHasRequests
<1>2. CASE Harvest
  <2> USE DEF BatchInOrder, BatchHasRequests
  <2>1. CASE HarvestBegin
    BY <2>1 DEF HarvestBegin, CronGoes, dbVars
  <2>2. CASE HarvestEnd
    BY <2>2 DEF HarvestEnd, CronGoes, dbVars
  <2>3. CASE Expire
    BY <2>3 DEF Expire, CronGoes, dbVars
  <2>4. CASE DropRequests
    BY <2>4 DEF DropRequests, CronGoes, dbVars
  <2>5. ASSUME NEW r \in Requests, HarvestWrite(r) \/ HarvestError(r)
        PROVE  BatchInOrder' /\ BatchHasRequests'
    BY <2>5 DEF HarvestWrite, HarvestError, CronGoes, dbVars
  <2> QED BY <1>2, <2>1, <2>2, <2>3, <2>4, <2>5 DEF Harvest
<1>3. CASE Submit
  <2>1. CASE SubmitBegin \/ Enlist \/ SubmitEnd \/ StoreRequests \/ StoreBatch
    <3> USE DEF BatchInOrder, BatchHasRequests
    <3>1. CASE SubmitBegin
      BY <3>1 DEF SubmitBegin, dbVars
    <3>2. CASE Enlist
      BY <3>2 DEF Enlist, dbVars, TypeOK
    <3>3. CASE SubmitEnd
      BY <3>3 DEF SubmitEnd, CronGoes, dbVars
    <3>4. CASE StoreRequests
      BY <3>4 DEF StoreRequests, CronGoes, dbVars
    <3>5. CASE StoreBatch
      BY <3>5 DEF StoreBatch, CronGoes, dbVars
    <3> QED BY <2>1, <3>1, <3>2, <3>3, <3>4, <3>5
  <2>2. ASSUME NEW i \in Items, ReadPage(i) PROVE BatchInOrder' /\ BatchHasRequests'
    BY <2>2 DEF ReadPage, Starts, dbVars, BatchInOrder, BatchHasRequests, TypeOK
  <2> QED BY <1>3, <2>1, <2>2 DEF Submit
<1>4. CASE SweepFails \/ Restart \/ \E w \in Workers : Fail(w)
  BY <1>4 DEF SweepFails, Restart, Fail, Failing, CronGoes, dbVars, BatchInOrder,
              BatchHasRequests
<1>5. ASSUME NEW w \in Workers, Select(w) \/ Write(w) \/ ByHand(w)
      PROVE  UNCHANGED <<cron, batch, requests>>
  BY <1>5 DEF Select, ReadMine, ReadTarget, Judge, ClearBatch, Write, Acquire, ReadRow, Upsert,
              Settle, ByHand, AuthorBegin, RemoveBegin, AuthorLock, Remove, Mark, Starts, dbVars
<1>6. ASSUME NEW i \in Items, Device(i) PROVE UNCHANGED <<cron, batch, requests>>
  BY <1>6 DEF Device, DeviceBriefs, Edit
<1> QED BY <1>1, <1>2, <1>3, <1>4, <1>5, <1>6 DEF Next

-----------------------------------------------------------------------------

\* Types, locks and the rows of a batch, whatever races.
Always == TypeOK /\ LockInv /\ BatchInOrder /\ BatchHasRequests

\* Everything holds at first.
LEMMA InitInv == Init => IInv
<1> SUFFICES ASSUME Init PROVE IInv
  OBVIOUS
<1>1. NoJob.phase = "idle" /\ NoJob.by = "cron"
  BY DEF NoJob
<1>2. \A w \in Workers : job[w] = NoJob
  BY DEF Init
<1>3. TypeOK
  BY NoJobTyped, NobodyAssumption DEF Init, TypeOK, CronPhases, Requests
<1>4. /\ LocksHeld /\ VerdictsStand /\ WritesCurrent /\ NoOverlap /\ RowStays
      /\ WritesAsked /\ AuthorsInsist
  BY <1>1, <1>2 DEF LocksHeld, Locked, VerdictsStand, WritesCurrent, NoOverlap, RowStays,
                    WritesAsked, AuthorsInsist, Generates
<1>5. BatchInOrder /\ BatchHasRequests /\ NotForgotten
  BY DEF Init, BatchInOrder, BatchHasRequests, NotForgotten
<1> QED BY <1>3, <1>4, <1>5 DEF IInv

LEMMA NextAlways == Always /\ [Next]_vars => Always'
<1> SUFFICES ASSUME Always, [Next]_vars PROVE Always'
  OBVIOUS
<1>1. CASE Next
  <2>1. LockInv' /\ job' \in [Workers -> Jobs] /\ brief' \in [Items -> Rows \cup {None}]
    BY <1>1, LockNext DEF Always
  <2>2. OtherTypes'
    BY <1>1, OthersNext DEF Always
  <2>3. BatchInOrder' /\ BatchHasRequests'
    BY <1>1, BatchNext DEF Always
  <2> QED BY <2>1, <2>2, <2>3 DEF Always, TypeOK, OtherTypes
<1>2. CASE UNCHANGED vars
  BY <1>2 DEF vars, dbVars, counts, Always, LockInv, TypeOK, LocksHeld, AuthorsInsist,
              BatchInOrder, BatchHasRequests
<1> QED BY <1>1, <1>2

LEMMA NextCore == Serial /\ Always /\ Core /\ [Next]_vars => Core'
<1> SUFFICES ASSUME Serial, Always, Core, [Next]_vars PROVE Core'
  OBVIOUS
<1>1. CASE Next
  BY <1>1, CoreNext DEF Always
<1>2. CASE UNCHANGED vars
  BY <1>2 DEF vars, dbVars, Core, VerdictsStand, WritesCurrent, NoOverlap, RowStays,
              NotForgotten, NeedsBrief, Generates
<1> QED BY <1>1, <1>2

LEMMA NextAsked ==
  "unlockedEdit" \notin Races /\ Always /\ WritesAsked /\ [Next]_vars => WritesAsked'
<1> SUFFICES ASSUME "unlockedEdit" \notin Races, Always, WritesAsked, [Next]_vars
             PROVE  WritesAsked'
  OBVIOUS
<1>1. CASE Next
  BY <1>1, LockNext DEF Always
<1>2. CASE UNCHANGED vars
  BY <1>2 DEF vars, dbVars, WritesAsked
<1> QED BY <1>1, <1>2

LEMMA AlwaysHolds == Spec => []Always
<1>1. Init => Always
  BY InitInv DEF IInv, Always, LockInv
<1>2. Always /\ [Next]_vars => Always'
  BY NextAlways
<1> QED BY <1>1, <1>2, PTL DEF Spec

LEMMA CoreHolds == Serial => (Spec => []Core)
<1> SUFFICES ASSUME Serial PROVE Spec => []Core
  OBVIOUS
<1>1. Init => Core
  BY InitInv DEF IInv, Core
<1>2. Always /\ Core /\ [Next]_vars => Core'
  BY NextCore
<1> QED BY <1>1, <1>2, AlwaysHolds, PTL DEF Spec

LEMMA AskedHolds == "unlockedEdit" \notin Races => (Spec => []WritesAsked)
<1> SUFFICES ASSUME "unlockedEdit" \notin Races PROVE Spec => []WritesAsked
  OBVIOUS
<1>1. Init => WritesAsked
  BY InitInv DEF IInv
<1>2. Always /\ WritesAsked /\ [Next]_vars => WritesAsked'
  BY NextAsked
<1> QED BY <1>1, <1>2, AlwaysHolds, PTL DEF Spec

\* What each worker holds, saw and decided stays true under its feet: locks,
\* verdicts, reads under the lock and the order of a batch's rows
\* (briefWriter.ts, briefBatch.ts), however many items and workers there are.
THEOREM InvariantHolds == Races = {} => (Spec => []IInv)
<1> SUFFICES ASSUME Races = {} PROVE Spec => []IInv
  OBVIOUS
<1>1. Serial /\ "unlockedEdit" \notin Races
  BY DEF Serial
<1>2. Always /\ Core /\ WritesAsked => IInv
  BY DEF Always, LockInv, Core, IInv
<1> QED BY <1>1, <1>2, AlwaysHolds, CoreHolds, AskedHolds, PTL

\* Every variable keeps its type, whatever races (itemBriefs.ts, briefBatch.ts).
THEOREM TypeCorrect == Spec => []TypeOK
<1>1. Always => TypeOK
  BY DEF Always
<1> QED BY <1>1, AlwaysHolds, PTL

\* No batch row ever stands without its requests, so no sweep waits on a batch
\* that nothing can come back from (createBatch writes it last, harvest drops it
\* first), whichever write of the two fails, wherever the process dies, and
\* whatever races.
THEOREM BatchesAnswerable == Spec => []BatchHasRequests
<1>1. Always => BatchHasRequests
  BY DEF Always
<1> QED BY <1>1, AlwaysHolds, PTL

\* No item that needs a brief drops out of the sweep's sight, though a device
\* may write one without the lock (briefStaleMarker.ts, itemsDAO.ts: the marker
\* may only err towards TRUE).
THEOREM NothingForgotten == Races \subseteq {"unlockedEdit"} => (Spec => []NotForgotten)
<1> SUFFICES ASSUME Serial PROVE Spec => []NotForgotten
  BY DEF Serial
<1>1. Core => NotForgotten
  BY DEF Core
<1> QED BY <1>1, CoreHolds, PTL

\* No generated brief replaces an authored one unasked (decideBriefWrite).
LEMMA KeptByStep ==
  ASSUME TypeOK, WritesAsked, [Next]_vars, NEW i \in Items,
         brief[i] # None, brief[i].origin = "authored",
         brief'[i] # None, brief'[i].origin # "authored"
  PROVE  \E w \in Workers : job[w].item = i /\ job[w].phase = "writing" /\ job[w].force
<1>1. brief' # brief
  OBVIOUS
<1>2. Next
  BY <1>1 DEF vars, dbVars
<1>3. CASE \E w \in Workers : Upsert(w)
  <2>1. PICK w \in Workers : Upsert(w)
    BY <1>3
  <2>2. job[w].phase = "writing"
        /\ \A k \in Items : k # job[w].item => brief'[k] = brief[k]
    BY <2>1 DEF Upsert, TypeOK
  <2>3. job[w].item = i
    BY <2>2
  <2> QED BY <2>2, <2>3 DEF WritesAsked
<1>4. CASE \E w \in Workers : Remove(w)
  <2>1. PICK w \in Workers : Remove(w)
    BY <1>4
  <2>2. \A k \in Items : brief'[k] = brief[k] \/ brief'[k] = None
    BY <2>1 DEF Remove, TypeOK
  <2> QED BY <2>2
<1>5. CASE \E k \in Items, c \in Contents : DeviceBriefs(k, c)
  <2>1. PICK k \in Items, c \in Contents : DeviceBriefs(k, c)
    BY <1>5
  <2>2. \A n \in Items : \/ brief'[n] = brief[n] \/ brief'[n] = None
                         \/ brief'[n] = [source |-> c, origin |-> "authored"]
    BY <2>1 DEF DeviceBriefs, TypeOK
  <2> QED BY <2>2
<1>7. CASE Harvest \/ Submit \/ SweepFails \/ Restart \/ \E w \in Workers : Fail(w)
  BY <1>1, <1>7 DEF Harvest, HarvestBegin, HarvestEnd, HarvestWrite, HarvestError, Expire,
     DropRequests, Submit, SubmitBegin, Enlist, SubmitEnd, StoreRequests, StoreBatch, ReadPage,
     Starts, SweepFails, Restart, Fail, Failing, dbVars
<1>8. ASSUME NEW w \in Workers,
             \/ Select(w) \/ Acquire(w) \/ ReadRow(w) \/ Settle(w) \/ AuthorLock(w) \/ Mark(w)
             \/ \E k \in Items : AuthorBegin(w, k) \/ RemoveBegin(w, k)
      PROVE  FALSE
  BY <1>1, <1>8 DEF Select, ReadMine, ReadTarget, Judge, ClearBatch, Acquire, ReadRow, Settle,
     AuthorBegin, RemoveBegin, AuthorLock, Mark, Starts, dbVars
<1>9. ASSUME NEW k \in Items, NEW c \in Contents, NEW live \in BOOLEAN, Edit(k, c, live)
      PROVE  FALSE
  BY <1>1, <1>9 DEF Edit
<1> QED BY <1>2, <1>3, <1>4, <1>5, <1>7, <1>8, <1>9 DEF Next, Write, ByHand, Device

\* What somebody wrote is replaced only by what they asked for, unless a device
\* writes while a generated brief is on its way (briefWriter.ts,
\* decideBriefWrite, under the lock of itemBriefs.ts).
THEOREM AuthoredStays == "unlockedEdit" \notin Races => (Spec => AuthoredKept)
<1> SUFFICES ASSUME "unlockedEdit" \notin Races PROVE Spec => AuthoredKept
  OBVIOUS
<1>1. TypeOK /\ WritesAsked /\ [Next]_vars =>
        [\A i \in Items :
           brief[i] # None /\ brief[i].origin = "authored"
           /\ brief'[i] # None /\ brief'[i].origin # "authored" =>
             \E w \in Workers : job[w].item = i /\ job[w].phase = "writing" /\ job[w].force]_vars
  BY KeptByStep
<1> QED BY <1>1, TypeCorrect, AskedHolds, PTL DEF Spec, AuthoredKept
=============================================================================
