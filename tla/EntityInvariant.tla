--------------------------- MODULE EntityInvariant ---------------------------
(***************************************************************************)
(* Why the replicas of an entity converge: the inductive invariants of     *)
(* EntitySync.                                                             *)
(*                                                                         *)
(* WriteInv holds whatever races: an operation is known by its number, and *)
(* one that was answered is in the log.                                    *)
(*                                                                         *)
(* ReplicaInv holds when nothing races.  Until the first delete is logged  *)
(* (~Dead) the row is the winner of the operations the server has been     *)
(* through (ServerWinner), a device's row is not older than any it has     *)
(* been through (DeviceWinner), and it is a row the log has or will have   *)
(* yet (DeviceSource).  From then on the server has no row once it has     *)
(* applied the last delete, and a device none once it has replayed it      *)
(* (ServerDead, DeviceDead), because nothing the log has after it applies  *)
(* (NothingAfter).                                                         *)
(***************************************************************************)
EXTENDS EntitySync

Deletes(q) == \E o \in q : o.kind = "delete"
Sent(w) == ToSet(req[w].ops)
Applying(w) == req[w].stage = "applying"
IsDelete(k) == log[k].op.kind = "delete"
Dead == \E k \in DOMAIN log : IsDelete(k)
AfterDeletes(k) == \A j \in DOMAIN log : IsDelete(j) => j < k

-----------------------------------------------------------------------------
(* Whatever races *)

Old(o) == /\ o.n <= writes
          /\ IF o.kind = "delete" THEN o.val = None
             ELSE o.val \in Values /\ o.val.ts <= clock /\ o.val.id <= writes

\* What is queued, sent or logged was written before.
AllOld ==
  /\ \A k \in DOMAIN log : Old(log[k].op)
  /\ \A w \in Writers : \A o \in Sent(w) : Old(o)
  /\ \A d \in Devices : \A o \in queue[d] : Old(o)

\* A number names one operation of a device.
OneByNumber ==
  \A d \in Devices : \A o, p \in queue[d] \cup Sent(d) : o.n = p.n => o = p

AnsweredLogged ==
  \A d \in Devices : req[d].stage \in {"applying", "answered"} =>
    \A o \in Sent(d) : \E k \in DOMAIN log : log[k].op = o

WriteInv == TypeOK /\ AllOld /\ OneByNumber /\ AnsweredLogged

\* A deleted entity stays away because its echo is awaited.
GoneInv == TypeOK /\ \A d \in Devices :
  gone[d] => awaiting[d] /\ (removing[d] \/ local[d] = None) /\ writes > 0

-----------------------------------------------------------------------------
(* Nothing races: the writes on the server *)

Before == writes = 0 =>
  /\ log = <<>> /\ row = None
  /\ \A w \in Writers : req[w].stage = "idle"
  /\ \A d \in Devices : queue[d] = {} /\ local[d] = None /\ ~removing[d]

\* What is not being applied has nothing done.
NothingDone == \A w \in Writers : ~Applying(w) =>
  /\ req[w].done = {} /\ DOMAIN req[w].seen = {}
  /\ req[w].stage = "sent" => req[w].ops # <<>>

OneApplies == \A v, w \in Writers : Applying(v) /\ Applying(w) => v = w

\* A request works through its operations in order, on the row it last read.
InOrder == \A w \in Writers : Applying(w) =>
  /\ \A i \in req[w].done \cup DOMAIN req[w].seen : \A j \in 1..(i - 1) : j \in req[w].done
  /\ \A i \in DOMAIN req[w].seen \ req[w].done : req[w].seen[i] = row
  /\ \A i \in req[w].skipped : req[w].ops[i].kind = "update"
  /\ req[w].ops # <<>>
  /\ w \in Apis => Len(req[w].ops) = 1

\* The batch being applied is the end of the log.
AtTheEnd == \A d \in Devices : Applying(d) =>
  /\ req[d].at + Len(req[d].ops) = Len(log)
  /\ \A i \in DOMAIN req[d].ops : log[req[d].at + i] = [op |-> req[d].ops[i], applied |-> TRUE]

Landed(k) == \A d \in Devices : Applying(d) =>
  \A i \in DOMAIN req[d].ops \ req[d].done : k # req[d].at + i

DeletesApply == \A k \in DOMAIN log : IsDelete(k) => log[k].applied

NothingAfter == Dead => \A k \in DOMAIN log :
  AfterDeletes(k) /\ log[k].applied => log[k].op.kind = "update" /\ Unmarked(k)

ServerDead == Dead =>
  /\ row # None => \E k \in DOMAIN log : IsDelete(k) /\ ~Landed(k)
  /\ \A a \in Apis : ~Applying(a)
  /\ \A d \in Devices : Applying(d) => \A i \in req[d].done :
       AfterDeletes(req[d].at + i) /\ req[d].ops[i].kind = "update" => i \in req[d].skipped

\* r is what last-write-wins leaves of the operations at places S.
Winner(r, S) ==
  \/ r = None /\ S = {}
  \/ \E q \in S : /\ log[q].op.val = r
                  /\ \A i \in S : log[i].op.val.ts <= r.ts /\ (i > q => log[i].op.val.ts < r.ts)

AllLanded == {k \in DOMAIN log : Landed(k)}

ServerWinner == ~Dead =>
  /\ \A k \in DOMAIN log : log[k].applied
  /\ \A w \in Writers : Applying(w) => req[w].skipped = {}
  /\ log # <<>> => log[1].op.kind = "create"
  /\ (\A a \in Apis : Applying(a) => req[a].done = {}) => Winner(row, AllLanded)
  /\ \A a \in Apis : Applying(a) =>
       LET op == req[a].ops[1] IN
       /\ op.kind = "update" /\ req[a].done = {} => row # None
       /\ op.kind = "create" => log = <<>>
       /\ op.kind = "update" => log # <<>>
       /\ req[a].done # {} /\ op.kind = "delete" => row = None
       /\ req[a].done # {} /\ op.kind # "delete" =>
            \/ row = op.val /\ \A k \in DOMAIN log : log[k].op.val.ts <= op.val.ts
            \/ Winner(row, DOMAIN log) /\ row # None /\ op.val.ts < row.ts

-----------------------------------------------------------------------------
(* Nothing races: the queue of a device *)

\* No operation of the entity has left d.
Nothing(d) ==
  /\ log = <<>> /\ row = None
  /\ \A w \in Writers : req[w].stage = "idle"
  /\ \A e \in Devices \ {d} : queue[e] = {} /\ local[e] = None /\ ~removing[e]

Unsent == \A d \in Devices :
  /\ \A o \in queue[d] : o.kind = "create" /\ o.n \notin tried[d] =>
       Nothing(d) /\ queue[d] = {o} /\ ~removing[d]
  /\ ~Dead /\ removing[d] /\ ~Deletes(queue[d]) => Nothing(d) /\ queue[d] = {}

\* A delete is queued behind a create, and the row stays away until then.
QueueOrder == ~Dead => \A d \in Devices :
  /\ \A o, p \in queue[d] : o.kind = "create" =>
       /\ p.kind # "update"
       /\ p.kind = "delete" => o.n < p.n /\ awaiting[d] /\ (removing[d] \/ local[d] = None)
  /\ req[d].stage = "sent" => \A i, j \in DOMAIN req[d].ops :
       req[d].ops[i].kind = "create" /\ req[d].ops[j].kind = "delete" => i < j

\* Until a create is logged there is a create to come.
CreateFirst == ~Dead /\ log = <<>> => \A d \in Devices :
  /\ \A o \in queue[d] : o.kind # "update"
  /\ local[d] # None => removing[d] \/ PendingCreates(d) # {}
  /\ Deletes(queue[d]) => PendingCreates(d) # {}
  /\ req[d].stage = "sent" => \A o \in Sent(d) : o.kind # "update"

HeldForDelete == ~Dead => \A d \in Devices :
  awaiting[d] \/ (pull[d].stage = "applying" /\ pull[d].hold) => Deletes(queue[d])

-----------------------------------------------------------------------------
(* Nothing races: the replay on a device *)

\* The places of the log the device is through with.
Replayed(d) == IF pull[d].stage = "idle" THEN 1..cursor[d]
               ELSE (1..pull[d].upto) \ pull[d].todo

PullsAll == \A d \in Devices : pull[d].stage # "idle" =>
  /\ cursor[d] <= pull[d].upto
  /\ \A k \in pull[d].todo : cursor[d] < k /\ log[k].applied /\ ~Unmarked(k)
  /\ \A i \in pull[d].todo : \A k \in i..pull[d].upto : log[k].applied => k \in pull[d].todo

DeviceDead == Dead => \A d \in Devices :
  local[d] # None => \E k \in DOMAIN log : IsDelete(k) /\ k \notin Replayed(d)

DeviceWinner == ~Dead => \A d \in Devices : ~Deletes(queue[d]) =>
  \A k \in Replayed(d) : local[d] # None /\ log[k].op.val.ts <= local[d].ts

DeviceSource == ~Dead => \A d \in Devices :
  ~Deletes(queue[d]) /\ local[d] # None /\ ~removing[d] =>
    \/ \E o \in queue[d] : o.val = local[d] /\ \A k \in DOMAIN log : log[k].op.val # o.val
    \/ \E q \in DOMAIN log :
         /\ log[q].op.val = local[d]
         /\ q \in Replayed(d) =>
              \A k \in Replayed(d) : k > q => log[k].op.val.ts < local[d].ts

ServerInv == NothingDone /\ OneApplies /\ InOrder /\ AtTheEnd /\ DeletesApply /\ NothingAfter
             /\ ServerDead /\ ServerWinner
QueueInv == Before /\ Unsent /\ QueueOrder /\ CreateFirst /\ HeldForDelete
DeviceInv == PullsAll /\ DeviceDead /\ DeviceWinner /\ DeviceSource

ReplicaInv == WriteInv /\ ServerInv /\ QueueInv /\ DeviceInv
=============================================================================
