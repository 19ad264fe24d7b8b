-------------------------- MODULE EntitySyncProofs --------------------------
(***************************************************************************)
(* Theorems about EntitySync.                                              *)
(***************************************************************************)
EXTENDS EntityInvariant, TLAPS

-----------------------------------------------------------------------------
(* What the actions build *)

LEMMA Bounds ==
  /\ BatchMax \in Nat /\ BatchMax > 0 /\ Redelivery \in Nat
  /\ MaxWrites \in Nat /\ MaxLog \in Nat /\ MaxLosses \in Nat
BY BoundAssumption

LEMMA NoReqTyped ==
  /\ NoReq \in Requests
  /\ NoReq.stage = "idle" /\ NoReq.ops = <<>> /\ NoReq.done = {} /\ NoReq.skipped = {}
  /\ NoReq.at = 0 /\ NoReq.heard = TRUE /\ DOMAIN NoReq.seen = {}
<1> DEFINE none == [i \in {} |-> None]
<1>1. none \in [{} -> Values \cup {None}] /\ {} \in SUBSET Slots
  OBVIOUS
<1>2. none \in Sights
  BY <1>1 DEF Sights
<1>3. <<>> \in Seq(Ops) /\ 0 \in 0..MaxLog
  BY Bounds
<1> HIDE DEF none
<1>4. NoReq = [stage |-> "idle", ops |-> <<>>, seen |-> none, done |-> {},
               skipped |-> {}, at |-> 0, heard |-> TRUE]
  BY DEF NoReq, none
<1>5. DOMAIN none = {}
  BY DEF none
<1> QED BY <1>2, <1>3, <1>4, <1>5 DEF Requests

LEMMA NoPullTyped ==
  /\ NoPull \in Pulls
  /\ NoPull.stage = "idle" /\ NoPull.todo = {} /\ NoPull.upto = 0 /\ NoPull.hold = FALSE
BY Bounds DEF NoPull, Pulls

\* A write is stamped and numbered within the bounds.
LEMMA WritingTyped ==
  ASSUME TypeOK, NEW t \in Stamps \cup {0}, Writing(t)
  PROVE  /\ writes \in Nat /\ writes' = writes + 1 /\ writes' \in 0..MaxWrites
         /\ clock \in Nat /\ clock' \in 0..writes' /\ clock <= clock' /\ t <= clock'
         /\ losses' = losses
         /\ t # 0 => [ts |-> t, id |-> writes + 1] \in Values
<1>1. writes \in Nat /\ clock \in 0..writes /\ writes < MaxWrites /\ MaxWrites \in Nat
  BY Bounds DEF TypeOK, Writing
<1>2. t \in 0..(clock + 1)
  BY <1>1 DEF Stamps
<1>3. clock' = IF t > clock THEN t ELSE clock
  BY DEF Writing
<1>4. t # 0 => t \in 1..MaxWrites /\ writes + 1 \in 1..MaxWrites
  BY <1>1, <1>2
<1>5. t # 0 => [ts |-> t, id |-> writes + 1] \in Values
  BY <1>4 DEF Values
<1> QED BY <1>1, <1>2, <1>3, <1>5 DEF Writing

LEMMA OpTyped ==
  ASSUME TypeOK, writes < MaxWrites, NEW kind \in Kinds, NEW val \in Values \cup {None}
  PROVE  /\ Op(kind, val) \in Ops
         /\ Op(kind, val).kind = kind /\ Op(kind, val).val = val
         /\ Op(kind, val).n = writes + 1
<1>1. writes + 1 \in 1..MaxWrites
  BY Bounds DEF TypeOK
<1> QED BY <1>1 DEF Op, Ops

\* One request, or one pull, changes.
LEMMA ReqChange ==
  ASSUME TypeOK, NEW w \in Writers, NEW r \in Requests, req' = [req EXCEPT ![w] = r],
         Len(r.ops) <= BatchMax, r.done \cup DOMAIN r.seen \subseteq DOMAIN r.ops,
         r.skipped \subseteq r.done
  PROVE  /\ req' \in [Writers -> Requests] /\ req'[w] = r
         /\ \A v \in Writers \ {w} : req'[v] = req[v]
         /\ \A v \in Writers :
              /\ Len(req'[v].ops) <= BatchMax
              /\ req'[v].done \cup DOMAIN req'[v].seen \subseteq DOMAIN req'[v].ops
              /\ req'[v].skipped \subseteq req'[v].done
<1>1. /\ req' \in [Writers -> Requests] /\ req'[w] = r
      /\ \A v \in Writers \ {w} : req'[v] = req[v]
  BY DEF TypeOK
<1> QED BY <1>1 DEF TypeOK

LEMMA PullChange ==
  ASSUME TypeOK, NEW d \in Devices, NEW p \in Pulls, pull' = [pull EXCEPT ![d] = p]
  PROVE  /\ pull' \in [Devices -> Pulls] /\ pull'[d] = p
         /\ \A e \in Devices \ {d} : pull'[e] = pull[e]
BY DEF TypeOK

LEMMA InWriters == Devices \subseteq Writers /\ Apis \subseteq Writers
BY DEF Writers

-----------------------------------------------------------------------------
(* Type correctness *)

\* What does not depend on the requests.
ReqTypes ==
  /\ req \in [Writers -> Requests]
  /\ \A w \in Writers :
       /\ Len(req[w].ops) <= BatchMax
       /\ req[w].done \cup DOMAIN req[w].seen \subseteq DOMAIN req[w].ops
       /\ req[w].skipped \subseteq req[w].done

TallyTypes == writes \in 0..MaxWrites /\ clock \in 0..writes /\ losses \in 0..MaxLosses
LogTypes == row \in Values \cup {None} /\ log \in Seq(Entries) /\ Len(log) <= MaxLog

DeviceTypes ==
  /\ local \in [Devices -> Values \cup {None}]
  /\ queue \in [Devices -> SUBSET Ops]
  /\ tried \in [Devices -> SUBSET (1..MaxWrites)]
  /\ {awaiting, removing, gone} \subseteq [Devices -> BOOLEAN]

PullTypes ==
  /\ cursor \in [Devices -> 0..MaxLog]
  /\ pull \in [Devices -> Pulls]
  /\ \A d \in Devices : cursor[d] <= Len(log) /\ pull[d].upto <= Len(log)
       /\ pull[d].todo \subseteq 1..pull[d].upto

LEMMA TypeParts ==
  TypeOK <=> TallyTypes /\ LogTypes /\ ReqTypes /\ DeviceTypes /\ PullTypes
BY DEF TypeOK, TallyTypes, LogTypes, ReqTypes, DeviceTypes, PullTypes

LEMMA TypePartsNext ==
  TallyTypes' /\ LogTypes' /\ ReqTypes' /\ DeviceTypes' /\ PullTypes' => TypeOK'
BY DEF TypeOK, TallyTypes, LogTypes, ReqTypes, DeviceTypes, PullTypes

LEMMA TypeLocalWrite ==
  ASSUME TypeOK, NEW d \in Devices, LocalWrite(d)
  PROVE  TypeOK'
<1> USE DEF DeviceTypes
<1>0. TallyTypes /\ LogTypes /\ ReqTypes /\ DeviceTypes /\ PullTypes
  BY TypeParts
<1>1. ASSUME NEW t \in Stamps, Create(d, t) \/ Edit(d, t) PROVE TypeOK'
  <2> DEFINE v == [ts |-> t, id |-> writes + 1]
  <2>1. Writing(t) /\ UNCHANGED <<row, log, req, cursor, pull>> /\ t # 0
        /\ UNCHANGED <<awaiting, removing>>
    BY <1>1 DEF Create, Edit, serverVars, Stamps
  <2>2. v \in Values /\ writes' \in 0..MaxWrites /\ clock' \in 0..writes' /\ losses' = losses
        /\ writes \in Nat /\ writes' = writes + 1
    BY <2>1, WritingTyped
  <2> HIDE DEF v
  <2>3. Op("create", v) \in Ops /\ Op("update", v) \in Ops
    BY <2>1, <2>2, OpTyped DEF Writing, Kinds
  <2>4. local' = [local EXCEPT ![d] = v]
    BY <1>1 DEF Create, Edit, v
  <2>5. queue'[d] \subseteq queue[d] \cup {Op("create", v), Op("update", v)}
        /\ queue' = [queue EXCEPT ![d] = queue'[d]]
    <3>1. CASE Create(d, t)
      BY <1>0, <3>1 DEF Create, v
    <3>2. CASE Edit(d, t)
      BY <1>0, <3>2 DEF Edit, v
    <3> QED BY <1>1, <3>1, <3>2
  <2>6. tried' \in [Devices -> SUBSET (1..MaxWrites)]
    <3>1. CASE Create(d, t)
      BY <1>0, <3>1 DEF Create
    <3>2. CASE Edit(d, t)
      <4>1. writes + 1 \in 1..MaxWrites
        BY <2>2
      <4> DEFINE n == tried'[d]
      <4>2. /\ tried' = [tried EXCEPT ![d] = IF \E o \in PendingCreates(d) : o.n \in @
                THEN (@ \ {o.n : o \in PendingCreates(d)}) \cup {writes + 1} ELSE @]
        BY <3>2 DEF Edit
      <4>3. n \subseteq tried[d] \cup {writes + 1} /\ tried' = [tried EXCEPT ![d] = n]
        BY <1>0, <4>2
      <4> QED BY <1>0, <4>1, <4>3
    <3> QED BY <1>1, <3>1, <3>2
  <2>7. gone' \in [Devices -> BOOLEAN]
    BY <1>0, <1>1 DEF Create, Edit
  <2>8. DeviceTypes'
    BY ZenonT(30), <1>0, <2>1, <2>2, <2>3, <2>4, <2>5, <2>6, <2>7
  <2>9. TallyTypes' /\ LogTypes' /\ ReqTypes' /\ PullTypes'
    BY <1>0, <2>1, <2>2 DEF TallyTypes, LogTypes, ReqTypes, PullTypes
  <2> QED BY <2>8, <2>9, TypePartsNext
<1>2. CASE QueueDelete(d)
  <2>1. Writing(0) /\ UNCHANGED <<row, log, req, cursor, pull, local, tried>>
    BY <1>2 DEF QueueDelete, serverVars
  <2>2. writes' \in 0..MaxWrites /\ clock' \in 0..writes' /\ losses' = losses
    BY <2>1, WritingTyped
  <2>3. Op("delete", None) \in Ops
    BY <2>1, OpTyped DEF Writing, Kinds
  <2>4. queue'[d] \subseteq queue[d] \cup {Op("delete", None)}
        /\ queue' = [queue EXCEPT ![d] = queue'[d]]
    BY <1>0, <1>2 DEF QueueDelete
  <2>5. {awaiting', removing', gone'} \subseteq [Devices -> BOOLEAN]
    BY <1>0, <1>2 DEF QueueDelete
  <2>6. DeviceTypes'
    BY ZenonT(30), <1>0, <2>1, <2>3, <2>4, <2>5
  <2>7. TallyTypes' /\ LogTypes' /\ ReqTypes' /\ PullTypes'
    BY <1>0, <2>1, <2>2 DEF TallyTypes, LogTypes, ReqTypes, PullTypes
  <2> QED BY <2>6, <2>7, TypePartsNext
<1>3. CASE RemoveRow(d)
  <2>1. DeviceTypes'
    BY <1>0, <1>3 DEF RemoveRow
  <2>2. TallyTypes' /\ LogTypes' /\ ReqTypes' /\ PullTypes'
    BY <1>0, <1>3 DEF RemoveRow, tally, serverVars, TallyTypes, LogTypes, ReqTypes, PullTypes
  <2> QED BY <2>1, <2>2, TypePartsNext
<1> QED BY <1>1, <1>2, <1>3 DEF LocalWrite

LEMMA TypePush ==
  ASSUME TypeOK, NEW d \in Devices, Push(d)
  PROVE  TypeOK'
<1>0. TallyTypes /\ LogTypes /\ ReqTypes /\ DeviceTypes /\ PullTypes /\ d \in Writers
  BY TypeParts, InWriters
<1>r. req[d] \in Requests
  BY <1>0 DEF ReqTypes
<1>1. CASE Send(d)
  <2>a. PICK k \in Slots :
          \E b \in [1..k -> queue[d]] :
            /\ tried' = [tried EXCEPT ![d] = @ \cup {o.n : o \in ToSet(b)}]
            /\ req' = [req EXCEPT ![d] = [NoReq EXCEPT !.stage = "sent", !.ops = b]]
            /\ UNCHANGED <<clock, tally, row, log, local, queue, awaiting, removing,
                           cursor, pull, gone>>
    BY <1>1 DEF Send
  <2>1. PICK b \in [1..k -> queue[d]] :
          /\ tried' = [tried EXCEPT ![d] = @ \cup {o.n : o \in ToSet(b)}]
          /\ req' = [req EXCEPT ![d] = [NoReq EXCEPT !.stage = "sent", !.ops = b]]
          /\ UNCHANGED <<clock, tally, row, log, local, queue, awaiting, removing,
                         cursor, pull, gone>>
    BY <2>a
  <2>2. b \in Seq(Ops) /\ Len(b) = k /\ k <= BatchMax /\ DOMAIN b = 1..k
    BY <1>0, Bounds DEF DeviceTypes, Slots
  <2> DEFINE r == [NoReq EXCEPT !.stage = "sent", !.ops = b]
  <2>3. r \in Requests /\ r.ops = b /\ r.done = {} /\ r.skipped = {} /\ DOMAIN r.seen = {}
    BY NoReqTyped, <2>2 DEF Requests
  <2>4. ReqTypes'
    <3> HIDE DEF r
    <3>1. req' = [req EXCEPT ![d] = r]
      BY <2>1 DEF r
    <3> QED BY <1>0, <2>2, <2>3, <3>1, ReqChange DEF ReqTypes
  <2>5. \A o \in ToSet(b) : o.n \in 1..MaxWrites
    BY <1>0, <2>2 DEF DeviceTypes, ToSet, Ops
  <2>6. tried'[d] \subseteq 1..MaxWrites /\ tried' = [tried EXCEPT ![d] = tried'[d]]
    <3>1. {o.n : o \in ToSet(b)} \subseteq 1..MaxWrites
      BY <2>5
    <3> QED BY <1>0, <2>1, <3>1 DEF DeviceTypes
  <2>7. DeviceTypes'
    BY <1>0, <2>1, <2>6 DEF DeviceTypes
  <2>8. TallyTypes' /\ LogTypes' /\ PullTypes'
    BY <1>0, <2>1 DEF tally, TallyTypes, LogTypes, PullTypes
  <2> QED BY <2>4, <2>7, <2>8, TypePartsNext
<1>2. CASE Insert(d)
  <2> DEFINE new == [i \in DOMAIN req[d].ops |-> [op |-> req[d].ops[i], applied |-> TRUE]]
             r == [req[d] EXCEPT !.stage = "applying", !.at = Len(log)]
  <2>1. log' = log \o new /\ req' = [req EXCEPT ![d] = r]
        /\ Len(log) + Len(req[d].ops) <= MaxLog
        /\ UNCHANGED <<clock, tally, row, local, queueVars, cursor, pull, gone>>
    BY <1>2 DEF Insert
  <2>2. req[d].ops \in Seq(Ops)
    BY <1>r DEF Requests
  <2>3. new \in Seq(Entries) /\ Len(new) = Len(req[d].ops)
    <3>1. \A i \in DOMAIN req[d].ops : req[d].ops[i] \in Ops
      BY <2>2
    <3>2. \A i \in DOMAIN req[d].ops : [op |-> req[d].ops[i], applied |-> TRUE] \in Entries
      BY <3>1 DEF Entries
    <3>3. DOMAIN req[d].ops = 1..Len(req[d].ops) /\ Len(req[d].ops) \in Nat
      BY <2>2
    <3> QED BY <3>2, <3>3
  <2> HIDE DEF new
  <2>4. LogTypes' /\ Len(log') = Len(log) + Len(req[d].ops)
    <3>1. log \o new \in Seq(Entries) /\ Len(log \o new) = Len(log) + Len(new)
      BY <1>0, <2>3 DEF LogTypes
    <3> QED BY <1>0, <2>1, <2>3, <3>1 DEF LogTypes
  <2>5. r \in Requests /\ r.ops = req[d].ops /\ r.done = req[d].done
        /\ r.skipped = req[d].skipped /\ r.seen = req[d].seen
    <3>1. Len(log) \in 0..MaxLog
      BY <1>0, Bounds DEF LogTypes
    <3> QED BY <1>r, <3>1 DEF Requests
  <2> HIDE DEF r
  <2>6. ReqTypes'
    BY <1>0, <2>1, <2>5, ReqChange DEF ReqTypes
  <2>7. PullTypes'
    <3>1. Len(log) <= Len(log')
      BY <1>0, <2>2, <2>4 DEF LogTypes
    <3>2. \A e \in Devices : cursor[e] \in Nat /\ pull[e].upto \in Nat
      BY <1>0, Bounds DEF PullTypes, Pulls
    <3>3. UNCHANGED <<cursor, pull>> /\ Len(log) \in Nat /\ Len(log') \in Nat
      BY <1>0, <2>1, <2>4 DEF LogTypes
    <3> QED BY <1>0, <3>1, <3>2, <3>3 DEF PullTypes
  <2>8. TallyTypes' /\ DeviceTypes'
    BY <1>0, <2>1 DEF tally, queueVars, TallyTypes, DeviceTypes
  <2> QED BY <2>4, <2>6, <2>7, <2>8, TypePartsNext
<1>3. CASE Answer(d)
  <2> DEFINE r == IF req[d].heard THEN [NoReq EXCEPT !.stage = "answered", !.ops = req[d].ops]
                  ELSE NoReq
  <2>1. req' = [req EXCEPT ![d] = r] /\ DOMAIN log' = DOMAIN log
        /\ UNCHANGED <<clock, tally, row, local, queueVars, cursor, pull, gone>>
        /\ \A k \in DOMAIN log :
             log'[k] = IF \E i \in req[d].skipped : k = req[d].at + i
                       THEN [log[k] EXCEPT !.applied = FALSE] ELSE log[k]
    BY <1>3 DEF Answer
  <2>l. log' = [k \in DOMAIN log |-> log'[k]]
    BY <1>3 DEF Answer
  <2>2. \A k \in DOMAIN log : log'[k] \in Entries
    <3>1. \A k \in DOMAIN log : log[k] \in Entries
      BY <1>0 DEF LogTypes
    <3>2. \A e \in Entries : [e EXCEPT !.applied = FALSE] \in Entries
      BY DEF Entries
    <3>3. TAKE k \in DOMAIN log
    <3>4. log'[k] = log[k] \/ log'[k] = [log[k] EXCEPT !.applied = FALSE]
      BY <2>1
    <3> QED BY <3>1, <3>2, <3>4
  <2>3. log' \in Seq(Entries) /\ Len(log') = Len(log)
    <3>1. DOMAIN log = 1..Len(log) /\ Len(log) \in Nat
      BY <1>0 DEF LogTypes
    <3> QED BY <2>1, <2>2, <2>l, <3>1
  <2>4. r \in Requests /\ Len(r.ops) <= BatchMax /\ r.done = {} /\ r.skipped = {}
        /\ DOMAIN r.seen = {}
    <3>1. req[d].ops \in Seq(Ops) /\ Len(req[d].ops) <= BatchMax
      BY <1>0, <1>r DEF Requests, ReqTypes
    <3>2. CASE req[d].heard
      BY <3>1, <3>2, NoReqTyped DEF Requests
    <3>3. CASE ~req[d].heard
      BY <3>3, NoReqTyped, Bounds
    <3> QED BY <3>2, <3>3
  <2> HIDE DEF r
  <2>5. ReqTypes'
    BY <1>0, <2>1, <2>4, ReqChange DEF ReqTypes
  <2>6. LogTypes' /\ PullTypes'
    BY <1>0, <2>1, <2>3 DEF LogTypes, PullTypes
  <2>7. TallyTypes' /\ DeviceTypes'
    BY <1>0, <2>1 DEF tally, queueVars, TallyTypes, DeviceTypes
  <2> QED BY <2>5, <2>6, <2>7, TypePartsNext
<1>4. CASE Acknowledge(d) \/ LosePush(d)
  <2>1. req' = [req EXCEPT ![d] = NoReq]
        /\ UNCHANGED <<clock, writes, row, log, local, removing, cursor, pull, gone>>
    BY <1>4 DEF Acknowledge, LosePush, Losing, tally, queueVars
  <2>2. ReqTypes'
    BY <1>0, <2>1, NoReqTyped, ReqChange, Bounds DEF ReqTypes
  <2>3. LogTypes' /\ PullTypes'
    BY <1>0, <2>1 DEF LogTypes, PullTypes
  <2>4. TallyTypes'
    BY <1>0, <1>4, Bounds DEF Acknowledge, LosePush, Losing, tally, TallyTypes
  <2>5. CASE Acknowledge(d)
    <3>1. queue'[d] \subseteq queue[d] /\ queue' = [queue EXCEPT ![d] = queue'[d]]
          /\ tried'[d] \subseteq tried[d] /\ tried' = [tried EXCEPT ![d] = tried'[d]]
          /\ awaiting' \in [Devices -> BOOLEAN]
      BY <1>0, <2>5 DEF Acknowledge, DeviceTypes
    <3>2. DeviceTypes'
      BY <1>0, <2>1, <3>1 DEF DeviceTypes
    <3> QED BY <2>2, <2>3, <2>4, <3>2, TypePartsNext
  <2>6. CASE LosePush(d)
    <3>1. DeviceTypes'
      BY <1>0, <2>1, <2>6 DEF LosePush, queueVars, DeviceTypes
    <3> QED BY <2>2, <2>3, <2>4, <3>1, TypePartsNext
  <2> QED BY <1>4, <2>5, <2>6
<1> QED BY <1>1, <1>2, <1>3, <1>4 DEF Push

LEMMA TypeApply ==
  ASSUME TypeOK, NEW w \in Writers, Apply(w)
  PROVE  TypeOK'
<1>0. TallyTypes /\ LogTypes /\ ReqTypes /\ DeviceTypes /\ PullTypes
  BY TypeParts
<1>r. req[w] \in Requests /\ DOMAIN req[w].ops \subseteq Slots
  <2>1. req[w] \in Requests /\ Len(req[w].ops) <= BatchMax
    BY <1>0 DEF ReqTypes
  <2>2. DOMAIN req[w].ops = 1..Len(req[w].ops) /\ Len(req[w].ops) \in Nat
    BY <2>1 DEF Requests
  <2> QED BY <2>1, <2>2, Bounds DEF Slots
<1>1. ASSUME NEW i \in DOMAIN req[w].ops, ReadRow(w, i) PROVE TypeOK'
  <2> DEFINE I == DOMAIN req[w].seen \cup {i}
             s == Seeing(req[w].seen, i, row)
             r == [req[w] EXCEPT !.seen = s]
  <2>1. req' = [req EXCEPT ![w] = r]
        /\ UNCHANGED <<clock, tally, row, log, local, queueVars, cursor, pull, gone>>
    BY <1>1 DEF ReadRow
  <2>2. s \in [I -> Values \cup {None}] /\ DOMAIN s \subseteq DOMAIN req[w].ops
    <3>1. PICK J \in SUBSET Slots : req[w].seen \in [J -> Values \cup {None}]
      BY <1>r DEF Requests, Sights
    <3>2. \A j \in DOMAIN req[w].seen : req[w].seen[j] \in Values \cup {None}
      BY <3>1
    <3>3. row \in Values \cup {None} /\ DOMAIN req[w].seen \subseteq DOMAIN req[w].ops
      BY <1>0 DEF LogTypes, ReqTypes
    <3> QED BY <3>2, <3>3 DEF Seeing
  <2>3. s \in Sights
    BY <1>r, <2>2 DEF Sights
  <2> HIDE DEF s
  <2>4. r \in Requests /\ r.ops = req[w].ops /\ r.done = req[w].done
        /\ r.skipped = req[w].skipped /\ r.seen = s
    BY <1>r, <2>3 DEF Requests
  <2> HIDE DEF r
  <2>5. ReqTypes'
    BY <1>0, <2>1, <2>2, <2>4, ReqChange DEF ReqTypes
  <2>6. TallyTypes' /\ LogTypes' /\ DeviceTypes' /\ PullTypes'
    BY <1>0, <2>1 DEF tally, queueVars, TallyTypes, LogTypes, DeviceTypes, PullTypes
  <2> QED BY <2>5, <2>6, TypePartsNext
<1>2. ASSUME NEW i \in DOMAIN req[w].ops, WriteRow(w, i) PROVE TypeOK'
  <2> DEFINE sk == req'[w].skipped
             r == [req[w] EXCEPT !.done = @ \cup {i}, !.skipped = sk]
  <2>1. req' = [req EXCEPT ![w] = r] /\ req[w].skipped \subseteq sk
        /\ sk \subseteq req[w].skipped \cup {i}
        /\ UNCHANGED <<clock, tally, log, local, queueVars, cursor, pull, gone>>
    <3> DEFINE op == req[w].ops[i]
               missing == op.kind = "update" /\ req[w].seen[i] = None
               ns == IF op.kind # "delete" /\ missing THEN req[w].skipped \cup {i} ELSE req[w].skipped
               q == [req[w] EXCEPT !.done = @ \cup {i}, !.skipped = ns]
    <3>0. UNCHANGED <<clock, tally, log, local, queueVars, cursor, pull, gone>>
      BY <1>2 DEF WriteRow
    <3>1. req' = [req EXCEPT ![w] = q]
      BY <1>2, Zenon DEF WriteRow
    <3>2. q.skipped = ns /\ req[w].skipped \subseteq ns /\ ns \subseteq req[w].skipped \cup {i}
      BY <1>r DEF Requests
    <3> HIDE DEF q, ns
    <3>3. req'[w] = q
      BY <1>0, <3>1 DEF ReqTypes
    <3>4. q = r
      BY <3>2, <3>3 DEF q
    <3> QED BY <3>0, <3>1, <3>2, <3>3, <3>4
  <2>2. sk \subseteq Slots
    BY <1>r, <2>1 DEF Requests
  <2> HIDE DEF sk
  <2>3. r \in Requests /\ r.ops = req[w].ops /\ r.done = req[w].done \cup {i}
        /\ r.skipped = sk /\ r.seen = req[w].seen
    BY <1>r, <2>2 DEF Requests
  <2> HIDE DEF r
  <2>4. ReqTypes'
    BY <1>0, <2>1, <2>3, ReqChange DEF ReqTypes
  <2>5. row' \in Values \cup {None}
    <3>1. req[w].ops[i] \in Ops
      BY <1>r DEF Requests
    <3>2. row' \in {None, row, req[w].ops[i].val}
      BY <1>2 DEF WriteRow
    <3> QED BY <1>0, <3>1, <3>2 DEF LogTypes, Ops
  <2>6. TallyTypes' /\ LogTypes' /\ DeviceTypes' /\ PullTypes'
    BY <1>0, <2>1, <2>5 DEF tally, queueVars, TallyTypes, LogTypes, DeviceTypes, PullTypes
  <2> QED BY <2>4, <2>6, TypePartsNext
<1> QED BY <1>1, <1>2 DEF Apply

LEMMA TypeApi ==
  ASSUME TypeOK, NEW a \in Apis, ApiWrite(a)
  PROVE  TypeOK'
<1>0. TallyTypes /\ LogTypes /\ ReqTypes /\ DeviceTypes /\ PullTypes /\ a \in Writers
  BY TypeParts, InWriters
<1>r. req[a] \in Requests
  BY <1>0 DEF ReqTypes
<1>1. ASSUME NEW t \in Stamps, NEW kind \in Kinds, ApiBegin(a, t, kind) PROVE TypeOK'
  <2> DEFINE v == IF kind = "delete" THEN None ELSE [ts |-> t, id |-> writes + 1]
             o == Op(kind, v)
             r == [NoReq EXCEPT !.stage = "applying", !.ops = <<o>>]
  <2>1. /\ Writing(IF kind = "delete" THEN 0 ELSE t) /\ req' = [req EXCEPT ![a] = r]
        /\ UNCHANGED <<row, log, local, queueVars, cursor, pull, gone>>
    BY <1>1 DEF ApiBegin
  <2>2. /\ writes' \in 0..MaxWrites /\ clock' \in 0..writes' /\ losses' = losses
        /\ v \in Values \cup {None}
    <3>1. CASE kind = "delete"
      BY <2>1, <3>1, WritingTyped
    <3>2. CASE kind # "delete"
      <4>1. t # 0
        BY DEF Stamps
      <4> QED BY <2>1, <3>2, <4>1, WritingTyped
    <3> QED BY <3>1, <3>2
  <2> HIDE DEF v
  <2>3. o \in Ops
    BY <2>1, <2>2, OpTyped DEF Writing
  <2> HIDE DEF o
  <2>4. <<o>> \in Seq(Ops) /\ Len(<<o>>) = 1
    BY <2>3
  <2>5. r \in Requests /\ r.ops = <<o>> /\ r.done = {} /\ r.skipped = {} /\ DOMAIN r.seen = {}
    BY <2>4, NoReqTyped DEF Requests
  <2> HIDE DEF r
  <2>6. ReqTypes'
    <3>1. Len(r.ops) <= BatchMax
      BY <2>4, <2>5, Bounds
    <3> QED BY <1>0, <2>1, <2>5, <3>1, ReqChange DEF ReqTypes
  <2>7. TallyTypes' /\ LogTypes' /\ DeviceTypes' /\ PullTypes'
    BY <1>0, <2>1, <2>2 DEF queueVars, TallyTypes, LogTypes, DeviceTypes, PullTypes
  <2> QED BY <2>6, <2>7, TypePartsNext
<1>2. CASE ApiLog(a)
  <2> DEFINE e == [op |-> req[a].ops[1], applied |-> req[a].skipped = {}]
  <2>1. /\ req[a].done = {1} /\ Len(log) < MaxLog
        /\ log' = Append(log, e) /\ req' = [req EXCEPT ![a] = NoReq]
        /\ UNCHANGED <<clock, tally, row, local, queueVars, cursor, pull, gone>>
    BY <1>2 DEF ApiLog
  <2>2. e \in Entries
    <3>1. 1 \in DOMAIN req[a].ops
      BY <1>0, <2>1 DEF ReqTypes
    <3> QED BY <1>r, <3>1 DEF Requests, Entries
  <2> HIDE DEF e
  <2>3. LogTypes' /\ Len(log') = Len(log) + 1 /\ Len(log) \in Nat
    BY <1>0, <2>1, <2>2, Bounds DEF LogTypes
  <2>4. ReqTypes'
    BY <1>0, <2>1, NoReqTyped, ReqChange, Bounds DEF ReqTypes
  <2>5. PullTypes'
    <3>1. \A d \in Devices : cursor[d] \in Nat /\ pull[d].upto \in Nat
      BY <1>0, Bounds DEF PullTypes, Pulls
    <3> QED BY <1>0, <2>1, <2>3, <3>1 DEF PullTypes
  <2>6. TallyTypes' /\ DeviceTypes'
    BY <1>0, <2>1 DEF tally, queueVars, TallyTypes, DeviceTypes
  <2> QED BY <2>3, <2>4, <2>5, <2>6, TypePartsNext
<1> QED BY <1>1, <1>2 DEF ApiWrite, Kinds

LEMMA TypePull ==
  ASSUME TypeOK, NEW d \in Devices, Pull(d)
  PROVE  TypeOK'
<1>0. TallyTypes /\ LogTypes /\ ReqTypes /\ DeviceTypes /\ PullTypes
  BY TypeParts
<1>p. /\ pull[d] \in Pulls /\ cursor[d] \in 0..MaxLog /\ cursor[d] <= Len(log)
      /\ pull[d].upto <= Len(log) /\ pull[d].todo \subseteq 1..pull[d].upto
      /\ Len(log) \in Nat /\ Len(log) <= MaxLog /\ MaxLog \in Nat
  BY <1>0, Bounds DEF PullTypes, LogTypes
<1>1. CASE PullFetch(d) \/ PullBegin(d)
  <2> DEFINE p == pull'[d]
  <2>1. p \in Pulls /\ p.upto <= Len(log) /\ p.todo \subseteq 1..p.upto
        /\ pull' = [pull EXCEPT ![d] = p]
        /\ UNCHANGED <<clock, tally, serverVars, local, queueVars, cursor, gone>>
    <3>1. CASE PullFetch(d)
      <4> DEFINE todo == {k \in (cursor[d] + 1)..Len(log) : log[k].applied}
                 q == [NoPull EXCEPT !.stage = "fetched", !.todo = todo, !.upto = Len(log)]
      <4>1. pull' = [pull EXCEPT ![d] = q]
            /\ UNCHANGED <<clock, tally, serverVars, local, queueVars, cursor, gone>>
        BY <3>1 DEF PullFetch
      <4>2. todo \subseteq 1..Len(log) /\ todo \subseteq 1..MaxLog /\ Len(log) \in 0..MaxLog
        BY <1>p
      <4> HIDE DEF todo
      <4>3. q \in Pulls /\ q.upto = Len(log) /\ q.todo = todo
        BY <4>2, NoPullTyped DEF Pulls
      <4> HIDE DEF q
      <4>4. p = q
        BY <1>0, <4>1 DEF PullTypes
      <4> HIDE DEF p
      <4>6. p \in Pulls /\ p.upto = Len(log) /\ p.todo = todo
        BY <4>3, <4>4
      <4>5. p \in Pulls /\ p.upto <= Len(log) /\ p.todo \subseteq 1..p.upto
        BY ONLY <1>p, <4>2, <4>6
      <4> QED BY <4>1, <4>4, <4>5
    <3>2. CASE PullBegin(d)
      <4> DEFINE q == [pull[d] EXCEPT !.stage = "applying", !.hold = Deletes(queue[d])]
      <4>1. pull' = [pull EXCEPT ![d] = q]
            /\ UNCHANGED <<clock, tally, serverVars, local, queueVars, cursor, gone>>
        BY <3>2 DEF PullBegin, Deletes
      <4>2. q \in Pulls /\ q.upto = pull[d].upto /\ q.todo = pull[d].todo
        BY <1>p DEF Pulls, Deletes
      <4> HIDE DEF q
      <4>3. p = q
        BY <1>0, <4>1 DEF PullTypes
      <4> QED BY <1>p, <4>1, <4>2, <4>3
    <3> QED BY <1>1, <3>1, <3>2
  <2> HIDE DEF p
  <2>2. PullTypes'
    BY <1>0, <2>1, PullChange DEF PullTypes, serverVars
  <2>3. TallyTypes' /\ LogTypes' /\ ReqTypes' /\ DeviceTypes'
    BY <1>0, <2>1 DEF tally, serverVars, queueVars, TallyTypes, LogTypes, ReqTypes, DeviceTypes
  <2> QED BY <2>2, <2>3, TypePartsNext
<1>2. CASE PullNext(d)
  <2>1. PICK k \in pull[d].todo :
          /\ pull' = [pull EXCEPT ![d] = [pull[d] EXCEPT !.todo = pull[d].todo \ {k}]]
          /\ local' = [local EXCEPT ![d] = local'[d]]
          /\ local'[d] \in {local[d], None}
               \/ (log[k].op.kind # "delete" /\ local'[d] = log[k].op.val)
          /\ awaiting' = [awaiting EXCEPT ![d] = @ /\ log[k].op.kind # "delete"]
          /\ gone' = [gone EXCEPT ![d] = @ /\ log[k].op.kind # "delete"]
          /\ UNCHANGED <<clock, tally, serverVars, queue, tried, removing, cursor>>
    <3>1. local \in [Devices -> Values \cup {None}]
      BY <1>0 DEF DeviceTypes
    <3>2. PICK k \in pull[d].todo :
          /\ pull' = [pull EXCEPT ![d] = [pull[d] EXCEPT !.todo = @ \ {k}]]
          /\ local' = [local EXCEPT ![d] =
               IF log[k].op.kind # "delete" /\ (pull[d].hold \/ awaiting[d]) THEN @
               ELSE IF log[k].op.kind = "delete" THEN None
               ELSE IF Wins(@, log[k].op.val) THEN log[k].op.val ELSE @]
          /\ awaiting' = [awaiting EXCEPT ![d] = @ /\ log[k].op.kind # "delete"]
          /\ gone' = [gone EXCEPT ![d] = @ /\ log[k].op.kind # "delete"]
          /\ UNCHANGED <<clock, tally, serverVars, queue, tried, removing, cursor>>
      BY <1>2, Zenon DEF PullNext
    <3>3. pull' = [pull EXCEPT ![d] = [pull[d] EXCEPT !.todo = pull[d].todo \ {k}]]
      BY <3>2
    <3>4. /\ local' = [local EXCEPT ![d] = local'[d]]
          /\ local'[d] \in {local[d], None}
               \/ (log[k].op.kind # "delete" /\ local'[d] = log[k].op.val)
      BY <3>1, <3>2
    <3> QED BY <3>2, <3>3, <3>4
  <2>2. k \in DOMAIN log
    BY <1>0, <1>p DEF LogTypes, Pulls
  <2>3. log[k].op \in Ops
    <3>1. log[k] \in Entries
      BY <1>0, <2>2 DEF LogTypes
    <3> QED BY <3>1 DEF Entries
  <2>4. local'[d] \in Values \cup {None}
    BY <1>0, <2>1, <2>3 DEF Ops, DeviceTypes
  <2> DEFINE p == [pull[d] EXCEPT !.todo = pull[d].todo \ {k}]
  <2>5. p \in Pulls /\ p.upto = pull[d].upto /\ p.todo \subseteq pull[d].todo
    BY <1>p DEF Pulls
  <2>6. pull' = [pull EXCEPT ![d] = p]
    BY <2>1
  <2> HIDE DEF p
  <2>7. PullTypes'
    BY <1>0, <1>p, <2>1, <2>5, <2>6, PullChange DEF PullTypes, serverVars
  <2>8. DeviceTypes'
    BY <1>0, <2>1, <2>4 DEF DeviceTypes
  <2>9. TallyTypes' /\ LogTypes' /\ ReqTypes'
    BY <1>0, <2>1 DEF tally, serverVars, TallyTypes, LogTypes, ReqTypes
  <2> QED BY <2>7, <2>8, <2>9, TypePartsNext
<1>3. ASSUME NEW held \in 0..Redelivery, PullEnd(d, held) PROVE TypeOK'
  <2>1. /\ pull' = [pull EXCEPT ![d] = NoPull]
        /\ cursor' = [cursor EXCEPT ![d] =
             IF @ + held < pull[d].upto THEN pull[d].upto - held ELSE @]
        /\ UNCHANGED <<clock, tally, serverVars, local, queueVars, gone>>
    BY <1>3 DEF PullEnd
  <2>2. cursor' \in [Devices -> 0..MaxLog] /\ cursor'[d] <= Len(log)
        /\ \A e \in Devices \ {d} : cursor'[e] = cursor[e]
    <3>1. pull[d].upto \in Nat /\ held \in Nat /\ cursor[d] \in Nat
      BY <1>p, Bounds DEF Pulls
    <3>2. IF cursor[d] + held < pull[d].upto
          THEN pull[d].upto - held \in 0..MaxLog /\ pull[d].upto - held <= Len(log)
          ELSE TRUE
      BY <1>p, <3>1
    <3> QED BY <1>0, <1>p, <2>1, <3>2 DEF PullTypes
  <2>3. PullTypes'
    BY <1>0, <1>p, <2>1, <2>2, NoPullTyped, PullChange DEF PullTypes, serverVars
  <2>4. TallyTypes' /\ LogTypes' /\ ReqTypes' /\ DeviceTypes'
    BY <1>0, <2>1 DEF tally, serverVars, queueVars, TallyTypes, LogTypes, ReqTypes, DeviceTypes
  <2> QED BY <2>3, <2>4, TypePartsNext
<1> QED BY <1>1, <1>2, <1>3 DEF Pull

LEMMA TypeReload ==
  ASSUME TypeOK, NEW d \in Devices, Reload(d)
  PROVE  TypeOK'
<1>0. TallyTypes /\ LogTypes /\ ReqTypes /\ DeviceTypes /\ PullTypes /\ d \in Writers
  BY TypeParts, InWriters
<1> DEFINE r == IF req[d].stage = "applying" THEN [req[d] EXCEPT !.heard = FALSE] ELSE NoReq
<1>1. /\ losses < MaxLosses /\ losses' = losses + 1 /\ UNCHANGED <<clock, writes>>
      /\ tried' = [tried EXCEPT ![d] = {}]
      /\ awaiting' = [awaiting EXCEPT ![d] = FALSE]
      /\ removing' = [removing EXCEPT ![d] = FALSE]
      /\ pull' = [pull EXCEPT ![d] = NoPull]
      /\ gone' = [gone EXCEPT ![d] = FALSE]
      /\ req' = [req EXCEPT ![d] = r]
      /\ UNCHANGED <<row, log, local, queue, cursor>>
  BY DEF Reload, Losing
<1>2. r \in Requests /\ Len(r.ops) <= BatchMax
      /\ r.done \cup DOMAIN r.seen \subseteq DOMAIN r.ops /\ r.skipped \subseteq r.done
  <2>1. CASE req[d].stage = "applying"
    <3>1. req[d] \in Requests
      BY <1>0 DEF ReqTypes
    <3>2. r = [req[d] EXCEPT !.heard = FALSE]
      BY <2>1
    <3>3. /\ r \in Requests /\ r.ops = req[d].ops /\ r.done = req[d].done
          /\ r.seen = req[d].seen /\ r.skipped = req[d].skipped
      BY <3>1, <3>2 DEF Requests
    <3> QED BY <1>0, <3>3 DEF ReqTypes
  <2>2. CASE req[d].stage # "applying"
    BY <2>2, NoReqTyped, Bounds
  <2> QED BY <2>1, <2>2
<1> HIDE DEF r
<1>3. ReqTypes'
  BY <1>0, <1>1, <1>2, ReqChange DEF ReqTypes
<1>4. PullTypes'
  BY <1>0, <1>1, NoPullTyped, PullChange, Bounds DEF PullTypes, LogTypes
<1>5. DeviceTypes'
  BY <1>0, <1>1 DEF DeviceTypes
<1>6. TallyTypes' /\ LogTypes'
  BY <1>0, <1>1, Bounds DEF TallyTypes, LogTypes
<1> QED BY <1>3, <1>4, <1>5, <1>6, TypePartsNext

LEMMA TypeInit == Init => TypeOK
<1> SUFFICES ASSUME Init PROVE TypeOK
  OBVIOUS
<1>1. TallyTypes /\ LogTypes /\ DeviceTypes
  BY Bounds DEF Init, TallyTypes, LogTypes, DeviceTypes
<1>2. ReqTypes
  BY NoReqTyped, Bounds DEF Init, ReqTypes
<1>3. PullTypes
  BY NoPullTyped, Bounds DEF Init, PullTypes
<1> QED BY <1>1, <1>2, <1>3, TypeParts

LEMMA TypeNext == TypeOK /\ [Next]_vars => TypeOK'
<1> SUFFICES ASSUME TypeOK, [Next]_vars PROVE TypeOK'
  OBVIOUS
<1>1. CASE UNCHANGED vars
  <2>1. TypeOK' <=> TypeOK
    BY <1>1 DEF vars, tally, serverVars, queueVars, TypeOK
  <2> QED BY <2>1
<1> QED BY <1>1, TypeLocalWrite, TypePush, TypeApply, TypeApi, TypePull, TypeReload DEF Next

\* Requests, queues, cursors and replays stay well formed, whatever races: no
\* cursor passes the end of the log, no reply has more than was asked.
THEOREM TypeCorrect == Spec => []TypeOK
BY TypeInit, TypeNext, PTL DEF Spec

-----------------------------------------------------------------------------
(* What a step leaves alone *)

LEMMA LocalWriteFrame ==
  ASSUME NEW d \in Devices, LocalWrite(d)
  PROVE  UNCHANGED <<losses, row, log, req, cursor, pull>>
<1>1. ASSUME NEW t \in Stamps, Create(d, t) \/ Edit(d, t)
      PROVE  UNCHANGED <<losses, row, log, req, cursor, pull>>
  BY <1>1 DEF Create, Edit, Writing, serverVars
<1>2. CASE QueueDelete(d) \/ RemoveRow(d)
  BY <1>2 DEF QueueDelete, RemoveRow, Writing, serverVars, tally
<1> QED BY <1>1, <1>2 DEF LocalWrite

LEMMA PushFrame ==
  ASSUME NEW d \in Devices, Push(d)
  PROVE  UNCHANGED <<clock, writes, row, local, removing, cursor, pull, gone>>
BY DEF Push, Send, Insert, Answer, Acknowledge, LosePush, Losing, tally, queueVars

LEMMA ApplyFrame ==
  ASSUME NEW w \in Writers, Apply(w)
  PROVE  UNCHANGED <<clock, tally, log, local, queueVars, cursor, pull, gone>>
<1>1. ASSUME NEW i \in DOMAIN req[w].ops, ReadRow(w, i) \/ WriteRow(w, i)
      PROVE  UNCHANGED <<clock, tally, log, local, queueVars, cursor, pull, gone>>
  BY <1>1 DEF ReadRow, WriteRow
<1> QED BY <1>1 DEF Apply

LEMMA ApiFrame ==
  ASSUME NEW a \in Apis, ApiWrite(a)
  PROVE  UNCHANGED <<row, local, queueVars, cursor, pull, gone>>
<1>1. ASSUME NEW t \in Stamps, NEW kind \in Kinds, ApiBegin(a, t, kind)
      PROVE  UNCHANGED <<row, local, queueVars, cursor, pull, gone>>
  BY <1>1 DEF ApiBegin
<1>2. CASE ApiLog(a)
  BY <1>2 DEF ApiLog
<1> QED BY <1>1, <1>2 DEF ApiWrite, Kinds

LEMMA PullFrame ==
  ASSUME NEW d \in Devices, Pull(d)
  PROVE  UNCHANGED <<clock, tally, serverVars, queue, tried, removing>>
<1>1. CASE PullFetch(d) \/ PullBegin(d) \/ PullNext(d)
  BY <1>1 DEF PullFetch, PullBegin, PullNext, queueVars
<1>2. ASSUME NEW held \in 0..Redelivery, PullEnd(d, held)
      PROVE  UNCHANGED <<clock, tally, serverVars, queue, tried, removing>>
  BY <1>2 DEF PullEnd, queueVars
<1> QED BY <1>1, <1>2 DEF Pull

\* Numbers grow.
LEMMA WritesGrow ==
  ASSUME TypeOK, [Next]_vars
  PROVE  /\ writes \in Nat /\ writes' \in Nat /\ writes <= writes'
         /\ clock \in Nat /\ clock' \in Nat /\ clock <= clock'
<1>1. writes \in Nat /\ clock \in Nat
  BY Bounds DEF TypeOK
<1>2. UNCHANGED <<clock, writes>> \/ \E t \in Stamps \cup {0} : Writing(t)
  <2>1. CASE UNCHANGED vars
    BY <2>1 DEF vars, tally
  <2>2. ASSUME NEW d \in Devices, LocalWrite(d)
        PROVE  UNCHANGED <<clock, writes>> \/ \E t \in Stamps \cup {0} : Writing(t)
    <3>1. ASSUME NEW t \in Stamps, Create(d, t) \/ Edit(d, t) PROVE Writing(t)
      BY <3>1 DEF Create, Edit
    <3>2. CASE QueueDelete(d)
      BY <3>2 DEF QueueDelete
    <3>3. CASE RemoveRow(d)
      BY <3>3 DEF RemoveRow, tally
    <3> QED BY <2>2, <3>1, <3>2, <3>3 DEF LocalWrite
  <2>3. ASSUME NEW d \in Devices, Push(d) \/ Pull(d) \/ Reload(d)
        PROVE  UNCHANGED <<clock, writes>>
    BY <2>3, PushFrame, PullFrame DEF Reload, Losing, tally
  <2>4. ASSUME NEW w \in Writers, Apply(w)
        PROVE  UNCHANGED <<clock, writes>>
    BY <2>4, ApplyFrame DEF tally
  <2>5. ASSUME NEW a \in Apis, ApiWrite(a)
        PROVE  UNCHANGED <<clock, writes>> \/ \E t \in Stamps \cup {0} : Writing(t)
    <3>1. ASSUME NEW t \in Stamps, NEW kind \in Kinds, ApiBegin(a, t, kind)
          PROVE  \E u \in Stamps \cup {0} : Writing(u)
      BY <3>1 DEF ApiBegin
    <3>2. CASE ApiLog(a)
      BY <3>2 DEF ApiLog, tally
    <3> QED BY <2>5, <3>1, <3>2 DEF ApiWrite, Kinds
  <2> QED BY <2>1, <2>2, <2>3, <2>4, <2>5 DEF Next
<1>3. ASSUME NEW t \in Stamps \cup {0}, Writing(t)
      PROVE  writes' \in Nat /\ writes <= writes' /\ clock' \in Nat /\ clock <= clock'
  <2>1. writes' = writes + 1 /\ clock' \in 0..writes' /\ clock <= clock'
    BY <1>3, WritingTyped
  <2> QED BY <1>1, <2>1
<1> QED BY <1>1, <1>2, <1>3

-----------------------------------------------------------------------------
(* What was deleted on a device stays away from it *)

LEMMA GoneNext == GoneInv /\ [Next]_vars => GoneInv'
<1> SUFFICES ASSUME GoneInv, [Next]_vars PROVE GoneInv'
  OBVIOUS
<1> DEFINE Away(d) == gone[d] => awaiting[d] /\ (removing[d] \/ local[d] = None) /\ writes > 0
<1>0. TypeOK /\ TypeOK' /\ writes \in Nat /\ writes' \in Nat /\ writes <= writes'
      /\ \A e \in Devices : Away(e)
  BY TypeNext, WritesGrow DEF GoneInv
<1>t. /\ local \in [Devices -> Values \cup {None}]
      /\ awaiting \in [Devices -> BOOLEAN] /\ removing \in [Devices -> BOOLEAN]
      /\ gone \in [Devices -> BOOLEAN]
  BY <1>0 DEF TypeOK
<1> SUFFICES ASSUME NEW e \in Devices PROVE Away(e)'
  BY <1>0 DEF GoneInv
<1>1. CASE UNCHANGED <<local, awaiting, removing, gone>>
  BY <1>0, <1>1
<1>2. ASSUME NEW d \in Devices, LocalWrite(d) PROVE Away(e)'
  <2>1. ASSUME NEW t \in Stamps, Create(d, t) PROVE Away(e)'
    BY <1>0, <1>t, <2>1 DEF Create
  <2>2. ASSUME NEW t \in Stamps, Edit(d, t) PROVE Away(e)'
    BY <1>0, <1>t, <2>2 DEF Edit
  <2>3. CASE QueueDelete(d)
    <3>1. gone'[d] => awaiting'[d] /\ removing'[d] /\ writes' > 0
      BY <1>0, <1>t, <2>3 DEF QueueDelete, Writing
    <3>2. d # e => gone'[e] = gone[e] /\ awaiting'[e] = awaiting[e]
                   /\ removing'[e] = removing[e] /\ local'[e] = local[e]
      BY <1>t, <2>3 DEF QueueDelete
    <3>3. CASE d = e
      BY <3>1, <3>3
    <3>4. CASE d # e
      <4>1. writes > 0 => writes' > 0
        BY <1>0
      <4> QED BY <1>0, <3>2, <3>4, <4>1, Zenon
    <3> QED BY <3>3, <3>4
  <2>4. CASE RemoveRow(d)
    BY <1>0, <1>t, <2>4 DEF RemoveRow, tally
  <2> QED BY <1>2, <2>1, <2>2, <2>3, <2>4 DEF LocalWrite
<1>3. ASSUME NEW d \in Devices, Push(d) PROVE Away(e)'
  <2>1. UNCHANGED <<local, removing, gone>> /\ (awaiting[e] => awaiting'[e])
    <3>1. CASE Acknowledge(d)
      BY <1>t, <3>1 DEF Acknowledge
    <3>2. CASE ~Acknowledge(d)
      BY <1>3, <3>2 DEF Push, Send, Insert, Answer, LosePush, queueVars
    <3>3. UNCHANGED <<local, removing, gone>>
      BY <1>3, PushFrame
    <3> QED BY <3>1, <3>2, <3>3
  <2> QED BY <1>0, <2>1
<1>4. ASSUME NEW w \in Writers, Apply(w) PROVE Away(e)'
  BY <1>1, <1>4, ApplyFrame DEF queueVars
<1>5. ASSUME NEW a \in Apis, ApiWrite(a) PROVE Away(e)'
  BY <1>1, <1>5, ApiFrame DEF queueVars
<1>6. ASSUME NEW d \in Devices, Pull(d) PROVE Away(e)'
  <2>1. CASE PullNext(d)
    <3>1. PICK k \in pull[d].todo :
            /\ local' = [local EXCEPT ![d] =
                 IF log[k].op.kind # "delete" /\ (pull[d].hold \/ awaiting[d]) THEN @
                 ELSE IF log[k].op.kind = "delete" THEN None
                 ELSE IF Wins(@, log[k].op.val) THEN log[k].op.val ELSE @]
            /\ awaiting' = [awaiting EXCEPT ![d] = @ /\ log[k].op.kind # "delete"]
            /\ gone' = [gone EXCEPT ![d] = @ /\ log[k].op.kind # "delete"]
            /\ UNCHANGED <<writes, removing>>
      BY <2>1, Zenon DEF PullNext, tally
    <3>2. gone'[d] => gone[d] /\ log[k].op.kind # "delete" /\ awaiting'[d] = awaiting[d]
      BY <1>t, <3>1
    <3>3. gone'[d] => local'[d] = local[d]
      BY <1>0, <1>t, <3>1, <3>2
    <3>4. d # e => gone'[e] = gone[e] /\ awaiting'[e] = awaiting[e]
                   /\ removing'[e] = removing[e] /\ local'[e] = local[e]
      BY <1>t, <3>1
    <3> QED BY <1>0, <3>1, <3>2, <3>3, <3>4
  <2>2. CASE PullFetch(d) \/ PullBegin(d)
    BY <1>1, <2>2 DEF PullFetch, PullBegin, queueVars
  <2>3. ASSUME NEW held \in 0..Redelivery, PullEnd(d, held) PROVE Away(e)'
    BY <1>1, <2>3 DEF PullEnd, queueVars
  <2> QED BY <1>6, <2>1, <2>2, <2>3 DEF Pull
<1>7. ASSUME NEW d \in Devices, Reload(d) PROVE Away(e)'
  BY <1>0, <1>t, <1>7 DEF Reload
<1>8. CASE UNCHANGED vars
  BY <1>1, <1>8 DEF vars, queueVars
<1> QED BY <1>2, <1>3, <1>4, <1>5, <1>6, <1>7, <1>8 DEF Next

\* What the user deleted on a device does not come back to it before a delete
\* of the entity is replayed, whatever older operations a pull brings, in which
\* order its steps and the push of the delete fall, and whatever races
\* (applyEntityOp's hold, rememberPushedDeletes).
THEOREM DeletedStaysAway == Spec => []NoResurrection
<1>1. Init => GoneInv
  <2>1. ASSUME Init PROVE \A d \in Devices : ~gone[d]
    BY <2>1 DEF Init
  <2> QED BY <2>1, TypeInit DEF GoneInv
<1>2. GoneInv => NoResurrection
  BY DEF GoneInv, NoResurrection
<1> QED BY <1>1, <1>2, GoneNext, PTL DEF Spec

-----------------------------------------------------------------------------
(* What each step does to the requests and the log *)

LEMMA ReqFacts ==
  ASSUME TypeOK, NEW w \in Writers
  PROVE  /\ req[w] \in Requests
         /\ req[w].ops \in Seq(Ops) /\ Len(req[w].ops) \in Nat
         /\ DOMAIN req[w].ops = 1..Len(req[w].ops)
         /\ \A i \in DOMAIN req[w].ops : req[w].ops[i] \in Ops
         /\ req[w].done \subseteq DOMAIN req[w].ops
         /\ DOMAIN req[w].seen \subseteq DOMAIN req[w].ops
         /\ req[w].skipped \subseteq req[w].done
         /\ req[w].at \in Nat
<1>1. req[w] \in Requests
  BY DEF TypeOK
<1>2. req[w].ops \in Seq(Ops) /\ req[w].at \in 0..MaxLog
  BY <1>1 DEF Requests
<1>3. Len(req[w].ops) \in Nat /\ DOMAIN req[w].ops = 1..Len(req[w].ops)
      /\ \A i \in DOMAIN req[w].ops : req[w].ops[i] \in Ops
  BY <1>2
<1> QED BY <1>1, <1>2, <1>3, Bounds DEF TypeOK

LEMMA LogFacts ==
  ASSUME TypeOK
  PROVE  /\ log \in Seq(Entries) /\ Len(log) \in Nat /\ DOMAIN log = 1..Len(log)
         /\ \A k \in DOMAIN log : log[k] \in Entries /\ log[k].op \in Ops
                                  /\ log[k].applied \in BOOLEAN
<1>1. log \in Seq(Entries)
  BY DEF TypeOK
<1>2. Len(log) \in Nat /\ DOMAIN log = 1..Len(log) /\ \A k \in DOMAIN log : log[k] \in Entries
  BY <1>1
<1> QED BY <1>1, <1>2 DEF Entries

LEMMA SendEffect ==
  ASSUME TypeOK, NEW d \in Devices, Send(d)
  PROVE  \E k \in Slots : \E b \in [1..k -> queue[d]] :
           /\ req[d].stage = "idle" /\ Oldest(b, queue[d])
           /\ b \in Seq(Ops) /\ Len(b) = k /\ DOMAIN b = 1..k /\ b # <<>>
           /\ ToSet(b) \subseteq queue[d]
           /\ tried' = [tried EXCEPT ![d] = @ \cup {o.n : o \in ToSet(b)}]
           /\ req'[d].stage = "sent" /\ req'[d].ops = b /\ req'[d].done = {}
           /\ req'[d].skipped = {} /\ DOMAIN req'[d].seen = {}
           /\ \A v \in Writers \ {d} : req'[v] = req[v]
           /\ UNCHANGED <<clock, tally, row, log, local, queue, awaiting, removing,
                          cursor, pull, gone>>
<1>0. d \in Writers /\ req \in [Writers -> Requests] /\ queue[d] \subseteq Ops
  BY InWriters DEF TypeOK
<1>1. PICK k \in Slots :
          \E b \in [1..k -> queue[d]] :
            /\ req[d].stage = "idle" /\ Oldest(b, queue[d])
            /\ tried' = [tried EXCEPT ![d] = @ \cup {o.n : o \in ToSet(b)}]
            /\ req' = [req EXCEPT ![d] = [NoReq EXCEPT !.stage = "sent", !.ops = b]]
            /\ UNCHANGED <<clock, tally, row, log, local, queue, awaiting, removing,
                           cursor, pull, gone>>
  BY DEF Send
<1>2. PICK b \in [1..k -> queue[d]] :
            /\ req[d].stage = "idle" /\ Oldest(b, queue[d])
            /\ tried' = [tried EXCEPT ![d] = @ \cup {o.n : o \in ToSet(b)}]
            /\ req' = [req EXCEPT ![d] = [NoReq EXCEPT !.stage = "sent", !.ops = b]]
            /\ UNCHANGED <<clock, tally, row, log, local, queue, awaiting, removing,
                           cursor, pull, gone>>
  BY <1>1
<1>3. b \in Seq(Ops) /\ Len(b) = k /\ DOMAIN b = 1..k /\ b # <<>> /\ ToSet(b) \subseteq queue[d]
  BY <1>0, Bounds DEF Slots, ToSet
<1> DEFINE r == [NoReq EXCEPT !.stage = "sent", !.ops = b]
<1>4. r.stage = "sent" /\ r.ops = b /\ r.done = {} /\ r.skipped = {} /\ DOMAIN r.seen = {}
  BY NoReqTyped DEF Requests
<1> HIDE DEF r
<1>5. req'[d] = r /\ \A v \in Writers \ {d} : req'[v] = req[v]
  BY <1>0, <1>2 DEF r
<1> QED BY <1>2, <1>3, <1>4, <1>5

LEMMA InsertEffect ==
  ASSUME TypeOK, NEW d \in Devices, Insert(d)
  PROVE  /\ req[d].stage = "sent" /\ Alone(d) /\ ("recreated" \in Races \/ ~Recreates(d))
         /\ Len(log') = Len(log) + Len(req[d].ops) /\ DOMAIN log' = 1..Len(log')
         /\ \A k \in DOMAIN log : log'[k] = log[k]
         /\ \A i \in DOMAIN req[d].ops :
              log'[Len(log) + i] = [op |-> req[d].ops[i], applied |-> TRUE]
         /\ req'[d].stage = "applying" /\ req'[d].at = Len(log) /\ req'[d].ops = req[d].ops
         /\ req'[d].done = req[d].done /\ req'[d].skipped = req[d].skipped
         /\ req'[d].seen = req[d].seen
         /\ \A v \in Writers \ {d} : req'[v] = req[v]
         /\ UNCHANGED <<clock, tally, row, local, queueVars, cursor, pull, gone>>
<1>0. d \in Writers /\ req \in [Writers -> Requests]
  BY InWriters DEF TypeOK
<1> DEFINE new == [i \in DOMAIN req[d].ops |-> [op |-> req[d].ops[i], applied |-> TRUE]]
           r == [req[d] EXCEPT !.stage = "applying", !.at = Len(log)]
<1>1. req' = [req EXCEPT ![d] = r] /\ log' = log \o new
      /\ req[d].stage = "sent" /\ Alone(d) /\ ("recreated" \in Races \/ ~Recreates(d))
      /\ UNCHANGED <<clock, tally, row, local, queueVars, cursor, pull, gone>>
  BY DEF Insert
<1>2. /\ r.stage = "applying" /\ r.at = Len(log) /\ r.ops = req[d].ops
      /\ r.done = req[d].done /\ r.skipped = req[d].skipped /\ r.seen = req[d].seen
  BY <1>0, ReqFacts DEF Requests
<1> HIDE DEF r
<1>3. req'[d] = r /\ \A v \in Writers \ {d} : req'[v] = req[v]
  BY <1>0, <1>1
<1>4. new \in Seq(Entries) /\ Len(new) = Len(req[d].ops)
      /\ \A i \in DOMAIN req[d].ops : new[i] = [op |-> req[d].ops[i], applied |-> TRUE]
  <2>1. \A i \in DOMAIN req[d].ops : [op |-> req[d].ops[i], applied |-> TRUE] \in Entries
    BY <1>0, ReqFacts DEF Entries
  <2>2. DOMAIN req[d].ops = 1..Len(req[d].ops) /\ Len(req[d].ops) \in Nat
    BY <1>0, ReqFacts
  <2> QED BY <2>1, <2>2
<1>5. DOMAIN req[d].ops = 1..Len(new) /\ Len(new) \in Nat
  BY <1>0, <1>4, ReqFacts
<1> HIDE DEF new
<1>6. /\ Len(log') = Len(log) + Len(new) /\ DOMAIN log' = 1..Len(log')
      /\ \A k \in DOMAIN log : log'[k] = log[k]
      /\ \A i \in 1..Len(new) : log'[Len(log) + i] = new[i]
  <2>1. log \in Seq(Entries) /\ new \in Seq(Entries) /\ Len(log) \in Nat /\ Len(new) \in Nat
        /\ DOMAIN log = 1..Len(log)
    BY <1>4, <1>5, LogFacts
  <2> DEFINE c == log \o new
  <2>2. /\ Len(c) = Len(log) + Len(new) /\ DOMAIN c = 1..Len(c)
        /\ \A k \in 1..Len(log) : c[k] = log[k]
        /\ \A i \in 1..Len(new) : c[Len(log) + i] = new[i]
    BY <2>1
  <2> QED BY <1>1, <2>1, <2>2
<1> QED BY <1>1, <1>2, <1>3, <1>4, <1>5, <1>6

LEMMA ReadEffect ==
  ASSUME TypeOK, NEW w \in Writers, NEW i \in DOMAIN req[w].ops, ReadRow(w, i)
  PROVE  /\ Applying(w) /\ Startable(w, i) /\ req[w].ops[i].kind # "delete"
         /\ i \notin req[w].done \cup DOMAIN req[w].seen
         /\ DOMAIN req'[w].seen = DOMAIN req[w].seen \cup {i} /\ req'[w].seen[i] = row
         /\ \A j \in DOMAIN req[w].seen : req'[w].seen[j] = req[w].seen[j]
         /\ req'[w].stage = req[w].stage /\ req'[w].ops = req[w].ops
         /\ req'[w].done = req[w].done /\ req'[w].skipped = req[w].skipped
         /\ req'[w].at = req[w].at
         /\ \A v \in Writers \ {w} : req'[v] = req[v]
         /\ UNCHANGED <<clock, tally, row, log, local, queueVars, cursor, pull, gone>>
<1> DEFINE s == Seeing(req[w].seen, i, row)
           r == [req[w] EXCEPT !.seen = s]
<1>1. req' = [req EXCEPT ![w] = r] /\ req[w].stage = "applying" /\ Startable(w, i)
      /\ req[w].ops[i].kind # "delete" /\ i \notin req[w].done \cup DOMAIN req[w].seen
      /\ UNCHANGED <<clock, tally, row, log, local, queueVars, cursor, pull, gone>>
  BY DEF ReadRow
<1>2. DOMAIN s = DOMAIN req[w].seen \cup {i} /\ s[i] = row
      /\ \A j \in DOMAIN req[w].seen : i # j => s[j] = req[w].seen[j]
  BY DEF Seeing
<1> HIDE DEF s
<1>3. /\ r.seen = s /\ r.stage = req[w].stage /\ r.ops = req[w].ops /\ r.done = req[w].done
      /\ r.skipped = req[w].skipped /\ r.at = req[w].at
  BY ReqFacts DEF Requests
<1> HIDE DEF r
<1>4. req'[w] = r /\ \A v \in Writers \ {w} : req'[v] = req[v]
  BY <1>1 DEF TypeOK
<1> QED BY <1>1, <1>2, <1>3, <1>4 DEF Applying

LEMMA WriteEffect ==
  ASSUME TypeOK, NEW w \in Writers, NEW i \in DOMAIN req[w].ops, WriteRow(w, i)
  PROVE  LET op == req[w].ops[i]
             missing == op.kind = "update" /\ req[w].seen[i] = None
         IN  /\ Applying(w) /\ i \notin req[w].done
             /\ op.kind = "delete" => Startable(w, i) /\ row' = None
             /\ op.kind # "delete" =>
                  /\ i \in DOMAIN req[w].seen
                  /\ row' = IF ~missing /\ Wins(req[w].seen[i], op.val) THEN op.val ELSE row
             /\ req'[w].done = req[w].done \cup {i}
             /\ req'[w].skipped = IF missing THEN req[w].skipped \cup {i} ELSE req[w].skipped
             /\ req'[w].stage = req[w].stage /\ req'[w].ops = req[w].ops
             /\ req'[w].seen = req[w].seen /\ req'[w].at = req[w].at
             /\ \A v \in Writers \ {w} : req'[v] = req[v]
             /\ UNCHANGED <<clock, tally, log, local, queueVars, cursor, pull, gone>>
<1> DEFINE op == req[w].ops[i]
           missing == op.kind = "update" /\ req[w].seen[i] = None
           ns == IF op.kind # "delete" /\ missing THEN req[w].skipped \cup {i} ELSE req[w].skipped
           r == [req[w] EXCEPT !.done = @ \cup {i}, !.skipped = ns]
<1>1. req' = [req EXCEPT ![w] = r]
  BY Zenon DEF WriteRow
<1>2. UNCHANGED <<clock, tally, log, local, queueVars, cursor, pull, gone>>
      /\ req[w].stage = "applying" /\ i \notin req[w].done
  BY DEF WriteRow
<1>3. /\ op.kind = "delete" => Startable(w, i) /\ row' = None
      /\ op.kind # "delete" =>
           /\ i \in DOMAIN req[w].seen
           /\ row' = IF ~missing /\ Wins(req[w].seen[i], op.val) THEN op.val ELSE row
  BY DEF WriteRow
<1>4. ns = IF missing THEN req[w].skipped \cup {i} ELSE req[w].skipped
  OBVIOUS
<1> HIDE DEF ns
<1>5. /\ r.seen = req[w].seen /\ r.stage = req[w].stage /\ r.ops = req[w].ops
      /\ r.done = req[w].done \cup {i} /\ r.skipped = ns /\ r.at = req[w].at
  BY ReqFacts DEF Requests
<1> HIDE DEF r
<1>6. req'[w] = r /\ \A v \in Writers \ {w} : req'[v] = req[v]
  BY <1>1 DEF TypeOK
<1> QED BY <1>2, <1>3, <1>4, <1>5, <1>6 DEF Applying

LEMMA AnswerEffect ==
  ASSUME TypeOK, NEW d \in Devices, Answer(d)
  PROVE  /\ Applying(d) /\ req[d].done = DOMAIN req[d].ops
         /\ Len(log') = Len(log) /\ DOMAIN log' = DOMAIN log
         /\ \A k \in DOMAIN log : log'[k].op = log[k].op /\ log'[k].applied =
              (log[k].applied /\ \A i \in req[d].skipped : k # req[d].at + i)
         /\ \A k \in DOMAIN log : (\A i \in req[d].skipped : k # req[d].at + i) => log'[k] = log[k]
         /\ req'[d].stage \in {"idle", "answered"} /\ req'[d].ops \in {req[d].ops, <<>>}
         /\ req'[d].done = {} /\ DOMAIN req'[d].seen = {}
         /\ \A v \in Writers \ {d} : req'[v] = req[v]
         /\ UNCHANGED <<clock, tally, row, local, queueVars, cursor, pull, gone>>
<1>0. d \in Writers /\ req \in [Writers -> Requests]
  BY InWriters DEF TypeOK
<1> DEFINE r == IF req[d].heard THEN [NoReq EXCEPT !.stage = "answered", !.ops = req[d].ops]
                ELSE NoReq
<1>1. /\ req' = [req EXCEPT ![d] = r] /\ req[d].stage = "applying"
      /\ req[d].done = DOMAIN req[d].ops
      /\ UNCHANGED <<clock, tally, row, local, queueVars, cursor, pull, gone>>
  BY DEF Answer
<1>2. log' = [k \in DOMAIN log |->
       IF \E i \in req[d].skipped : k = req[d].at + i
       THEN [log[k] EXCEPT !.applied = FALSE] ELSE log[k]]
  BY DEF Answer
<1>3. \A e \in Entries : /\ [e EXCEPT !.applied = FALSE].op = e.op
                         /\ [e EXCEPT !.applied = FALSE].applied = FALSE
  BY DEF Entries
<1>4. \A k \in DOMAIN log :
        /\ log'[k].op = log[k].op
        /\ log'[k].applied = (log[k].applied /\ \A i \in req[d].skipped : k # req[d].at + i)
        /\ (\A i \in req[d].skipped : k # req[d].at + i) => log'[k] = log[k]
  <2> SUFFICES ASSUME NEW k \in DOMAIN log
               PROVE  /\ log'[k].op = log[k].op
                      /\ log'[k].applied =
                           (log[k].applied /\ \A i \in req[d].skipped : k # req[d].at + i)
                      /\ (\A i \in req[d].skipped : k # req[d].at + i) => log'[k] = log[k]
    OBVIOUS
  <2>1. log[k] \in Entries /\ log[k].applied \in BOOLEAN
    BY LogFacts
  <2>2. CASE \E i \in req[d].skipped : k = req[d].at + i
    <3>1. log'[k] = [log[k] EXCEPT !.applied = FALSE]
      BY <1>2, <2>2
    <3>2. log'[k].op = log[k].op /\ log'[k].applied = FALSE
      BY <1>3, <2>1, <3>1
    <3> QED BY <2>2, <3>2
  <2>3. CASE ~ \E i \in req[d].skipped : k = req[d].at + i
    <3>1. log'[k] = log[k]
      BY <1>2, <2>3
    <3> QED BY <2>1, <2>3, <3>1
  <2> QED BY <2>2, <2>3
<1>5. DOMAIN log' = DOMAIN log /\ Len(log') = Len(log)
  <2>1. DOMAIN log' = 1..Len(log) /\ Len(log) \in Nat
    BY <1>2, LogFacts
  <2>2. log' = [k \in 1..Len(log) |-> log'[k]]
    BY <1>2, <2>1
  <2> QED BY <2>1, <2>2, LogFacts
<1>6. /\ r.stage \in {"idle", "answered"} /\ r.ops \in {req[d].ops, <<>>} /\ r.done = {}
      /\ DOMAIN r.seen = {}
  <2>1. CASE req[d].heard
    BY <2>1, NoReqTyped DEF Requests
  <2>2. CASE ~req[d].heard
    BY <2>2, NoReqTyped
  <2> QED BY <2>1, <2>2
<1> HIDE DEF r
<1>7. req'[d] = r /\ \A v \in Writers \ {d} : req'[v] = req[v]
  BY <1>0, <1>1
<1> QED BY <1>1, <1>4, <1>5, <1>6, <1>7 DEF Applying

LEMMA AcknowledgeEffect ==
  ASSUME TypeOK, NEW d \in Devices, Acknowledge(d)
  PROVE  /\ req[d].stage = "answered" /\ req'[d] = NoReq
         /\ \A v \in Writers \ {d} : req'[v] = req[v]
         /\ \A o \in queue[d] : o \in queue'[d] \/ \E p \in Sent(d) : o.n = p.n
         /\ \A o \in queue'[d] : o \in queue[d] /\ \A p \in Sent(d) : o.n # p.n
         /\ \A n \in tried[d] : n \in tried'[d] \/ \E p \in Sent(d) : n = p.n
         /\ tried'[d] \subseteq tried[d]
         /\ awaiting'[d] = (awaiting[d] \/ Deletes(Sent(d)))
         /\ \A e \in Devices \ {d} :
              queue'[e] = queue[e] /\ tried'[e] = tried[e] /\ awaiting'[e] = awaiting[e]
         /\ UNCHANGED <<clock, tally, row, log, local, removing, cursor, pull, gone>>
<1>0. /\ d \in Writers /\ req \in [Writers -> Requests]
      /\ queue \in [Devices -> SUBSET Ops] /\ tried \in [Devices -> SUBSET (1..MaxWrites)]
      /\ awaiting \in [Devices -> BOOLEAN]
  BY InWriters DEF TypeOK
<1> DEFINE sent == {o.n : o \in Sent(d)}
<1>1. /\ req[d].stage = "answered" /\ req' = [req EXCEPT ![d] = NoReq]
      /\ queue' = [queue EXCEPT ![d] = {o \in @ : o.n \notin sent}]
      /\ tried' = [tried EXCEPT ![d] = @ \ sent]
      /\ awaiting' = [awaiting EXCEPT ![d] = @ \/ Deletes(Sent(d))]
      /\ UNCHANGED <<clock, tally, row, log, local, removing, cursor, pull, gone>>
  BY DEF Acknowledge, Sent, Deletes
<1>2. \A n : n \in sent <=> \E p \in Sent(d) : n = p.n
  OBVIOUS
<1> HIDE DEF sent
<1>3. req'[d] = NoReq /\ \A v \in Writers \ {d} : req'[v] = req[v]
  BY <1>0, <1>1
<1>4. awaiting'[d] = (awaiting[d] \/ Deletes(Sent(d)))
  BY <1>0, <1>1
<1>5. queue'[d] = {o \in queue[d] : o.n \notin sent} /\ tried'[d] = tried[d] \ sent
  BY <1>0, <1>1
<1>6. \A e \in Devices \ {d} :
        queue'[e] = queue[e] /\ tried'[e] = tried[e] /\ awaiting'[e] = awaiting[e]
  BY <1>0, <1>1
<1> QED BY <1>1, <1>2, <1>3, <1>4, <1>5, <1>6

LEMMA LoseEffect ==
  ASSUME TypeOK, NEW d \in Devices, LosePush(d)
  PROVE  /\ req[d].stage \in {"sent", "answered"} /\ req'[d] = NoReq
         /\ \A v \in Writers \ {d} : req'[v] = req[v]
         /\ UNCHANGED <<clock, writes, row, log, local, queueVars, cursor, pull, gone>>
BY InWriters DEF TypeOK, LosePush, Losing

\* Old in the next state, of an operation given in either.
OldAfter(o) == /\ o.n <= writes'
               /\ IF o.kind = "delete" THEN o.val = None
                  ELSE o.val \in Values /\ o.val.ts <= clock' /\ o.val.id <= writes'

LEMMA ApiBeginEffect ==
  ASSUME TypeOK, NEW a \in Apis, NEW t \in Stamps, NEW kind \in Kinds, ApiBegin(a, t, kind)
  PROVE  /\ req[a].stage = "idle" /\ Alone(a) /\ writes' = writes + 1 /\ writes < MaxWrites
         /\ IF kind = "create" THEN writes = 0 ELSE row # None
         /\ req'[a].stage = "applying" /\ req'[a].done = {} /\ req'[a].skipped = {}
         /\ DOMAIN req'[a].seen = {} /\ Len(req'[a].ops) = 1 /\ DOMAIN req'[a].ops = {1}
         /\ req'[a].ops[1].kind = kind /\ OldAfter(req'[a].ops[1])
         /\ \A v \in Writers \ {a} : req'[v] = req[v]
         /\ UNCHANGED <<row, log, local, queueVars, cursor, pull, gone>>
<1>0. a \in Writers /\ req \in [Writers -> Requests]
  BY InWriters DEF TypeOK
<1> DEFINE v == IF kind = "delete" THEN None ELSE [ts |-> t, id |-> writes + 1]
           o == Op(kind, v)
           r == [NoReq EXCEPT !.stage = "applying", !.ops = <<o>>]
<1>1. /\ req' = [req EXCEPT ![a] = r] /\ Writing(IF kind = "delete" THEN 0 ELSE t)
      /\ req[a].stage = "idle" /\ Alone(a) /\ IF kind = "create" THEN writes = 0 ELSE row # None
      /\ UNCHANGED <<row, log, local, queueVars, cursor, pull, gone>>
  BY DEF ApiBegin
<1>2. /\ writes' = writes + 1 /\ writes < MaxWrites /\ writes \in Nat /\ clock' \in Nat
      /\ IF kind = "delete" THEN v = None
         ELSE v \in Values /\ v.ts = t /\ v.id = writes + 1 /\ t <= clock'
  <2>1. CASE kind = "delete"
    BY <1>1, <2>1, WritingTyped DEF Writing
  <2>2. CASE kind # "delete"
    <3>1. t # 0
      BY DEF Stamps
    <3> QED BY <1>1, <2>2, <3>1, WritingTyped DEF Writing
  <2> QED BY <2>1, <2>2
<1> HIDE DEF v
<1>3. o.kind = kind /\ o.val = v /\ o.n = writes + 1 /\ o \in Ops
  BY <1>2, OpTyped
<1> HIDE DEF o
<1>4. OldAfter(o)
  <2>1. o.n <= writes'
    BY <1>1, <1>2, <1>3
  <2>2. CASE kind = "delete"
    BY <1>2, <1>3, <2>1, <2>2 DEF OldAfter
  <2>3. CASE kind # "delete"
    BY <1>1, <1>2, <1>3, <2>1, <2>3, WritingTyped DEF OldAfter
  <2> QED BY <2>2, <2>3
<1>5. <<o>> \in Seq(Ops) /\ Len(<<o>>) = 1 /\ <<o>>[1] = o /\ DOMAIN <<o>> = {1}
  BY <1>3
<1>6. /\ r.stage = "applying" /\ r.ops = <<o>> /\ r.done = {} /\ r.skipped = {}
      /\ DOMAIN r.seen = {}
  BY NoReqTyped DEF Requests
<1> HIDE DEF r
<1>7. req'[a] = r /\ \A w \in Writers \ {a} : req'[w] = req[w]
  BY <1>0, <1>1
<1>8. req'[a].ops[1] = o
  BY <1>5, <1>6, <1>7
<1> QED BY <1>1, <1>2, <1>3, <1>4, <1>5, <1>6, <1>7, <1>8

LEMMA ApiLogEffect ==
  ASSUME TypeOK, NEW a \in Apis, ApiLog(a)
  PROVE  /\ Applying(a) /\ req[a].done = {1} /\ req'[a] = NoReq
         /\ \A v \in Writers \ {a} : req'[v] = req[v]
         /\ Len(log') = Len(log) + 1 /\ DOMAIN log' = 1..Len(log')
         /\ \A k \in DOMAIN log : log'[k] = log[k]
         /\ log'[Len(log) + 1] = [op |-> req[a].ops[1], applied |-> req[a].skipped = {}]
         /\ UNCHANGED <<clock, tally, row, local, queueVars, cursor, pull, gone>>
<1>0. a \in Writers /\ req \in [Writers -> Requests]
  BY InWriters DEF TypeOK
<1> DEFINE e == [op |-> req[a].ops[1], applied |-> req[a].skipped = {}]
<1>1. /\ log' = Append(log, e) /\ req' = [req EXCEPT ![a] = NoReq]
      /\ req[a].stage = "applying" /\ req[a].done = {1}
      /\ UNCHANGED <<clock, tally, row, local, queueVars, cursor, pull, gone>>
  BY DEF ApiLog
<1>2. e \in Entries
  <2>1. req[a].ops[1] \in Ops
    BY <1>0, <1>1, ReqFacts
  <2> QED BY <2>1 DEF Entries
<1> HIDE DEF e
<1>3. /\ Len(log') = Len(log) + 1 /\ DOMAIN log' = 1..Len(log')
      /\ \A k \in DOMAIN log : log'[k] = log[k]
      /\ log'[Len(log) + 1] = e
  BY <1>1, <1>2, LogFacts
<1>4. req'[a] = NoReq /\ \A v \in Writers \ {a} : req'[v] = req[v]
  BY <1>0, <1>1
<1> QED BY <1>1, <1>3, <1>4 DEF e, Applying

LEMMA ReloadEffect ==
  ASSUME TypeOK, NEW d \in Devices, Reload(d)
  PROVE  /\ "deathMidDelete" \in Races \/ (removing[d] => awaiting[d])
         /\ "forgottenPush" \in Races \/ \A o \in PendingCreates(d) : o.n \notin tried[d]
         /\ tried'[d] = {} /\ ~awaiting'[d] /\ ~removing'[d] /\ pull'[d] = NoPull
         /\ \A e \in Devices \ {d} :
              /\ tried'[e] = tried[e] /\ awaiting'[e] = awaiting[e]
              /\ removing'[e] = removing[e] /\ pull'[e] = pull[e]
         /\ Applying(d) => /\ req'[d].stage = "applying" /\ req'[d].ops = req[d].ops
                           /\ req'[d].done = req[d].done /\ req'[d].seen = req[d].seen
                           /\ req'[d].skipped = req[d].skipped /\ req'[d].at = req[d].at
         /\ ~Applying(d) => req'[d] = NoReq
         /\ \A v \in Writers \ {d} : req'[v] = req[v]
         /\ UNCHANGED <<clock, writes, row, log, local, queue, cursor>>
<1>0. d \in Writers /\ req \in [Writers -> Requests]
  BY InWriters DEF TypeOK
<1> DEFINE r == IF req[d].stage = "applying" THEN [req[d] EXCEPT !.heard = FALSE] ELSE NoReq
<1>1. /\ req' = [req EXCEPT ![d] = r]
      /\ "deathMidDelete" \in Races \/ (removing[d] => awaiting[d])
      /\ "forgottenPush" \in Races \/ \A o \in PendingCreates(d) : o.n \notin tried[d]
      /\ tried' = [tried EXCEPT ![d] = {}]
      /\ awaiting' = [awaiting EXCEPT ![d] = FALSE]
      /\ removing' = [removing EXCEPT ![d] = FALSE]
      /\ pull' = [pull EXCEPT ![d] = NoPull]
      /\ UNCHANGED <<clock, writes, row, log, local, queue, cursor>>
  BY DEF Reload, Losing
<1>2. req'[d] = r /\ \A v \in Writers \ {d} : req'[v] = req[v]
  BY <1>0, <1>1
<1>3. CASE Applying(d)
  <2>1. r = [req[d] EXCEPT !.heard = FALSE]
    BY <1>3 DEF Applying
  <2>2. /\ r.stage = req[d].stage /\ r.ops = req[d].ops /\ r.done = req[d].done
        /\ r.seen = req[d].seen /\ r.skipped = req[d].skipped /\ r.at = req[d].at
    BY <1>0, <2>1, ReqFacts DEF Requests
  <2> QED BY <1>1, <1>2, <1>3, <2>2 DEF Applying, TypeOK
<1>4. CASE ~Applying(d)
  BY <1>1, <1>2, <1>4 DEF Applying, TypeOK
<1> QED BY <1>3, <1>4

-----------------------------------------------------------------------------
(* What a local write does *)

\* The operation a write makes: it bears the next number.
Fresh(o) == o \in Ops /\ o.n = writes + 1 /\ OldAfter(o)

\* What stays as it was on the devices where nothing is written.
Elsewhere(d) == \A e \in Devices \ {d} :
  /\ local'[e] = local[e] /\ queue'[e] = queue[e] /\ tried'[e] = tried[e]
  /\ awaiting'[e] = awaiting[e] /\ removing'[e] = removing[e]

LEMMA StampedOp ==
  ASSUME TypeOK, NEW t \in Stamps, Writing(t), NEW kind \in {"create", "update"}
  PROVE  LET v == [ts |-> t, id |-> writes + 1] IN
         /\ v \in Values /\ v.ts = t /\ v.id = writes + 1 /\ t <= clock'
         /\ Op(kind, v).kind = kind /\ Op(kind, v).val = v /\ Fresh(Op(kind, v))
<1> DEFINE v == [ts |-> t, id |-> writes + 1]
<1>1. t # 0 /\ writes < MaxWrites
  BY DEF Stamps, Writing
<1>2. v \in Values /\ v.ts = t /\ v.id = writes + 1 /\ t <= clock' /\ writes' = writes + 1
      /\ writes \in Nat
  BY <1>1, WritingTyped
<1> HIDE DEF v
<1> DEFINE o == Op(kind, v)
<1>3. o \in Ops /\ o.kind = kind /\ o.val = v /\ o.n = writes + 1
  BY <1>1, <1>2, OpTyped DEF Kinds
<1> HIDE DEF o
<1>4. Fresh(o)
  BY <1>2, <1>3 DEF Fresh, OldAfter
<1> QED BY <1>2, <1>3, <1>4 DEF v, o

LEMMA CreateEffect ==
  ASSUME TypeOK, NEW d \in Devices, NEW t \in Stamps, Create(d, t)
  PROVE  \E o \in Ops :
           /\ Fresh(o) /\ o.kind = "create" /\ o.val \in Values
           /\ o.val.ts = t /\ o.val.id = writes + 1
           /\ writes = 0 /\ writes' = writes + 1
           /\ local'[d] = o.val /\ queue'[d] = queue[d] \cup {o} /\ tried'[d] = tried[d]
           /\ awaiting'[d] = awaiting[d] /\ removing'[d] = removing[d] /\ Elsewhere(d)
           /\ UNCHANGED <<row, log, req, cursor, pull>>
<1> DEFINE v == [ts |-> t, id |-> writes + 1]
           o == Op("create", v)
<1>1. /\ writes = 0 /\ Writing(t)
      /\ local' = [local EXCEPT ![d] = v]
      /\ queue' = [queue EXCEPT ![d] = @ \cup {o}]
      /\ UNCHANGED <<serverVars, tried, awaiting, removing, cursor, pull>>
  BY DEF Create
<1>2. v \in Values /\ v.ts = t /\ v.id = writes + 1
      /\ o.kind = "create" /\ o.val = v /\ Fresh(o)
  BY <1>1, StampedOp
<1> HIDE DEF v, o
<1>3. local'[d] = v /\ queue'[d] = queue[d] \cup {o} /\ Elsewhere(d)
  BY <1>1 DEF TypeOK, Elsewhere
<1> QED BY <1>1, <1>2, <1>3 DEF serverVars, Fresh, Writing

LEMMA EditEffect ==
  ASSUME TypeOK, NEW d \in Devices, NEW t \in Stamps, Edit(d, t)
  PROVE  \E o \in Ops :
           /\ Fresh(o) /\ o.kind # "delete" /\ o.val \in Values
           /\ o.val.ts = t /\ o.val.id = writes + 1
           /\ writes > 0 /\ writes' = writes + 1 /\ ~removing[d]
           /\ local[d] # None \/ "staleEdit" \in Races
           /\ local'[d] = o.val
           /\ PendingCreates(d) = {} =>
                /\ o.kind = "update" /\ queue'[d] = queue[d] \cup {o}
                /\ tried'[d] = tried[d]
           /\ PendingCreates(d) # {} =>
                /\ o.kind = "create" /\ queue'[d] = (queue[d] \ PendingCreates(d)) \cup {o}
                /\ (\E p \in PendingCreates(d) : p.n \in tried[d]) => o.n \in tried'[d]
                /\ (\A p \in PendingCreates(d) : p.n \notin tried[d]) => tried'[d] = tried[d]
           /\ awaiting'[d] = awaiting[d] /\ removing'[d] = removing[d] /\ Elsewhere(d)
           /\ UNCHANGED <<row, log, req, cursor, pull>>
<1> DEFINE v == [ts |-> t, id |-> writes + 1]
           creates == PendingCreates(d)
           o == IF creates = {} THEN Op("update", v) ELSE Op("create", v)
<1>1. /\ writes > 0 /\ Writing(t) /\ ~removing[d]
      /\ local[d] # None \/ "staleEdit" \in Races
      /\ local' = [local EXCEPT ![d] = v]
      /\ queue' = [queue EXCEPT ![d] =
           IF creates = {} THEN @ \cup {Op("update", v)}
           ELSE (@ \ creates) \cup {Op("create", v)}]
      /\ tried' = [tried EXCEPT ![d] =
           IF \E p \in creates : p.n \in @
           THEN (@ \ {p.n : p \in creates}) \cup {writes + 1} ELSE @]
      /\ UNCHANGED <<serverVars, awaiting, removing, cursor, pull>>
  BY DEF Edit
<1>2. v \in Values /\ v.ts = t /\ v.id = writes + 1
  BY <1>1, StampedOp
<1>3. o.val = v /\ Fresh(o) /\ (creates = {} => o.kind = "update")
      /\ (creates # {} => o.kind = "create") /\ o.n = writes + 1
  <2>1. CASE creates = {}
    <3>1. o = Op("update", v)
      BY <2>1
    <3> HIDE DEF creates, o
    <3> QED BY <1>1, <2>1, <3>1, StampedOp DEF Fresh
  <2>2. CASE creates # {}
    <3>1. o = Op("create", v)
      BY <2>2
    <3> HIDE DEF creates, o
    <3> QED BY <1>1, <2>2, <3>1, StampedOp DEF Fresh
  <2> QED BY <2>1, <2>2
<1>4. queue'[d] = IF creates = {} THEN queue[d] \cup {o} ELSE (queue[d] \ creates) \cup {o}
  BY <1>1 DEF TypeOK
<1> HIDE DEF v, o
<1>5. /\ (\E p \in creates : p.n \in tried[d]) => writes + 1 \in tried'[d]
      /\ (\A p \in creates : p.n \notin tried[d]) => tried'[d] = tried[d]
  BY <1>1 DEF TypeOK
<1>6. creates = {} => tried'[d] = tried[d]
  BY <1>5
<1> HIDE DEF creates
<1>7. local'[d] = v /\ Elsewhere(d)
  BY <1>1 DEF TypeOK, Elsewhere
<1> QED BY <1>1, <1>2, <1>3, <1>4, <1>5, <1>6, <1>7 DEF serverVars, Fresh, Writing, creates

LEMMA QueueDeleteEffect ==
  ASSUME TypeOK, NEW d \in Devices, QueueDelete(d)
  PROVE  \E o \in Ops :
           /\ Fresh(o) /\ o.kind = "delete"
           /\ writes' = writes + 1 /\ clock' = clock
           /\ local[d] # None /\ ~removing[d] /\ removing'[d]
           /\ (\E p \in PendingCreates(d) : p.n \notin tried[d]) =>
                /\ queue'[d] = {p \in queue[d] : p.n \in tried[d]}
                /\ awaiting'[d] = awaiting[d]
           /\ (\A p \in PendingCreates(d) : p.n \in tried[d]) =>
                /\ queue'[d] = {p \in queue[d] : p.n \in tried[d]} \cup {o}
                /\ awaiting'[d]
           /\ local'[d] = local[d] /\ tried'[d] = tried[d] /\ Elsewhere(d)
           /\ UNCHANGED <<row, log, req, local, cursor, pull>>
<1> DEFINE kept == {p \in queue[d] : p.n \in tried[d]}
           neverSent == ~(PendingCreates(d) \subseteq kept)
           o == Op("delete", None)
<1>1. /\ local[d] # None /\ ~removing[d] /\ Writing(0)
      /\ removing' = [removing EXCEPT ![d] = TRUE]
      /\ queue' = [queue EXCEPT ![d] = IF neverSent THEN kept ELSE kept \cup {o}]
      /\ awaiting' = [awaiting EXCEPT ![d] = @ \/ ~neverSent]
      /\ UNCHANGED <<serverVars, local, tried, cursor, pull>>
  BY DEF QueueDelete
<1>2. writes' = writes + 1 /\ writes \in Nat /\ writes < MaxWrites /\ clock' = clock
  <2>1. 0 \in Stamps \cup {0} /\ clock \in Nat /\ writes' = writes + 1 /\ writes \in Nat
    BY <1>1, WritingTyped
  <2> QED BY <1>1, <2>1 DEF Writing
<1>3. o \in Ops /\ o.kind = "delete" /\ o.val = None /\ o.n = writes + 1
  BY <1>2, OpTyped DEF Kinds
<1> HIDE DEF o
<1>4. Fresh(o)
  BY <1>2, <1>3 DEF Fresh, OldAfter
<1>5. neverSent <=> \E p \in PendingCreates(d) : p.n \notin tried[d]
  BY DEF PendingCreates
<1> HIDE DEF neverSent
<1>6. /\ neverSent => queue'[d] = kept
      /\ ~neverSent => queue'[d] = kept \cup {o}
      /\ removing'[d] /\ Elsewhere(d)
  BY <1>1 DEF TypeOK, Elsewhere
<1>7. /\ neverSent => awaiting'[d] = awaiting[d]
      /\ ~neverSent => awaiting'[d]
  BY <1>1 DEF TypeOK
<1> HIDE DEF kept
<1> QED BY <1>1, <1>2, <1>3, <1>4, <1>5, <1>6, <1>7 DEF serverVars, kept

LEMMA RemoveRowEffect ==
  ASSUME TypeOK, NEW d \in Devices, RemoveRow(d)
  PROVE  /\ removing[d] /\ ~removing'[d] /\ local'[d] = None
         /\ \A e \in Devices \ {d} : local'[e] = local[e] /\ removing'[e] = removing[e]
         /\ UNCHANGED <<clock, writes, row, log, req, queue, tried, awaiting, cursor, pull>>
BY DEF TypeOK, RemoveRow, serverVars, tally

-----------------------------------------------------------------------------
(* An operation is in the queue until it is in the log *)

\* Where an operation of the next state comes from: from the same place, from
\* the place before it on its way to the log, or from the write just made.
QueueStep(d) ==
  /\ \A o \in queue'[d] : o \in queue[d] \/ Fresh(o)
  /\ \A o, p \in queue'[d] : Fresh(o) /\ Fresh(p) => o = p

Sent2(w) == ToSet(req'[w].ops)

SentStep(w) == \A o \in Sent2(w) :
  \/ o \in Sent(w)
  \/ w \in Devices /\ o \in queue[w]
  \/ w \in Apis /\ OldAfter(o)

LogStep ==
  /\ \A k \in DOMAIN log : k \in DOMAIN log' /\ log'[k].op = log[k].op
  /\ \A k \in DOMAIN log' : k \in DOMAIN log \/ \E w \in Writers : log'[k].op \in Sent(w)

AnsweredStep(d) == req'[d].stage \in {"applying", "answered"} => \A o \in Sent2(d) :
  \/ req[d].stage \in {"applying", "answered"} /\ o \in Sent(d)
  \/ \E k \in DOMAIN log' : log'[k].op = o

OriginStep ==
  /\ LogStep
  /\ \A w \in Writers : SentStep(w)
  /\ \A d \in Devices : QueueStep(d) /\ AnsweredStep(d)

LEMMA SameReqOrigin ==
  ASSUME NEW w \in Writers,
         req'[w].ops = req[w].ops \/ req'[w].ops = <<>>
  PROVE  SentStep(w)
BY DEF SentStep, Sent, Sent2, ToSet

LEMMA SameStageOrigin ==
  ASSUME NEW d \in Devices,
         \/ req'[d].ops = <<>>
         \/ req'[d].stage \notin {"applying", "answered"}
         \/ req'[d].ops = req[d].ops /\ req[d].stage \in {"applying", "answered"}
  PROVE  AnsweredStep(d)
BY DEF AnsweredStep, Sent, Sent2, ToSet

LEMMA NumbersBelow ==
  ASSUME WriteInv
  PROVE  \A d \in Devices : \A o \in queue[d] : o.n # writes + 1 /\ ~Fresh(o)
<1>1. writes \in Nat /\ \A d \in Devices : queue[d] \subseteq Ops
  BY Bounds DEF WriteInv, TypeOK
<1>2. \A d \in Devices : \A o \in queue[d] : o.n <= writes /\ o.n \in Nat
  BY <1>1 DEF WriteInv, AllOld, Old, Ops
<1> QED BY <1>1, <1>2 DEF Fresh

LEMMA SameQueueOrigin ==
  ASSUME WriteInv, NEW d \in Devices, queue'[d] \subseteq queue[d]
  PROVE  QueueStep(d)
BY NumbersBelow DEF QueueStep

LEMMA AddQueueOrigin ==
  ASSUME WriteInv, NEW d \in Devices, NEW o, queue'[d] \subseteq queue[d] \cup {o}
  PROVE  Fresh(o) => QueueStep(d)
BY NumbersBelow DEF QueueStep

LEMMA SameLogOrigin ==
  ASSUME UNCHANGED log
  PROVE  LogStep
BY DEF LogStep

LEMMA NoWriterAll ==
  ASSUME NEW w \in Writers, \A v \in Writers \ {w} : req'[v] = req[v], SentStep(w),
         w \in Devices => AnsweredStep(w)
  PROVE  /\ \A v \in Writers : SentStep(v)
         /\ \A d \in Devices : AnsweredStep(d)
<1>1. \A v \in Writers \ {w} : SentStep(v)
  BY SameReqOrigin
<1>2. ASSUME NEW d \in Devices \ {w} PROVE AnsweredStep(d)
  BY <1>2, InWriters DEF AnsweredStep, Sent, Sent2
<1> QED BY <1>1, <1>2

LEMMA LocalWriteOrigin ==
  ASSUME WriteInv, NEW d \in Devices, LocalWrite(d)
  PROVE  OriginStep
<1>0. TypeOK /\ UNCHANGED <<log, req>>
  BY LocalWriteFrame DEF WriteInv
<1>1. LogStep /\ (\A w \in Writers : SentStep(w)) /\ \A e \in Devices : AnsweredStep(e)
  BY <1>0, SameLogOrigin DEF SentStep, AnsweredStep, Sent, Sent2
<1>2. \A e \in Devices \ {d} : queue'[e] = queue[e] => QueueStep(e)
  BY SameQueueOrigin
<1>3. ASSUME NEW t \in Stamps, Create(d, t) PROVE \A e \in Devices : QueueStep(e)
  <2>1. PICK o \in Ops : Fresh(o) /\ queue'[d] = queue[d] \cup {o} /\ Elsewhere(d)
    BY <1>0, <1>3, CreateEffect
  <2>2. QueueStep(d)
    BY <2>1, AddQueueOrigin
  <2> QED BY <1>2, <2>1, <2>2 DEF Elsewhere
<1>4. ASSUME NEW t \in Stamps, Edit(d, t) PROVE \A e \in Devices : QueueStep(e)
  <2>1. PICK o \in Ops : Fresh(o) /\ Elsewhere(d)
           /\ (PendingCreates(d) = {} => queue'[d] = queue[d] \cup {o})
           /\ (PendingCreates(d) # {} => queue'[d] = (queue[d] \ PendingCreates(d)) \cup {o})
    BY <1>0, <1>4, EditEffect
  <2>2. queue'[d] \subseteq queue[d] \cup {o}
    BY <2>1
  <2>3. QueueStep(d)
    BY <2>1, <2>2, AddQueueOrigin
  <2> QED BY <1>2, <2>1, <2>3 DEF Elsewhere
<1>5. ASSUME QueueDelete(d) PROVE \A e \in Devices : QueueStep(e)
  <2>1. PICK o \in Ops : Fresh(o) /\ Elsewhere(d)
           /\ ((\E p \in PendingCreates(d) : p.n \notin tried[d]) =>
                queue'[d] = {p \in queue[d] : p.n \in tried[d]})
           /\ ((\A p \in PendingCreates(d) : p.n \in tried[d]) =>
                queue'[d] = {p \in queue[d] : p.n \in tried[d]} \cup {o})
    BY <1>0, <1>5, QueueDeleteEffect
  <2>2. queue'[d] \subseteq queue[d] \cup {o}
    BY <2>1
  <2>3. QueueStep(d)
    BY <2>1, <2>2, AddQueueOrigin
  <2> QED BY <1>2, <2>1, <2>3 DEF Elsewhere
<1>6. ASSUME RemoveRow(d) PROVE \A e \in Devices : QueueStep(e)
  BY <1>0, <1>6, RemoveRowEffect, SameQueueOrigin
<1> QED BY <1>1, <1>3, <1>4, <1>5, <1>6 DEF LocalWrite, OriginStep

LEMMA PushOrigin ==
  ASSUME WriteInv, NEW d \in Devices, Push(d)
  PROVE  OriginStep
<1>0. TypeOK /\ d \in Writers
  BY InWriters DEF WriteInv
<1>1. CASE Send(d)
  <2>1. PICK k \in Slots : \E b \in [1..k -> queue[d]] :
          /\ ToSet(b) \subseteq queue[d] /\ req'[d].stage = "sent" /\ req'[d].ops = b
          /\ (\A v \in Writers \ {d} : req'[v] = req[v]) /\ UNCHANGED <<log, queue>>
    BY <1>0, <1>1, SendEffect
  <2>2. ToSet(req'[d].ops) \subseteq queue[d] /\ req'[d].stage = "sent"
        /\ (\A v \in Writers \ {d} : req'[v] = req[v]) /\ UNCHANGED <<log, queue>>
    BY <2>1
  <2>3. SentStep(d) /\ AnsweredStep(d)
    BY <2>2, SameStageOrigin DEF SentStep, Sent2
  <2> QED BY <1>0, <2>2, <2>3, NoWriterAll, SameLogOrigin, SameQueueOrigin DEF OriginStep
<1>2. CASE Insert(d)
  <2>1. /\ Len(log') = Len(log) + Len(req[d].ops) /\ DOMAIN log' = 1..Len(log')
        /\ \A k \in DOMAIN log : log'[k] = log[k]
        /\ \A i \in DOMAIN req[d].ops :
             log'[Len(log) + i] = [op |-> req[d].ops[i], applied |-> TRUE]
        /\ req'[d].ops = req[d].ops
        /\ \A v \in Writers \ {d} : req'[v] = req[v]
        /\ UNCHANGED queue
    BY <1>0, <1>2, InsertEffect DEF queueVars
  <2>0. \A i \in DOMAIN req[d].ops : log'[Len(log) + i].op = req[d].ops[i]
    <3> TAKE i \in DOMAIN req[d].ops
    <3>1. log'[Len(log) + i] = [op |-> req[d].ops[i], applied |-> TRUE]
      BY <2>1
    <3> QED BY <3>1
  <2>2. Len(log) \in Nat /\ DOMAIN log = 1..Len(log)
        /\ Len(req[d].ops) \in Nat /\ DOMAIN req[d].ops = 1..Len(req[d].ops)
    BY <1>0, ReqFacts, LogFacts
  <2>3. \A k \in DOMAIN log : k \in DOMAIN log' /\ log'[k].op = log[k].op
    BY <2>1, <2>2
  <2>4. \A k \in DOMAIN log' : k \in DOMAIN log \/ log'[k].op \in Sent(d)
    <3> SUFFICES ASSUME NEW k \in DOMAIN log', k \notin DOMAIN log PROVE log'[k].op \in Sent(d)
      OBVIOUS
    <3>1. k - Len(log) \in DOMAIN req[d].ops /\ k = Len(log) + (k - Len(log))
      BY <2>1, <2>2
    <3>2. PICK j \in DOMAIN req[d].ops : k = Len(log) + j
      BY <3>1
    <3>3. log'[k].op = req[d].ops[j]
      BY <2>0, <3>2
    <3> QED BY <3>3 DEF Sent, ToSet
  <2>5. SentStep(d)
    BY <1>0, <2>1, SameReqOrigin
  <2>6. AnsweredStep(d)
    <3>1. ASSUME NEW o \in Sent2(d) PROVE \E k \in DOMAIN log' : log'[k].op = o
      <4>1. PICK i \in DOMAIN req[d].ops : o = req[d].ops[i]
        BY <2>1, <3>1 DEF Sent2, ToSet
      <4>2. Len(log) + i \in DOMAIN log' /\ log'[Len(log) + i].op = o
        BY <2>0, <2>1, <2>2, <4>1
      <4> QED BY <4>2
    <3> QED BY <3>1 DEF AnsweredStep
  <2> QED BY <1>0, <2>1, <2>3, <2>4, <2>5, <2>6, NoWriterAll, SameQueueOrigin DEF OriginStep, LogStep
<1>3. CASE Answer(d)
  <2>1. /\ req[d].stage = "applying"
        /\ DOMAIN log' = DOMAIN log /\ \A k \in DOMAIN log : log'[k].op = log[k].op
        /\ req'[d].ops \in {req[d].ops, <<>>}
        /\ \A v \in Writers \ {d} : req'[v] = req[v]
        /\ UNCHANGED queue
    BY <1>0, <1>3, AnswerEffect DEF queueVars, Applying
  <2>2. SentStep(d) /\ AnsweredStep(d)
    BY <1>0, <2>1, SameReqOrigin, SameStageOrigin
  <2> QED BY <1>0, <2>1, <2>2, NoWriterAll, SameQueueOrigin DEF OriginStep, LogStep
<1>4. CASE Acknowledge(d) \/ LosePush(d)
  <2>1. /\ req'[d].ops = <<>> /\ UNCHANGED log
        /\ \A v \in Writers \ {d} : req'[v] = req[v]
    BY <1>0, <1>4, AcknowledgeEffect, LoseEffect, NoReqTyped
  <2>2. \A e \in Devices : queue'[e] \subseteq queue[e]
    <3>1. CASE Acknowledge(d)
      <4>1. queue'[d] \subseteq queue[d] /\ \A e \in Devices \ {d} : queue'[e] = queue[e]
        BY <1>0, <3>1, AcknowledgeEffect
      <4> QED BY <4>1
    <3>2. CASE LosePush(d)
      BY <1>0, <3>2, LoseEffect DEF queueVars
    <3> QED BY <1>4, <3>1, <3>2
  <2>3. SentStep(d) /\ AnsweredStep(d)
    BY <1>0, <2>1, SameReqOrigin, SameStageOrigin
  <2> QED BY <1>0, <2>1, <2>2, <2>3, NoWriterAll, SameLogOrigin, SameQueueOrigin DEF OriginStep
<1> QED BY <1>1, <1>2, <1>3, <1>4 DEF Push

LEMMA ServerOrigin ==
  ASSUME WriteInv, NEW w \in Writers, Apply(w)
  PROVE  OriginStep
<1>0. TypeOK /\ UNCHANGED <<log, queue>>
  BY ApplyFrame DEF WriteInv, queueVars
<1>1. PICK i \in DOMAIN req[w].ops : ReadRow(w, i) \/ WriteRow(w, i)
  BY DEF Apply
<1>2. req'[w].ops = req[w].ops /\ req'[w].stage = req[w].stage
      /\ req[w].stage = "applying" /\ \A v \in Writers \ {w} : req'[v] = req[v]
  <2>1. CASE ReadRow(w, i)
    BY <1>0, <2>1, ReadEffect DEF Applying
  <2>2. CASE WriteRow(w, i)
    BY <1>0, <2>2, WriteEffect DEF Applying
  <2> QED BY <1>1, <2>1, <2>2
<1>3. SentStep(w) /\ (w \in Devices => AnsweredStep(w))
  BY <1>2, SameReqOrigin, SameStageOrigin
<1> QED BY <1>0, <1>2, <1>3, NoWriterAll, SameLogOrigin, SameQueueOrigin DEF OriginStep

LEMMA ApiOrigin ==
  ASSUME WriteInv, NEW a \in Apis, ApiWrite(a)
  PROVE  OriginStep
<1>0. TypeOK /\ a \in Writers /\ a \notin Devices /\ UNCHANGED queue
  BY InWriters, ApiFrame, WriterAssumption DEF WriteInv, queueVars
<1>1. ASSUME NEW t \in Stamps, NEW kind \in Kinds, ApiBegin(a, t, kind) PROVE OriginStep
  <2>1. DOMAIN req'[a].ops = {1} /\ OldAfter(req'[a].ops[1])
        /\ (\A v \in Writers \ {a} : req'[v] = req[v]) /\ UNCHANGED log
    BY <1>0, <1>1, ApiBeginEffect
  <2>2. SentStep(a)
    BY <2>1 DEF SentStep, Sent2, ToSet
  <2> QED BY <1>0, <2>1, <2>2, NoWriterAll, SameLogOrigin, SameQueueOrigin DEF OriginStep
<1>2. CASE ApiLog(a)
  <2>1. /\ req[a].done = {1} /\ req'[a] = NoReq
        /\ \A v \in Writers \ {a} : req'[v] = req[v]
        /\ Len(log') = Len(log) + 1 /\ DOMAIN log' = 1..Len(log')
        /\ \A k \in DOMAIN log : log'[k] = log[k]
        /\ log'[Len(log) + 1] = [op |-> req[a].ops[1], applied |-> req[a].skipped = {}]
    BY <1>0, <1>2, ApiLogEffect
  <2>0. log'[Len(log) + 1].op = req[a].ops[1]
    BY <2>1
  <2>2. 1 \in DOMAIN req[a].ops /\ Len(log) \in Nat /\ DOMAIN log = 1..Len(log)
    BY <1>0, <2>1, ReqFacts, LogFacts
  <2>3. SentStep(a)
    BY <1>0, <2>1, NoReqTyped, SameReqOrigin
  <2>4. \A k \in DOMAIN log' : k \in DOMAIN log \/ log'[k].op \in Sent(a)
    BY <2>0, <2>1, <2>2 DEF Sent, ToSet
  <2>5. LogStep
    BY <1>0, <2>1, <2>2, <2>4 DEF LogStep
  <2> QED BY <1>0, <2>1, <2>3, <2>5, NoWriterAll, SameQueueOrigin DEF OriginStep
<1> QED BY <1>1, <1>2 DEF ApiWrite, Kinds

LEMMA OtherOrigin ==
  ASSUME WriteInv, UNCHANGED <<log, queue>>,
         \/ UNCHANGED req
         \/ \E d \in Devices : Reload(d)
  PROVE  OriginStep
<1>1. CASE UNCHANGED req
  BY <1>1, SameLogOrigin, SameQueueOrigin
     DEF OriginStep, SentStep, AnsweredStep, Sent, Sent2
<1>2. ASSUME NEW d \in Devices, Reload(d) PROVE OriginStep
  <2>0. TypeOK /\ d \in Writers
    BY InWriters DEF WriteInv
  <2>1. /\ Applying(d) => req'[d].stage = "applying" /\ req'[d].ops = req[d].ops
        /\ ~Applying(d) => req'[d].ops = <<>>
        /\ \A v \in Writers \ {d} : req'[v] = req[v]
    BY <1>2, <2>0, ReloadEffect, NoReqTyped
  <2>2. SentStep(d) /\ AnsweredStep(d)
    BY <2>0, <2>1, SameReqOrigin, SameStageOrigin DEF Applying
  <2> QED BY <2>0, <2>1, <2>2, NoWriterAll, SameLogOrigin, SameQueueOrigin DEF OriginStep
<1> QED BY <1>1, <1>2

LEMMA Origin == WriteInv /\ [Next]_vars => OriginStep
<1> SUFFICES ASSUME WriteInv, [Next]_vars PROVE OriginStep
  OBVIOUS
<1>1. ASSUME NEW d \in Devices, Pull(d) PROVE OriginStep
  BY <1>1, PullFrame, OtherOrigin DEF serverVars
<1>2. ASSUME NEW d \in Devices, Reload(d) PROVE OriginStep
  BY <1>2, OtherOrigin DEF Reload
<1>3. CASE UNCHANGED vars
  BY <1>3, OtherOrigin DEF vars, serverVars, queueVars
<1> QED
  BY <1>1, <1>2, <1>3, LocalWriteOrigin, PushOrigin, ServerOrigin, ApiOrigin DEF Next

LEMMA OldStays ==
  ASSUME TypeOK, [Next]_vars, NEW o \in Ops, Old(o)
  PROVE  OldAfter(o)
<1>1. o.n \in Nat /\ (o.kind # "delete" => o.val.ts \in Nat /\ o.val.id \in Nat)
  BY DEF Ops, Old, Values
<1> QED BY <1>1, WritesGrow DEF Old, OldAfter

LEMMA WriteNext == WriteInv /\ [Next]_vars => WriteInv'
<1> SUFFICES ASSUME WriteInv, [Next]_vars PROVE WriteInv'
  OBVIOUS
<1>0. TypeOK /\ TypeOK' /\ OriginStep /\ writes \in Nat
  BY TypeNext, Origin, WritesGrow DEF WriteInv
<1>1. /\ \A k \in DOMAIN log : OldAfter(log[k].op)
      /\ \A w \in Writers : \A o \in Sent(w) : o \in Ops /\ OldAfter(o)
      /\ \A d \in Devices : \A o \in queue[d] : o \in Ops /\ OldAfter(o)
  <2>1. \A k \in DOMAIN log : OldAfter(log[k].op)
    BY <1>0, LogFacts, OldStays DEF WriteInv, AllOld
  <2>2. \A w \in Writers : \A o \in Sent(w) : o \in Ops
    BY <1>0, ReqFacts DEF Sent, ToSet
  <2>3. \A d \in Devices : \A o \in queue[d] : o \in Ops
    BY <1>0 DEF TypeOK
  <2> QED BY <1>0, <2>1, <2>2, <2>3, OldStays DEF WriteInv, AllOld
<1>2. AllOld'
  <2>1. \A w \in Writers : \A o \in Sent2(w) : OldAfter(o)
    BY <1>0, <1>1 DEF OriginStep, SentStep
  <2>2. \A d \in Devices : \A o \in queue'[d] : OldAfter(o)
    BY <1>0, <1>1 DEF OriginStep, QueueStep, Fresh
  <2>3. \A k \in DOMAIN log' : OldAfter(log'[k].op)
    BY <1>0, <1>1 DEF OriginStep, LogStep
  <2> QED BY <2>1, <2>2, <2>3 DEF AllOld, Old, OldAfter, Sent, Sent2
<1>3. OneByNumber'
  <2> SUFFICES ASSUME NEW d \in Devices, NEW o \in queue'[d] \cup Sent2(d),
                      NEW p \in queue'[d] \cup Sent2(d), o.n = p.n
               PROVE  o = p
    BY DEF OneByNumber, Sent, Sent2
  <2>0. d \in Writers /\ d \notin Apis
    BY InWriters, WriterAssumption
  <2>1. \A q \in queue'[d] \cup Sent2(d) :
          q \in queue[d] \cup Sent(d) \/ (Fresh(q) /\ q \in queue'[d])
    BY <1>0, <2>0 DEF OriginStep, QueueStep, SentStep
  <2>2. \A q \in queue[d] \cup Sent(d) : q.n # writes + 1
    <3>1. \A q \in queue[d] \cup Sent(d) : q.n <= writes /\ q.n \in Nat
      BY <1>1, <2>0 DEF WriteInv, AllOld, Old, Ops
    <3> QED BY <1>0, <3>1
  <2>3. \A q : Fresh(q) => q.n = writes + 1
    BY DEF Fresh
  <2>4. CASE Fresh(o) /\ o \in queue'[d]
    BY <1>0, <2>1, <2>2, <2>3, <2>4 DEF OriginStep, QueueStep
  <2>5. CASE Fresh(p) /\ p \in queue'[d]
    BY <1>0, <2>1, <2>2, <2>3, <2>5 DEF OriginStep, QueueStep
  <2>6. CASE o \in queue[d] \cup Sent(d) /\ p \in queue[d] \cup Sent(d)
    BY <2>6 DEF WriteInv, OneByNumber
  <2> QED BY <2>1, <2>4, <2>5, <2>6
<1>4. AnsweredLogged'
  <2> SUFFICES ASSUME NEW d \in Devices, req'[d].stage \in {"applying", "answered"},
                      NEW o \in Sent2(d)
               PROVE  \E k \in DOMAIN log' : log'[k].op = o
    BY DEF AnsweredLogged, Sent, Sent2
  <2>1. \/ req[d].stage \in {"applying", "answered"} /\ o \in Sent(d)
        \/ \E k \in DOMAIN log' : log'[k].op = o
    BY <1>0 DEF OriginStep, AnsweredStep
  <2>2. CASE req[d].stage \in {"applying", "answered"} /\ o \in Sent(d)
    <3>1. PICK k \in DOMAIN log : log[k].op = o
      BY <2>2 DEF WriteInv, AnsweredLogged
    <3> QED BY <1>0, <3>1 DEF OriginStep, LogStep
  <2> QED BY <2>1, <2>2
<1> QED BY <1>0, <1>2, <1>3, <1>4 DEF WriteInv

LEMMA WriteInit == Init => WriteInv
<1> SUFFICES ASSUME Init PROVE WriteInv
  OBVIOUS
<1>1. /\ TypeOK /\ log = <<>> /\ \A w \in Writers : req[w] = NoReq
      /\ \A d \in Devices : queue[d] = {}
  BY TypeInit DEF Init
<1>2. \A w \in Writers : Sent(w) = {} /\ req[w].stage = "idle"
  BY <1>1, NoReqTyped DEF Sent, ToSet
<1> QED BY <1>1, <1>2, InWriters DEF WriteInv, AllOld, OneByNumber, AnsweredLogged

LEMMA WritesKept == Spec => []WriteInv
BY WriteInit, WriteNext, PTL DEF Spec

\* An operation leaves the queue of a device only by another write of the user,
\* or when the server has it in the log, whatever races and whatever is lost
\* (pushBatch, deleteSentOps): nothing that was queued is dropped.
THEOREM NothingDropped == Spec => NoWriteDropped
<1> DEFINE Logged == writes' = writes =>
       \A d \in Devices : \A o \in queue[d] \ queue'[d] : \E k \in DOMAIN log : log[k].op = o
<1>1. ASSUME WriteInv, [Next]_vars PROVE [Logged]_vars
  <2>0. TypeOK
    BY <1>1 DEF WriteInv
  <2> SUFFICES ASSUME Next, writes' = writes, NEW e \in Devices, NEW o \in queue[e],
                      o \notin queue'[e]
               PROVE  \E k \in DOMAIN log : log[k].op = o
    BY <1>1 DEF vars, queueVars
  <2>1. ASSUME NEW d \in Devices, LocalWrite(d) PROVE FALSE
    <3>1. writes' # writes \/ UNCHANGED queue
      <4>1. ASSUME NEW t \in Stamps, Create(d, t) \/ Edit(d, t) PROVE writes' # writes
        BY <2>0, <4>1, WritesGrow, <1>1 DEF Create, Edit, Writing
      <4>2. CASE QueueDelete(d)
        BY <2>0, <4>2, WritesGrow, <1>1 DEF QueueDelete, Writing
      <4>3. CASE RemoveRow(d)
        BY <4>3 DEF RemoveRow
      <4> QED BY <2>1, <4>1, <4>2, <4>3 DEF LocalWrite
    <3> QED BY <3>1
  <2>2. ASSUME NEW d \in Devices, Push(d) PROVE \E k \in DOMAIN log : log[k].op = o
    <3>1. CASE Acknowledge(d)
      <4>1. e = d /\ req[d].stage = "answered" /\ \E p \in Sent(d) : o.n = p.n
        BY <2>0, <3>1, AcknowledgeEffect
      <4>2. o \in Sent(d)
        BY <1>1, <4>1 DEF WriteInv, OneByNumber
      <4> QED BY <1>1, <4>1, <4>2 DEF WriteInv, AnsweredLogged
    <3>2. CASE ~Acknowledge(d)
      BY <2>2, <3>2 DEF Push, Send, Insert, Answer, LosePush, queueVars
    <3> QED BY <3>1, <3>2
  <2>3. UNCHANGED queue => FALSE
    OBVIOUS
  <2>4. ASSUME NEW d \in Devices, Pull(d) \/ Reload(d) PROVE FALSE
    BY <2>3, <2>4, PullFrame DEF Reload
  <2>5. ASSUME NEW w \in Writers, Apply(w) PROVE FALSE
    BY <2>3, <2>5, ApplyFrame DEF queueVars
  <2>6. ASSUME NEW a \in Apis, ApiWrite(a) PROVE FALSE
    BY <2>3, <2>6, ApiFrame DEF queueVars
  <2> QED BY <2>1, <2>2, <2>4, <2>5, <2>6 DEF Next
<1> QED BY <1>1, WritesKept, PTL DEF Spec, NoWriteDropped, Logged

-----------------------------------------------------------------------------
(* Nothing races: the server *)

LEMMA NothingDoneNext ==
  ASSUME TypeOK, NothingDone, [Next]_vars
  PROVE  NothingDone'
<1> DEFINE Good(w) == ~Applying(w) => /\ req[w].done = {} /\ DOMAIN req[w].seen = {}
                                      /\ req[w].stage = "sent" => req[w].ops # <<>>
<1>0. \A w \in Writers : Good(w)
  BY DEF NothingDone
<1> SUFFICES \A w \in Writers : Good(w)'
  BY DEF NothingDone
<1>1. ASSUME NEW w \in Writers, Good(w)', \A v \in Writers \ {w} : req'[v] = req[v]
      PROVE  \A v \in Writers : Good(v)'
  BY <1>0, <1>1 DEF Applying
<1>2. CASE UNCHANGED req
  BY <1>0, <1>2 DEF Applying
<1> HIDE DEF Good
<1>3. ASSUME NEW w \in Writers, req'[w] = NoReq PROVE Good(w)'
  BY <1>3, NoReqTyped DEF Good
<1>4. ASSUME NEW d \in Devices, Push(d) PROVE \A w \in Writers : Good(w)'
  <2>0. d \in Writers
    BY InWriters
  <2>1. CASE Send(d)
    <3>1. req'[d].done = {} /\ DOMAIN req'[d].seen = {} /\ req'[d].ops # <<>>
          /\ \A v \in Writers \ {d} : req'[v] = req[v]
      BY <2>1, SendEffect
    <3> QED BY <1>1, <2>0, <3>1 DEF Good
  <2>2. CASE Insert(d)
    <3>1. Applying(d)' /\ \A v \in Writers \ {d} : req'[v] = req[v]
      BY <2>2, InsertEffect DEF Applying
    <3> QED BY <1>1, <2>0, <3>1 DEF Good
  <2>3. CASE Answer(d)
    <3>1. /\ req'[d].stage \in {"idle", "answered"} /\ req'[d].done = {}
          /\ DOMAIN req'[d].seen = {} /\ \A v \in Writers \ {d} : req'[v] = req[v]
      BY <2>3, AnswerEffect
    <3> QED BY <1>1, <2>0, <3>1 DEF Good
  <2>4. CASE Acknowledge(d) \/ LosePush(d)
    <3>1. req'[d] = NoReq /\ \A v \in Writers \ {d} : req'[v] = req[v]
      BY <2>4, AcknowledgeEffect, LoseEffect
    <3> QED BY <1>1, <1>3, <2>0, <3>1
  <2> QED BY <1>4, <2>1, <2>2, <2>3, <2>4 DEF Push
<1>5. ASSUME NEW w \in Writers, Apply(w) PROVE \A v \in Writers : Good(v)'
  <2>1. PICK i \in DOMAIN req[w].ops : ReadRow(w, i) \/ WriteRow(w, i)
    BY <1>5 DEF Apply
  <2>2. Applying(w)' /\ \A v \in Writers \ {w} : req'[v] = req[v]
    <3>1. CASE ReadRow(w, i)
      BY <3>1, ReadEffect DEF Applying
    <3>2. CASE WriteRow(w, i)
      BY <3>2, WriteEffect DEF Applying
    <3> QED BY <2>1, <3>1, <3>2
  <2> QED BY <1>1, <2>2 DEF Good
<1>6. ASSUME NEW a \in Apis, ApiWrite(a) PROVE \A w \in Writers : Good(w)'
  <2>0. a \in Writers
    BY InWriters
  <2>1. ASSUME NEW t \in Stamps, NEW kind \in Kinds, ApiBegin(a, t, kind)
        PROVE  \A w \in Writers : Good(w)'
    <3>1. Applying(a)' /\ \A v \in Writers \ {a} : req'[v] = req[v]
      BY <2>1, ApiBeginEffect DEF Applying
    <3> QED BY <1>1, <2>0, <3>1 DEF Good
  <2>2. CASE ApiLog(a)
    <3>1. req'[a] = NoReq /\ \A v \in Writers \ {a} : req'[v] = req[v]
      BY <2>2, ApiLogEffect
    <3> QED BY <1>1, <1>3, <2>0, <3>1
  <2> QED BY <1>6, <2>1, <2>2 DEF ApiWrite, Kinds
<1>7. ASSUME NEW d \in Devices, Reload(d) PROVE \A w \in Writers : Good(w)'
  <2>0. d \in Writers
    BY InWriters
  <2>1. \A v \in Writers \ {d} : req'[v] = req[v]
    BY <1>7, ReloadEffect
  <2>2. Good(d)'
    <3>1. CASE Applying(d)
      BY <1>7, <3>1, ReloadEffect DEF Good, Applying
    <3>2. CASE ~Applying(d)
      BY <1>3, <1>7, <2>0, <3>2, ReloadEffect
    <3> QED BY <3>1, <3>2
  <2> QED BY <1>1, <2>0, <2>1, <2>2
<1>8. ASSUME NEW d \in Devices, LocalWrite(d) \/ Pull(d) PROVE \A w \in Writers : Good(w)'
  BY <1>2, <1>8, LocalWriteFrame, PullFrame DEF serverVars
<1>9. CASE UNCHANGED vars
  BY <1>2, <1>9 DEF vars, serverVars
<1> QED BY <1>4, <1>5, <1>6, <1>7, <1>8, <1>9 DEF Next

\* The rest of ServerInv, which no step breaks that leaves the applying
\* requests, the row and the log alone.
ServerRest == OneApplies /\ InOrder /\ AtTheEnd /\ DeletesApply /\ NothingAfter
              /\ ServerDead /\ ServerWinner

SameProgress(w) ==
  /\ Applying(w)' <=> Applying(w)
  /\ Applying(w) => /\ req'[w].ops = req[w].ops /\ req'[w].done = req[w].done
                    /\ req'[w].skipped = req[w].skipped /\ req'[w].at = req[w].at

SameWork(w) == SameProgress(w) /\ (Applying(w) => req'[w].seen = req[w].seen)

LEMMA ProgressFrame ==
  ASSUME ServerRest, UNCHANGED <<row, log>>, \A w \in Writers : SameProgress(w), InOrder'
  PROVE  ServerRest'
<1>0. /\ \A w \in Writers : SameProgress(w)
      /\ \A d \in Devices : SameProgress(d)
      /\ \A a \in Apis : SameProgress(a)
  BY InWriters
<1>1. /\ \A k \in DOMAIN log : Landed(k)' <=> Landed(k)
      /\ AllLanded' = AllLanded
  <2>1. \A k : Landed(k)' <=> Landed(k)
    BY <1>0 DEF Landed, SameProgress
  <2> QED BY <2>1 DEF AllLanded
<1>2. /\ \A k \in DOMAIN log : Unmarked(k)' <=> Unmarked(k)
  BY <1>0 DEF Unmarked, SameProgress, Applying
<1>3. /\ Dead' <=> Dead
      /\ \A k \in DOMAIN log : (AfterDeletes(k)' <=> AfterDeletes(k)) /\ (IsDelete(k)' <=> IsDelete(k))
  BY DEF Dead, AfterDeletes, IsDelete
<1>4. OneApplies'
  BY <1>0 DEF ServerRest, OneApplies, SameProgress
<1>6. AtTheEnd'
  BY <1>0 DEF ServerRest, AtTheEnd, SameProgress
<1>7. DeletesApply'
  BY DEF ServerRest, DeletesApply, IsDelete
<1>8. NothingAfter'
  BY <1>2, <1>3 DEF ServerRest, NothingAfter
<1>9. ServerDead'
  <2>1. (row # None => \E k \in DOMAIN log : IsDelete(k) /\ ~Landed(k))
        => (row' # None => \E k \in DOMAIN log' : IsDelete(k)' /\ ~Landed(k)')
    BY <1>1, <1>3
  <2>2. \A k : AfterDeletes(k)' <=> AfterDeletes(k)
    BY DEF AfterDeletes, IsDelete
  <2> QED BY <1>0, <1>3, <2>1, <2>2 DEF ServerRest, ServerDead, SameProgress
<1>10. ServerWinner'
  <2>1. \A S : Winner(row, S)' <=> Winner(row, S)
    BY DEF Winner
  <2>2. /\ Winner(row, AllLanded)' <=> Winner(row, AllLanded)
        /\ Winner(row, DOMAIN log)' <=> Winner(row, DOMAIN log)
    BY <1>1 DEF Winner
  <2>3. (\A a \in Apis : Applying(a)' => req'[a].done = {}) <=>
        (\A a \in Apis : Applying(a) => req[a].done = {})
    BY <1>0 DEF SameProgress
  <2> QED BY <1>0, <1>3, <2>2, <2>3 DEF ServerRest, ServerWinner, SameProgress
<1> QED BY <1>4, <1>6, <1>7, <1>8, <1>9, <1>10 DEF ServerRest

LEMMA ServerFrame ==
  ASSUME ServerRest, UNCHANGED <<row, log>>, \A w \in Writers : SameWork(w)
  PROVE  ServerRest'
<1>1. InOrder'
  BY DEF ServerRest, InOrder, SameWork, SameProgress
<1> QED BY <1>1, ProgressFrame DEF SameWork

LEMMA SameReqWork ==
  ASSUME NEW w \in Writers, req'[w] = req[w]
  PROVE  SameWork(w)
BY DEF SameWork, SameProgress, Applying

LEMMA IdleWork ==
  ASSUME NEW w \in Writers, ~Applying(w), ~(req'[w].stage = "applying")
  PROVE  SameWork(w)
BY DEF SameWork, SameProgress, Applying

\* The steps of which this is all there is to say.
LEMMA ServerQuietStep ==
  ASSUME TypeOK, ServerRest,
         \/ \E d \in Devices : \/ LocalWrite(d) \/ Pull(d) \/ Reload(d)
                               \/ Send(d) \/ Acknowledge(d) \/ LosePush(d)
         \/ UNCHANGED vars
  PROVE  ServerRest'
<1>1. ASSUME UNCHANGED <<row, log, req>> PROVE ServerRest'
  BY <1>1, SameReqWork, ServerFrame
<1>2. ASSUME NEW d \in Devices, UNCHANGED <<row, log>>, \A v \in Writers \ {d} : req'[v] = req[v],
             SameWork(d)
      PROVE  ServerRest'
  BY <1>2, SameReqWork, ServerFrame
<1>3. ASSUME NEW d \in Devices, LocalWrite(d) \/ Pull(d) PROVE ServerRest'
  BY <1>1, <1>3, LocalWriteFrame, PullFrame DEF serverVars
<1>4. ASSUME NEW d \in Devices, Reload(d) PROVE ServerRest'
  <2>1. SameWork(d)
    <3>1. CASE Applying(d)
      BY <1>4, <3>1, ReloadEffect DEF SameWork, SameProgress, Applying
    <3>2. CASE ~Applying(d)
      BY <1>4, <3>2, ReloadEffect, NoReqTyped DEF SameWork, SameProgress, Applying
    <3> QED BY <3>1, <3>2
  <2> QED BY <1>2, <1>4, <2>1, ReloadEffect
<1>5. ASSUME NEW d \in Devices, Send(d) PROVE ServerRest'
  <2>1. /\ req[d].stage = "idle" /\ req'[d].stage = "sent" /\ UNCHANGED <<row, log>>
        /\ \A v \in Writers \ {d} : req'[v] = req[v]
    BY <1>5, SendEffect
  <2> QED BY <1>2, <2>1, IdleWork, InWriters DEF Applying
<1>6. ASSUME NEW d \in Devices, Acknowledge(d) \/ LosePush(d) PROVE ServerRest'
  <2>1. /\ req[d].stage \in {"sent", "answered"} /\ req'[d] = NoReq /\ UNCHANGED <<row, log>>
        /\ \A v \in Writers \ {d} : req'[v] = req[v]
    BY <1>6, AcknowledgeEffect, LoseEffect
  <2> QED BY <1>2, <2>1, IdleWork, InWriters, NoReqTyped DEF Applying
<1> QED BY <1>1, <1>3, <1>4, <1>5, <1>6 DEF vars, serverVars

LEMMA Solitary ==
  ASSUME Races = {}, NEW w \in Writers, Alone(w)
  PROVE  \A v \in Writers \ {w} : ~Applying(v)
BY DEF Alone, Applying

LEMMA NobodyApplies ==
  ASSUME \A d \in Devices : ~Applying(d)
  PROVE  /\ \A k : Landed(k)
         /\ AllLanded = DOMAIN log
BY DEF Landed, AllLanded

LEMMA DeadStays == ASSUME WriteInv, [Next]_vars PROVE Dead => Dead'
BY Origin DEF OriginStep, LogStep, Dead, IsDelete

\* IsDelete and Landed in the next state, of a place given in this one.
Deleting(k) == log'[k].op.kind = "delete"
Landing(k) == \A d \in Devices : Applying(d)' =>
  \A i \in DOMAIN req'[d].ops \ req'[d].done : k # req'[d].at + i

LEMMA InsertServer ==
  ASSUME ReplicaInv, Races = {}, NEW d \in Devices, Insert(d)
  PROVE  ServerRest'
<1> DEFINE n0 == Len(log)
           m == Len(req[d].ops)
<1>0. TypeOK /\ d \in Writers /\ ServerRest /\ d \notin Apis
  BY InWriters, WriterAssumption DEF ReplicaInv, WriteInv, ServerInv, ServerRest
<1>1. /\ req[d].stage = "sent" /\ Alone(d) /\ ~Recreates(d)
      /\ Len(log') = n0 + m /\ DOMAIN log' = 1..Len(log')
      /\ \A k \in DOMAIN log : log'[k] = log[k]
      /\ \A i \in DOMAIN req[d].ops :
           log'[n0 + i] = [op |-> req[d].ops[i], applied |-> TRUE]
      /\ req'[d].stage = "applying" /\ req'[d].at = n0 /\ req'[d].ops = req[d].ops
      /\ req'[d].done = req[d].done /\ req'[d].skipped = req[d].skipped
      /\ req'[d].seen = req[d].seen
      /\ \A v \in Writers \ {d} : req'[v] = req[v]
      /\ UNCHANGED row
  BY <1>0, InsertEffect
<1>2. n0 \in Nat /\ DOMAIN log = 1..n0 /\ m \in Nat /\ DOMAIN req[d].ops = 1..m /\ m > 0
      /\ req'[d].done = {} /\ DOMAIN req'[d].seen = {} /\ req'[d].skipped = {}
      /\ req[d].ops # <<>>
  <2>1. /\ n0 \in Nat /\ DOMAIN log = 1..n0 /\ m \in Nat /\ DOMAIN req[d].ops = 1..m
        /\ req[d].skipped \subseteq req[d].done /\ req[d].ops \in Seq(Ops)
    BY <1>0, ReqFacts, LogFacts
  <2>2. req[d].done = {} /\ DOMAIN req[d].seen = {} /\ req[d].ops # <<>>
    BY <1>0, <1>1 DEF ReplicaInv, ServerInv, NothingDone, Applying
  <2>3. m > 0
    BY <2>1, <2>2
  <2> QED BY <1>1, <2>1, <2>2, <2>3
<1>3. \A w \in Writers : ~Applying(w) /\ (Applying(w)' <=> w = d)
  BY <1>0, <1>1, Solitary DEF Applying
<1>4. \A k \in DOMAIN log' : k \in DOMAIN log \/ \E i \in DOMAIN req[d].ops : k = n0 + i
  <2> SUFFICES ASSUME NEW k \in DOMAIN log', k \notin DOMAIN log
               PROVE  \E i \in DOMAIN req[d].ops : k = n0 + i
    OBVIOUS
  <2>1. k - n0 \in DOMAIN req[d].ops /\ k = n0 + (k - n0)
    BY <1>1, <1>2
  <2> QED BY <2>1
<1>5. \A i \in DOMAIN req[d].ops : n0 + i \in DOMAIN log' /\ n0 + i \notin DOMAIN log
  BY <1>1, <1>2
<1>6. \A i \in DOMAIN req[d].ops : log'[n0 + i].op = req[d].ops[i] /\ log'[n0 + i].applied
  <2> TAKE i \in DOMAIN req[d].ops
  <2>1. log'[n0 + i] = [op |-> req[d].ops[i], applied |-> TRUE]
    BY <1>1
  <2> QED BY <2>1
<1> HIDE DEF n0, m
<1>7. /\ \A k \in DOMAIN log : Deleting(k) <=> IsDelete(k)
      /\ \A i \in DOMAIN req[d].ops : Deleting(n0 + i) <=> req[d].ops[i].kind = "delete"
      /\ DOMAIN log \subseteq DOMAIN log'
  <2>1. DOMAIN log \subseteq DOMAIN log'
    BY <1>1, <1>2 DEF n0
  <2> QED BY <1>1, <1>6, <2>1 DEF IsDelete, Deleting
<1>8. /\ \A k \in DOMAIN log : Landing(k)
      /\ \A i \in DOMAIN req[d].ops : ~Landing(n0 + i)
  <2>1. \A k : Landing(k) <=> \A i \in DOMAIN req[d].ops : k # n0 + i
    BY <1>0, <1>1, <1>2, <1>3, InWriters DEF Landing, Applying
  <2> QED BY <1>5, <2>1
<1>9. OneApplies'
  BY <1>3 DEF OneApplies
<1>10. InOrder'
  BY <1>0, <1>1, <1>2, <1>3 DEF InOrder
<1>11. AtTheEnd'
  <2>1. n0 + m = Len(log')
    BY <1>1
  <2> QED BY ZenonT(30), <1>1, <1>3, <2>1, InWriters DEF AtTheEnd, n0, m
<1>12. DeletesApply'
  BY <1>0, <1>1, <1>4, <1>6, <1>7 DEF DeletesApply, ServerRest, IsDelete, Deleting
<1>13. NothingAfter'
  <2> SUFFICES ASSUME Dead', NEW k \in DOMAIN log', AfterDeletes(k)', log'[k].applied
               PROVE  log'[k].op.kind = "update" /\ Unmarked(k)'
    BY DEF NothingAfter
  <2>0. k \in Nat /\ \A j \in DOMAIN log' : j \in Nat
    BY <1>1, <1>2
  <2>1. CASE k \in DOMAIN log
    <3>1. \A i \in DOMAIN req[d].ops : ~(n0 + i < k)
      BY <1>2, <2>1
    <3>2. \A i \in DOMAIN req[d].ops : req[d].ops[i].kind # "delete"
      BY <1>5, <1>7, <3>1 DEF AfterDeletes, IsDelete, Deleting
    <3>3. Dead
      BY <1>4, <1>7, <3>2 DEF Dead, IsDelete, Deleting
    <3>4. AfterDeletes(k)
      BY <1>7 DEF AfterDeletes, IsDelete, Deleting
    <3>5. Unmarked(k)
      BY <1>0, <1>1, <2>1, <3>3, <3>4 DEF ServerRest, NothingAfter
    <3> QED BY <1>3, <3>5, InWriters DEF Unmarked, Applying
  <2>2. CASE k \notin DOMAIN log
    <3>1. PICK i \in DOMAIN req[d].ops : k = n0 + i
      BY <1>4, <2>2
    <3>2. log'[k].op = req[d].ops[i]
      BY <1>6, <3>1
    <3>3. req[d].ops[i].kind # "delete"
      <4>1. ~Deleting(k)
        BY <2>0 DEF AfterDeletes, IsDelete, Deleting
      <4> QED BY <1>7, <3>1, <4>1
    <3>4. \A j \in DOMAIN req[d].ops : req[d].ops[j].kind = "delete" => j < i
      <4>1. \A j \in DOMAIN req[d].ops : req[d].ops[j].kind = "delete" => n0 + j < n0 + i
        BY <1>5, <1>7, <3>1 DEF AfterDeletes, IsDelete, Deleting
      <4> QED BY <1>2, <4>1
    <3>5. req[d].ops[i].kind # "create"
      <4> SUFFICES ASSUME req[d].ops[i].kind = "create" PROVE FALSE
        OBVIOUS
      <4>1. CASE Dead
        <5>1. \E e \in ToSet(log) : e.op.kind = "delete"
          BY <4>1 DEF Dead, IsDelete, ToSet
        <5>2. \E o \in ToSet(req[d].ops) : o.kind = "create"
          BY DEF ToSet
        <5>3. req[d].ops[m].kind = "delete"
          BY <1>1, <5>1, <5>2 DEF Recreates, Last, m
        <5> QED BY <1>2, <3>4, <5>3
      <4>2. CASE ~Dead
        <5>1. PICK j \in DOMAIN req[d].ops : req[d].ops[j].kind = "delete"
          BY <1>4, <1>7, <4>2 DEF Dead, IsDelete, Deleting
        <5>2. i < j
          BY <1>1, <4>2, <5>1 DEF ReplicaInv, QueueInv, QueueOrder
        <5> QED BY <1>2, <3>4, <5>1, <5>2
      <4> QED BY <4>1, <4>2
    <3>6. log'[k].op.kind = "update"
      BY <1>0, <3>2, <3>3, <3>5, ReqFacts DEF Ops, Kinds
    <3>7. k \in (n0 + 1)..(n0 + m)
      BY <1>2, <3>1
    <3>8. Unmarked(k)'
      BY <1>1, <3>6, <3>7 DEF Unmarked, m
    <3> QED BY <3>6, <3>8
  <2> QED BY <2>1, <2>2
<1>14. ServerDead'
  <2> SUFFICES ASSUME Dead'
               PROVE  row' # None => \E k \in DOMAIN log' : Deleting(k) /\ ~Landing(k)
    BY <1>0, <1>2, <1>3, InWriters DEF ServerDead, IsDelete, Deleting, Landed, Landing
  <2>1. CASE \E i \in DOMAIN req[d].ops : req[d].ops[i].kind = "delete"
    BY <1>5, <1>7, <1>8, <2>1
  <2>2. CASE ~ \E i \in DOMAIN req[d].ops : req[d].ops[i].kind = "delete"
    <3>1. Dead
      BY <1>4, <1>7, <2>2 DEF Dead, IsDelete, Deleting
    <3>2. row = None
      BY <1>0, <1>3, <3>1, NobodyApplies, InWriters DEF ServerRest, ServerDead
    <3> QED BY <1>1, <3>2
  <2> QED BY <2>1, <2>2
<1>15. ServerWinner'
  <2> SUFFICES ASSUME ~Dead' PROVE ServerWinner'
    BY DEF ServerWinner
  <2>1. ~Dead
    BY <1>7 DEF Dead, IsDelete, Deleting
  <2>2. \A k \in DOMAIN log' : log'[k].applied
    BY <1>0, <1>1, <1>4, <1>6, <2>1 DEF ServerRest, ServerWinner
  <2>3. log'[1].op.kind = "create"
    <3>1. CASE log = <<>>
      <4>1. n0 = 0
        BY <3>1 DEF n0
      <4>2. 1 \in DOMAIN req[d].ops /\ log'[1].op = req[d].ops[1]
        BY <1>2, <1>6, <4>1
      <4>3. req[d].ops[1].kind # "delete"
        <5>1. ~Deleting(n0 + 1)
          BY <1>5, <4>2 DEF Dead, IsDelete, Deleting
        <5> QED BY <1>7, <4>2, <5>1
      <4>4. req[d].ops[1].kind # "update"
        <5>1. req[d].ops[1] \in Sent(d)
          BY <4>2 DEF Sent, ToSet
        <5> QED BY <1>1, <2>1, <3>1, <5>1 DEF ReplicaInv, QueueInv, CreateFirst
      <4> QED BY <1>0, <4>2, <4>3, <4>4, ReqFacts DEF Ops, Kinds
    <3>2. CASE log # <<>>
      <4>1. log[1].op.kind = "create"
        BY <1>0, <2>1, <3>2 DEF ServerRest, ServerWinner
      <4>2. 1 \in DOMAIN log
        BY <1>0, <3>2, LogFacts
      <4> QED BY <1>1, <4>1, <4>2
    <3> QED BY <3>1, <3>2
  <2>4. Winner(row, AllLanded)'
    <3>1. AllLanded = DOMAIN log
      BY <1>3, NobodyApplies, InWriters
    <3>2. AllLanded' = DOMAIN log
      <4>1. AllLanded' = {k \in DOMAIN log' : Landing(k)}
        BY DEF AllLanded, Landed, Landing
      <4> QED BY <1>4, <1>7, <1>8, <4>1
    <3>3. Winner(row, DOMAIN log)
      BY <1>0, <1>3, <2>1, <3>1, InWriters DEF ServerRest, ServerWinner
    <3> QED BY <1>1, <3>2, <3>3 DEF Winner
  <2> QED BY <1>0, <1>2, <1>3, <2>2, <2>3, <2>4, InWriters DEF ServerWinner
<1> QED BY <1>9, <1>10, <1>11, <1>12, <1>13, <1>14, <1>15 DEF ServerRest

\* The applying requests and the places of the log that are through.
LEMMA LandedOf ==
  ASSUME OneApplies, NEW d \in Devices, Applying(d)
  PROVE  \A k : Landed(k) <=> \A i \in DOMAIN req[d].ops \ req[d].done : k # req[d].at + i
<1>1. \A e \in Devices : Applying(e) => e = d
  BY InWriters DEF OneApplies
<1> QED BY <1>1 DEF Landed

LEMMA AnswerServer ==
  ASSUME ReplicaInv, Races = {}, NEW d \in Devices, Answer(d)
  PROVE  ServerRest'
<1>0. TypeOK /\ d \in Writers /\ ServerRest /\ d \notin Apis
  BY InWriters, WriterAssumption DEF ReplicaInv, WriteInv, ServerInv, ServerRest
<1>1. /\ Applying(d) /\ req[d].done = DOMAIN req[d].ops
      /\ Len(log') = Len(log) /\ DOMAIN log' = DOMAIN log
      /\ \A k \in DOMAIN log : log'[k].op = log[k].op /\ log'[k].applied =
           (log[k].applied /\ \A i \in req[d].skipped : k # req[d].at + i)
      /\ \A k \in DOMAIN log : (\A i \in req[d].skipped : k # req[d].at + i) => log'[k] = log[k]
      /\ req'[d].stage \in {"idle", "answered"}
      /\ \A v \in Writers \ {d} : req'[v] = req[v]
      /\ UNCHANGED row
  BY <1>0, AnswerEffect
<1>2. \A w \in Writers : (Applying(w) => w = d) /\ ~Applying(w)'
  <2>1. \A w \in Writers : Applying(w) => w = d
    BY <1>0, <1>1 DEF ServerRest, OneApplies
  <2> QED BY <1>1, <2>1 DEF Applying
<1>3. /\ \A k : Landed(k) /\ Landing(k)
      /\ AllLanded = DOMAIN log /\ AllLanded' = DOMAIN log
  <2>1. \A k : Landed(k)
    BY <1>0, <1>1, LandedOf DEF ServerRest
  <2>2. \A k : Landing(k)
    BY <1>2, InWriters DEF Landing
  <2>3. AllLanded' = {k \in DOMAIN log' : Landing(k)}
    BY DEF AllLanded, Landed, Landing
  <2> QED BY <1>1, <2>1, <2>2, <2>3 DEF AllLanded
<1>4. \A k \in DOMAIN log : Deleting(k) <=> IsDelete(k)
  BY <1>1 DEF Deleting, IsDelete
<1>5. \A i \in req[d].skipped : req[d].ops[i].kind = "update"
  BY <1>0, <1>1 DEF ServerRest, InOrder
<1>6. \A i \in DOMAIN req[d].ops :
        /\ req[d].at + i \in DOMAIN log /\ log[req[d].at + i].op = req[d].ops[i]
  <2>1. /\ req[d].at + Len(req[d].ops) = Len(log) /\ DOMAIN log = 1..Len(log)
        /\ \A i \in DOMAIN req[d].ops :
             log[req[d].at + i] = [op |-> req[d].ops[i], applied |-> TRUE]
    BY <1>0, <1>1, LogFacts DEF ServerRest, AtTheEnd
  <2> TAKE i \in DOMAIN req[d].ops
  <2>2. log[req[d].at + i] = [op |-> req[d].ops[i], applied |-> TRUE]
    BY <2>1
  <2>3. log[req[d].at + i].op = req[d].ops[i]
    BY <2>2
  <2>4. req[d].at + i \in DOMAIN log
    <3>1. /\ req[d].at \in Nat /\ Len(req[d].ops) \in Nat /\ Len(log) \in Nat
          /\ DOMAIN req[d].ops = 1..Len(req[d].ops)
      BY <1>0, ReqFacts, LogFacts
    <3> QED BY <2>1, <3>1
  <2> QED BY <2>3, <2>4
<1>7. OneApplies' /\ InOrder' /\ AtTheEnd'
  BY <1>2, InWriters DEF OneApplies, InOrder, AtTheEnd
<1>8. DeletesApply'
  <2> SUFFICES ASSUME NEW k \in DOMAIN log, IsDelete(k) PROVE log'[k].applied
    BY <1>1, <1>4 DEF DeletesApply, IsDelete, Deleting
  <2>1. log[k].applied
    BY <1>0 DEF ServerRest, DeletesApply
  <2>2. \A i \in req[d].skipped : k # req[d].at + i
    BY <1>0, <1>5, <1>6, ReqFacts DEF IsDelete
  <2> QED BY <1>1, <2>1, <2>2
<1>9. NothingAfter'
  <2> SUFFICES ASSUME Dead', NEW k \in DOMAIN log', AfterDeletes(k)', log'[k].applied
               PROVE  FALSE
    BY DEF NothingAfter
  <2>1. k \in DOMAIN log /\ Dead /\ AfterDeletes(k) /\ log[k].applied
        /\ \A i \in req[d].skipped : k # req[d].at + i
    <3>1. Dead
      BY <1>1, <1>4 DEF Dead, IsDelete, Deleting
    <3>2. AfterDeletes(k)
      BY <1>1, <1>4 DEF AfterDeletes, IsDelete, Deleting
    <3> QED BY <1>1, <3>1, <3>2
  <2>2. log[k].op.kind = "update" /\ Unmarked(k)
    BY <1>0, <2>1 DEF ServerRest, NothingAfter
  <2>3. k \in (req[d].at + 1)..(req[d].at + Len(req[d].ops))
    BY <1>2, <2>2, InWriters DEF Unmarked, Applying
  <2>4. PICK i \in DOMAIN req[d].ops : k = req[d].at + i
    <3>1. k - req[d].at \in DOMAIN req[d].ops /\ k = req[d].at + (k - req[d].at)
      BY <1>0, <2>3, ReqFacts
    <3> QED BY <3>1
  <2>5. req[d].ops[i].kind = "update" /\ i \in req[d].done
    BY <1>1, <1>6, <2>2, <2>4
  <2>6. i \in req[d].skipped
    BY <1>0, <1>1, <2>1, <2>4, <2>5 DEF ServerRest, ServerDead
  <2> QED BY <2>1, <2>4, <2>6
<1>10. ServerDead'
  <2>1. Dead' => Dead
    BY <1>1, <1>4 DEF Dead, IsDelete, Deleting
  <2>2. Dead => row = None
    BY <1>0, <1>3 DEF ServerRest, ServerDead
  <2> QED BY <1>1, <1>2, <2>1, <2>2, InWriters DEF ServerDead
<1>11. ServerWinner'
  <2> SUFFICES ASSUME ~Dead' PROVE ServerWinner'
    BY DEF ServerWinner
  <2>1. ~Dead
    BY <1>1, <1>4 DEF Dead, IsDelete, Deleting
  <2>2. req[d].skipped = {} /\ (log # <<>> => log[1].op.kind = "create")
        /\ \A k \in DOMAIN log : log[k].applied
    BY <1>0, <1>1, <2>1 DEF ServerRest, ServerWinner
  <2>3. \A k \in DOMAIN log : log'[k] = log[k]
    BY <1>1, <2>2
  <2>4. log' # <<>> => 1 \in DOMAIN log
    BY <1>0, <1>1, LogFacts
  <2>5. Winner(row, DOMAIN log)
    <3>1. \A a \in Apis : ~Applying(a)
      BY <1>0, <1>2, InWriters
    <3> QED BY <1>0, <1>3, <2>1, <3>1 DEF ServerRest, ServerWinner
  <2>6. Winner(row, AllLanded)'
    BY <1>1, <1>3, <2>3, <2>5 DEF Winner
  <2> QED BY <1>1, <1>2, <2>2, <2>3, <2>4, <2>6, InWriters DEF ServerWinner
<1> QED BY <1>7, <1>8, <1>9, <1>10, <1>11 DEF ServerRest

LEMMA ReadServer ==
  ASSUME ReplicaInv, Races = {}, NEW w \in Writers, NEW i \in DOMAIN req[w].ops, ReadRow(w, i)
  PROVE  ServerRest'
<1>0. TypeOK /\ ServerRest
  BY DEF ReplicaInv, WriteInv, ServerInv, ServerRest
<1>1. /\ Applying(w) /\ Startable(w, i) /\ i \notin req[w].done
      /\ DOMAIN req'[w].seen = DOMAIN req[w].seen \cup {i} /\ req'[w].seen[i] = row
      /\ \A j \in DOMAIN req[w].seen : req'[w].seen[j] = req[w].seen[j]
      /\ req'[w].stage = req[w].stage /\ req'[w].ops = req[w].ops
      /\ req'[w].done = req[w].done /\ req'[w].skipped = req[w].skipped
      /\ req'[w].at = req[w].at
      /\ \A v \in Writers \ {w} : req'[v] = req[v]
      /\ UNCHANGED <<row, log>>
  BY <1>0, ReadEffect
<1>2. InOrder'
  <2>1. \A j \in 1..(i - 1) : j \in req[w].done
    BY <1>1 DEF Startable
  <2>2. \A v \in Writers : Applying(v)' => Applying(v)
    BY <1>1 DEF Applying
  <2>3. \A j \in req'[w].done \cup DOMAIN req'[w].seen : \A l \in 1..(j - 1) : l \in req'[w].done
    BY <1>0, <1>1, <2>1 DEF ServerRest, InOrder
  <2>4. \A j \in DOMAIN req'[w].seen \ req'[w].done : req'[w].seen[j] = row'
    BY <1>0, <1>1 DEF ServerRest, InOrder
  <2>5. /\ \A j \in req'[w].skipped : req'[w].ops[j].kind = "update"
        /\ req'[w].ops # <<>>
        /\ w \in Apis => Len(req'[w].ops) = 1
    BY <1>0, <1>1 DEF ServerRest, InOrder
  <2>6. ASSUME NEW v \in Writers \ {w}, Applying(v)'
        PROVE  /\ \A j \in req'[v].done \cup DOMAIN req'[v].seen :
                    \A l \in 1..(j - 1) : l \in req'[v].done
               /\ \A j \in DOMAIN req'[v].seen \ req'[v].done : req'[v].seen[j] = row'
               /\ \A j \in req'[v].skipped : req'[v].ops[j].kind = "update"
               /\ req'[v].ops # <<>>
               /\ v \in Apis => Len(req'[v].ops) = 1
    BY <1>0, <1>1, <2>2, <2>6 DEF ServerRest, InOrder
  <2> QED BY <2>3, <2>4, <2>5, <2>6 DEF InOrder
<1>3. \A v \in Writers : SameProgress(v)
  BY <1>1 DEF SameProgress, Applying
<1> QED BY <1>0, <1>1, <1>2, <1>3, ProgressFrame

\* What a request writes, it writes on the row it saw, which is still there.
LEMMA WriteInOrder ==
  ASSUME TypeOK, ServerRest, Races = {},
         NEW w \in Writers, NEW i \in DOMAIN req[w].ops, WriteRow(w, i)
  PROVE  LET op == req[w].ops[i]
             missing == op.kind = "update" /\ row = None
         IN  /\ Applying(w) /\ i \notin req[w].done
             /\ \A j \in 1..(i - 1) : j \in req[w].done
             /\ \A j \in req[w].done : j < i
             /\ op.kind # "delete" => req[w].seen[i] = row
             /\ row' = IF op.kind = "delete" THEN None
                       ELSE IF ~missing /\ Wins(row, op.val) THEN op.val ELSE row
             /\ op.kind # "delete" /\ missing => i \in req'[w].skipped
             /\ op.kind # "delete" => req'[w].skipped = IF missing THEN req[w].skipped \cup {i}
                                                        ELSE req[w].skipped
             /\ op.kind = "delete" => req'[w].skipped = req[w].skipped
<1> DEFINE op == req[w].ops[i]
           missing == op.kind = "update" /\ req[w].seen[i] = None
<1>1. /\ Applying(w) /\ i \notin req[w].done
      /\ op.kind = "delete" => Startable(w, i) /\ row' = None
      /\ op.kind # "delete" =>
           /\ i \in DOMAIN req[w].seen
           /\ row' = IF ~missing /\ Wins(req[w].seen[i], op.val) THEN op.val ELSE row
      /\ req'[w].skipped = IF missing THEN req[w].skipped \cup {i} ELSE req[w].skipped
  BY WriteEffect
<1>2. op.kind # "delete" => req[w].seen[i] = row
  BY <1>1 DEF ServerRest, InOrder
<1>3. \A j \in 1..(i - 1) : j \in req[w].done
  <2>1. CASE op.kind = "delete"
    BY <1>1, <2>1 DEF Startable
  <2>2. CASE op.kind # "delete"
    BY <1>1, <2>2 DEF ServerRest, InOrder
  <2> QED BY <2>1, <2>2
<1>4. \A j \in req[w].done : j < i
  <2> SUFFICES ASSUME NEW j \in req[w].done, ~(j < i) PROVE FALSE
    OBVIOUS
  <2>1. i \in Nat /\ j \in Nat /\ i >= 1 /\ j >= 1
    BY ReqFacts
  <2>2. i \in 1..(j - 1)
    BY <1>1, <2>1
  <2> QED BY <1>1, <2>2 DEF ServerRest, InOrder
<1>5. op.kind = "delete" => ~missing
  OBVIOUS
<1>6. op.kind # "delete" => (missing <=> op.kind = "update" /\ row = None)
  BY <1>2
<1> HIDE DEF missing
<1> QED BY <1>1, <1>2, <1>3, <1>4, <1>5, <1>6

\* A place of the log that is not before an operation of the batch at its end
\* is a place of the batch.
LEMMA PlaceInBatch ==
  ASSUME NEW at \in Nat, NEW len \in Nat, NEW i \in 1..len, NEW k \in 1..(at + len),
         ~(k < at + i)
  PROVE  k - at \in 1..len /\ ~(k - at < i) /\ k = at + (k - at)
OBVIOUS

LEMMA WriteServer ==
  ASSUME ReplicaInv, Races = {}, NEW w \in Writers, NEW i \in DOMAIN req[w].ops, WriteRow(w, i)
  PROVE  ServerRest'
<1> DEFINE op == req[w].ops[i]
           missing == op.kind = "update" /\ row = None
<1>0. TypeOK /\ ServerRest
  BY DEF ReplicaInv, WriteInv, ServerInv, ServerRest
<1>1. /\ Applying(w) /\ i \notin req[w].done
      /\ \A j \in 1..(i - 1) : j \in req[w].done
      /\ \A j \in req[w].done : j < i
      /\ row' = IF op.kind = "delete" THEN None
                ELSE IF ~missing /\ Wins(row, op.val) THEN op.val ELSE row
      /\ op.kind # "delete" => req'[w].skipped = IF missing THEN req[w].skipped \cup {i}
                                                 ELSE req[w].skipped
      /\ op.kind = "delete" => req'[w].skipped = req[w].skipped
  BY <1>0, WriteInOrder
<1>2. /\ req'[w].done = req[w].done \cup {i}
      /\ req'[w].stage = req[w].stage /\ req'[w].ops = req[w].ops
      /\ req'[w].seen = req[w].seen /\ req'[w].at = req[w].at
      /\ \A v \in Writers \ {w} : req'[v] = req[v]
      /\ UNCHANGED log
  BY <1>0, WriteEffect
<1>3. \A v \in Writers : (Applying(v) <=> v = w) /\ (Applying(v)' <=> v = w)
  <2>1. \A v \in Writers : Applying(v) => v = w
    BY <1>0, <1>1 DEF ServerRest, OneApplies
  <2> QED BY <1>1, <1>2, <2>1 DEF Applying
<1>r. /\ req[w].at \in Nat /\ Len(req[w].ops) \in Nat /\ DOMAIN req[w].ops = 1..Len(req[w].ops)
      /\ Len(log) \in Nat /\ DOMAIN log = 1..Len(log) /\ i \in Nat /\ op \in Ops
      /\ req[w].done \subseteq DOMAIN req[w].ops /\ DOMAIN req[w].seen \subseteq DOMAIN req[w].ops
  BY <1>0, ReqFacts, LogFacts
<1>k. op.kind \in Kinds
  BY <1>r DEF Ops
<1> HIDE DEF op, missing
<1>4. /\ (Dead' <=> Dead) /\ \A k : (AfterDeletes(k)' <=> AfterDeletes(k)) /\ (IsDelete(k)' <=> IsDelete(k))
      /\ \A k : Unmarked(k)' <=> Unmarked(k)
  <2>1. \A k : Unmarked(k)' <=> Unmarked(k)
    BY <1>2, <1>3, InWriters DEF Unmarked, Applying
  <2> QED BY <1>2, <2>1 DEF Dead, AfterDeletes, IsDelete
<1>5. OneApplies' /\ DeletesApply' /\ NothingAfter'
  BY <1>0, <1>2, <1>3, <1>4 DEF ServerRest, OneApplies, DeletesApply, NothingAfter
<1>6. AtTheEnd'
  <2> SUFFICES ASSUME NEW d \in Devices, Applying(d)'
               PROVE  /\ req'[d].at + Len(req'[d].ops) = Len(log')
                      /\ \A j \in DOMAIN req'[d].ops :
                           log'[req'[d].at + j] = [op |-> req'[d].ops[j], applied |-> TRUE]
    BY DEF AtTheEnd
  <2>1. d = w /\ Applying(d)
    BY <1>3, InWriters
  <2>2. req'[d].at = req[d].at /\ req'[d].ops = req[d].ops
    BY <1>2, <2>1
  <2>3. /\ req[d].at + Len(req[d].ops) = Len(log)
        /\ \A j \in DOMAIN req[d].ops :
             log[req[d].at + j] = [op |-> req[d].ops[j], applied |-> TRUE]
    BY <1>0, <2>1 DEF ServerRest, AtTheEnd
  <2> QED BY <1>2, <2>2, <2>3
<1>7. InOrder'
  <2>1. /\ \A j \in req[w].done \cup DOMAIN req[w].seen : \A l \in 1..(j - 1) : l \in req[w].done
        /\ \A j \in req[w].skipped : req[w].ops[j].kind = "update"
        /\ req[w].ops # <<>>
        /\ w \in Apis => Len(req[w].ops) = 1
    BY <1>0, <1>1 DEF ServerRest, InOrder
  <2>2. \A j \in req'[w].done \cup DOMAIN req'[w].seen : \A l \in 1..(j - 1) : l \in req'[w].done
    BY <1>1, <1>2, <2>1
  <2>3. \A j \in DOMAIN req[w].seen : j \in req[w].done \cup {i}
    <3> SUFFICES ASSUME NEW j \in DOMAIN req[w].seen, j \notin req[w].done \cup {i} PROVE FALSE
      OBVIOUS
    <3>1. CASE j < i
      <4>1. j \in 1..(i - 1)
        BY <1>r, <3>1
      <4> QED BY <1>1, <4>1
    <3>2. CASE i < j
      <4>1. i \in 1..(j - 1)
        BY <1>r, <3>2
      <4> QED BY <1>1, <2>1, <4>1
    <3> QED BY <1>r, <3>1, <3>2
  <2>4. \A j \in req'[w].skipped : req[w].ops[j].kind = "update"
    <3>1. \A j \in req'[w].skipped : j \in req[w].skipped \/ (j = i /\ missing)
      BY <1>1
    <3> QED BY <2>1, <3>1 DEF missing, op
  <2> QED BY <1>2, <1>3, <2>1, <2>2, <2>3, <2>4 DEF InOrder
<1>8. CASE w \in Devices
  <2>0. /\ req[w].at + Len(req[w].ops) = Len(log)
        /\ \A j \in DOMAIN req[w].ops :
             log[req[w].at + j] = [op |-> req[w].ops[j], applied |-> TRUE]
        /\ \A a \in Apis : ~Applying(a) /\ ~Applying(a)'
    BY <1>0, <1>1, <1>3, <1>8, InWriters, WriterAssumption DEF ServerRest, AtTheEnd
  <2>1. \A j \in DOMAIN req[w].ops : /\ req[w].at + j \in DOMAIN log
                                     /\ log[req[w].at + j].op = req[w].ops[j]
                                     /\ log[req[w].at + j].applied
    <3> TAKE j \in DOMAIN req[w].ops
    <3>1. log[req[w].at + j] = [op |-> req[w].ops[j], applied |-> TRUE]
      BY <2>0
    <3>2. log[req[w].at + j].op = req[w].ops[j] /\ log[req[w].at + j].applied
      BY <3>1
    <3>3. req[w].at + j \in DOMAIN log
      BY <1>r, <2>0
    <3> QED BY <3>2, <3>3
  <2>2. \A k : /\ Landed(k) <=> \A j \in DOMAIN req[w].ops \ req[w].done : k # req[w].at + j
               /\ Landing(k) <=>
                    \A j \in DOMAIN req[w].ops \ (req[w].done \cup {i}) : k # req[w].at + j
    <3>1. \A k : Landing(k) <=>
                    \A j \in DOMAIN req[w].ops \ (req[w].done \cup {i}) : k # req[w].at + j
      BY <1>2, <1>3, <1>8, InWriters DEF Landing
    <3> QED BY <1>0, <1>1, <1>8, <3>1, LandedOf DEF ServerRest
  <2> DEFINE here == req[w].at + i
  <2>3. here \in DOMAIN log /\ log[here].op = op /\ log[here].applied
    BY <2>1 DEF op
  <2>4. \A k : Landing(k) <=> Landed(k) \/ k = here
    <3>1. \A j \in DOMAIN req[w].ops : req[w].at + j = here => j = i
      BY <1>r
    <3>2. \A k : Landing(k) => Landed(k) \/ k = here
      BY <2>2
    <3>3. \A k : Landed(k) => Landing(k)
      BY <2>2
    <3>4. Landing(here)
      BY <2>2, <3>1
    <3> QED BY <3>2, <3>3, <3>4
  <2>5. \A k \in DOMAIN log : Landed(k) => k < here
    <3> SUFFICES ASSUME NEW k \in DOMAIN log, Landed(k), ~(k < here) PROVE FALSE
      OBVIOUS
    <3>1. k - req[w].at \in DOMAIN req[w].ops /\ ~(k - req[w].at < i)
          /\ k = req[w].at + (k - req[w].at)
      <4>1. k \in 1..(req[w].at + Len(req[w].ops)) /\ i \in 1..Len(req[w].ops)
        BY <1>r, <2>0
      <4> QED BY <1>r, <4>1, PlaceInBatch
    <3>2. k - req[w].at \notin req[w].done
      BY <1>1, <3>1
    <3> QED BY <2>2, <3>1, <3>2
  <2>6. \A k \in DOMAIN log : k < here => Landed(k)
    <3> SUFFICES ASSUME NEW k \in DOMAIN log, k < here, NEW j \in DOMAIN req[w].ops,
                        j \notin req[w].done, k = req[w].at + j
                 PROVE  FALSE
      BY <2>2
    <3>1. j \in 1..(i - 1)
      BY <1>r
    <3> QED BY <1>1, <3>1
  <2> HIDE DEF here
  <2>7. ServerDead'
    <3> SUFFICES ASSUME Dead
                 PROVE  /\ row' # None => \E k \in DOMAIN log : IsDelete(k) /\ ~Landing(k)
                        /\ \A j \in req'[w].done :
                             AfterDeletes(here - i + j) /\ req[w].ops[j].kind = "update"
                               => j \in req'[w].skipped
      <4>1. \A j \in req'[w].done : here - i + j = req'[w].at + j
        BY <1>2, <1>r DEF here
      <4>2. \A d \in Devices : Applying(d)' => d = w
        BY <1>3, InWriters
      <4> QED BY <1>2, <1>4, <2>0, <4>1, <4>2 DEF ServerDead, Landed, Landing
    <3>0. \A j \in req[w].done : here - i + j = req[w].at + j
      BY <1>r DEF here
    <3>1. /\ row # None => \E k \in DOMAIN log : IsDelete(k) /\ ~Landed(k)
          /\ \A j \in req[w].done : AfterDeletes(req[w].at + j) /\ req[w].ops[j].kind = "update"
                                      => j \in req[w].skipped
      BY <1>0, <1>1, <1>8 DEF ServerRest, ServerDead
    <3>2. \A j \in req[w].done : AfterDeletes(here - i + j) /\ req[w].ops[j].kind = "update"
                                   => j \in req'[w].skipped
      BY <1>1, <3>0, <3>1
    <3>3. row # None => \E k \in DOMAIN log : IsDelete(k) /\ ~Landed(k)
                          /\ (op.kind # "delete" => ~Landing(k)) /\ here <= k
      <4>1. ASSUME row # None
            PROVE  \E k \in DOMAIN log : IsDelete(k) /\ ~Landed(k)
                     /\ (op.kind # "delete" => ~Landing(k)) /\ here <= k
        <5>1. PICK k \in DOMAIN log : IsDelete(k) /\ ~Landed(k)
          BY <3>1, <4>1
        <5>2. here <= k
          BY <1>r, <2>3, <2>6, <5>1
        <5>3. op.kind # "delete" => ~Landing(k)
          BY <2>3, <2>4, <5>1 DEF IsDelete
        <5> QED BY <5>1, <5>2, <5>3
      <4> QED BY <4>1
    <3>4. here - i + i = here
      BY <1>r DEF here
    <3>5. CASE op.kind = "delete"
      BY <1>1, <1>2, <3>2, <3>5 DEF op
    <3>6. CASE missing
      <4>1. row' = row /\ row = None /\ i \in req'[w].skipped
        BY <1>1, <3>6 DEF missing
      <4> QED BY <1>2, <3>2, <4>1
    <3>7. CASE op.kind # "delete" /\ ~missing
      <4>1. \E k \in DOMAIN log : IsDelete(k) /\ ~Landing(k)
        <5>1. CASE op.kind = "update"
          BY <3>3, <3>7, <5>1 DEF missing
        <5>2. CASE op.kind = "create"
          <6>1. ~AfterDeletes(here)
            BY <1>0, <2>3, <5>2 DEF ServerRest, NothingAfter
          <6>2. PICK k \in DOMAIN log : IsDelete(k) /\ ~(k < here)
            BY <6>1 DEF AfterDeletes
          <6>3. k # here
            BY <2>3, <5>2, <6>2 DEF IsDelete
          <6>4. ~Landed(k)
            BY <2>5, <6>2
          <6> QED BY <2>4, <6>2, <6>3, <6>4
        <5> QED BY <1>k, <3>7, <5>1, <5>2 DEF Kinds
      <4>2. op.kind = "update" => ~AfterDeletes(here)
        <5>1. ASSUME op.kind = "update" PROVE \E k \in DOMAIN log : IsDelete(k) /\ here <= k
          BY <3>3, <3>7, <5>1 DEF missing
        <5> QED BY <1>r, <2>3, <5>1 DEF AfterDeletes
      <4> QED BY <1>2, <3>2, <3>4, <4>1, <4>2 DEF op
    <3> QED BY <3>5, <3>6, <3>7
  <2>8. ServerWinner'
    <3> SUFFICES ASSUME ~Dead' PROVE ServerWinner'
      BY DEF ServerWinner
    <3>0. ~Dead /\ op.kind # "delete"
      <4>1. ~Dead
        BY <1>4
      <4> QED BY <2>3, <4>1 DEF Dead, IsDelete
    <3>1. /\ \A k \in DOMAIN log : log[k].applied
          /\ req[w].skipped = {}
          /\ log # <<>> => log[1].op.kind = "create"
          /\ Winner(row, AllLanded)
      BY <1>0, <1>1, <2>0, <3>0 DEF ServerRest, ServerWinner
    <3>2. \A k \in DOMAIN log : log[k].op.val \in Values
      BY <1>0, <3>0 DEF ReplicaInv, WriteInv, AllOld, Old, Dead, IsDelete
    <3>3. ~missing
      <4> SUFFICES ASSUME op.kind = "update", row = None PROVE FALSE
        BY DEF missing
      <4>1. AllLanded = {}
        <5>1. \A k \in AllLanded : log[k].op.val # None
          BY <3>2, NoneAssumption DEF AllLanded
        <5> QED BY <3>1, <5>1 DEF Winner
      <4>2. 1 \in DOMAIN log /\ here # 1
        <5>1. log # <<>> /\ 1 \in DOMAIN log
          BY <1>r, <2>3
        <5> QED BY <2>3, <3>1, <5>1
      <4>3. 1 < here
        BY <1>r, <2>3, <4>2
      <4> QED BY <2>6, <4>1, <4>2, <4>3 DEF AllLanded
    <3>4. AllLanded' = AllLanded \cup {here}
      <4>1. AllLanded' = {k \in DOMAIN log' : Landing(k)}
        BY DEF AllLanded, Landed, Landing
      <4> QED BY <1>2, <2>3, <2>4, <4>1 DEF AllLanded
    <3>5. Winner(row, AllLanded)'
      <4>1. op.val \in Values /\ here \in Nat /\ \A k \in AllLanded : k < here /\ k \in Nat
        BY <1>r, <2>3, <2>5, <3>2 DEF AllLanded
      <4>2. op.val.ts \in Nat /\ \A k \in AllLanded : log[k].op.val.ts \in Nat
        BY <3>2, <4>1 DEF Values, AllLanded
      <4>3. row' = IF Wins(row, op.val) THEN op.val ELSE row
        BY <1>1, <3>0, <3>3
      <4>4. CASE row = None
        <5>1. AllLanded = {}
          BY <3>1, <3>2, <4>4, NoneAssumption DEF Winner, AllLanded
        <5>2. row' = op.val
          BY <4>3, <4>4 DEF Wins
        <5> QED BY <1>2, <2>3, <3>4, <4>1, <4>2, <5>1, <5>2 DEF Winner
      <4>5. CASE row # None
        <5>1. PICK q \in AllLanded : /\ log[q].op.val = row
                /\ \A j \in AllLanded : log[j].op.val.ts <= row.ts
                                        /\ (j > q => log[j].op.val.ts < row.ts)
          BY <3>1, <4>5 DEF Winner
        <5>2. row.ts \in Nat
          BY <4>2, <5>1
        <5>3. CASE row.ts <= op.val.ts
          <6>1. row' = op.val
            BY <4>3, <5>3 DEF Wins, IncomingWinsLww
          <6>2. \A j \in AllLanded \cup {here} : log[j].op.val.ts <= op.val.ts
            BY <2>3, <4>2, <5>1, <5>2, <5>3
          <6>3. \A j \in AllLanded \cup {here} : ~(j > here)
            BY <4>1
          <6> QED BY <1>2, <2>3, <3>4, <6>1, <6>2, <6>3 DEF Winner
        <5>4. CASE ~(row.ts <= op.val.ts)
          <6>1. row' = row /\ log[here].op.val.ts < row.ts /\ log[here].op.val.ts <= row.ts
            BY <2>3, <4>2, <4>3, <4>5, <5>2, <5>4 DEF Wins, IncomingWinsLww
          <6> QED BY <1>2, <3>4, <5>1, <6>1 DEF Winner
        <5> QED BY <5>3, <5>4
      <4> QED BY <4>4, <4>5
    <3>6. req'[w].skipped = {}
      BY <1>1, <3>0, <3>1, <3>3
    <3> QED BY <1>2, <1>3, <2>0, <3>1, <3>5, <3>6 DEF ServerWinner
  <2> QED BY <1>5, <1>6, <1>7, <2>7, <2>8 DEF ServerRest
<1>9. CASE w \in Apis
  <2>0. Len(req[w].ops) = 1 /\ i = 1 /\ req[w].done = {} /\ req'[w].done = {1}
    <3>1. Len(req[w].ops) = 1
      BY <1>0, <1>1, <1>9 DEF ServerRest, InOrder
    <3>2. i = 1 /\ req[w].done = {}
      BY <1>1, <1>r, <3>1
    <3> QED BY <1>2, <3>1, <3>2
  <2>1. ~Dead /\ ~Dead'
    BY <1>0, <1>1, <1>4, <1>9 DEF ServerRest, ServerDead
  <2>2. \A d \in Devices : ~Applying(d) /\ ~Applying(d)'
    BY <1>3, <1>9, InWriters, WriterAssumption
  <2>3. /\ \A k \in DOMAIN log : log[k].applied
        /\ req[w].skipped = {}
        /\ log # <<>> => log[1].op.kind = "create"
        /\ op.kind = "update" => row # None
        /\ op.kind = "create" => log = <<>>
        /\ op.kind = "update" => log # <<>>
    BY <1>0, <1>1, <1>9, <2>0, <2>1 DEF ServerRest, ServerWinner, op
  <2>4. Winner(row, DOMAIN log)
    <3>1. \A a \in Apis : Applying(a) => req[a].done = {}
      BY <1>3, <2>0, InWriters
    <3> QED BY <1>0, <2>1, <2>2, <3>1, NobodyApplies DEF ServerRest, ServerWinner
  <2>5. ~missing /\ req'[w].skipped = {}
    BY <1>1, <2>3 DEF missing
  <2>6. ServerDead'
    BY <2>1 DEF ServerDead
  <2>7. op.kind = "delete" => row' = None
    BY <1>1
  <2>8. ASSUME op.kind # "delete"
        PROVE  \/ row' = op.val /\ \A k \in DOMAIN log : log[k].op.val.ts <= op.val.ts
               \/ Winner(row, DOMAIN log) /\ row' = row /\ row # None /\ op.val.ts < row.ts
    <3>1. row' = IF Wins(row, op.val) THEN op.val ELSE row
      BY <1>1, <2>5, <2>8
    <3>2. op.val \in Values /\ \A k \in DOMAIN log : log[k].op.val \in Values
      <4>1. op \in Sent(w)
        BY DEF op, Sent, ToSet
      <4> QED BY <1>0, <2>1, <2>8, <4>1 DEF ReplicaInv, WriteInv, AllOld, Old, Dead, IsDelete
    <3>3. op.val.ts \in Nat /\ \A k \in DOMAIN log : log[k].op.val.ts \in Nat
      BY <3>2 DEF Values
    <3>4. CASE row = None
      <4>1. DOMAIN log = {}
        BY <2>4, <3>2, <3>4, NoneAssumption DEF Winner
      <4> QED BY <3>1, <3>4, <4>1 DEF Wins
    <3>5. CASE row # None
      <4>1. PICK q \in DOMAIN log : log[q].op.val = row
                /\ \A j \in DOMAIN log : log[j].op.val.ts <= row.ts
        BY <2>4, <3>5 DEF Winner
      <4>2. row.ts \in Nat
        BY <3>3, <4>1
      <4>3. CASE row.ts <= op.val.ts
        BY <3>1, <3>3, <4>1, <4>2, <4>3 DEF Wins, IncomingWinsLww
      <4>4. CASE ~(row.ts <= op.val.ts)
        BY <2>4, <3>1, <3>3, <3>5, <4>2, <4>4 DEF Wins, IncomingWinsLww
      <4> QED BY <4>3, <4>4
    <3> QED BY <3>4, <3>5
  <2>9. ServerWinner'
    <3>1. \A a \in Apis : Applying(a)' => a = w
      BY <1>3, InWriters
    <3>2. req'[w].ops[1] = op /\ req'[w].done # {}
      BY <1>2, <2>0 DEF op
    <3>3. Applying(w)'
      BY <1>3
    <3>4. row' = row => (Winner(row, DOMAIN log) <=> Winner(row, DOMAIN log)')
      BY <1>2 DEF Winner
    <3>5. ~(\A a \in Apis : Applying(a)' => req'[a].done = {})
      BY <1>9, <3>2, <3>3
    <3>6. \A v \in Writers : Applying(v)' => v = w
      BY <1>3
    <3>7. ASSUME NEW a \in Apis, Applying(a)'
          PROVE  LET o == req'[a].ops[1] IN
             /\ o.kind = "update" /\ req'[a].done = {} => row' # None
             /\ o.kind = "create" => log' = <<>>
             /\ o.kind = "update" => log' # <<>>
             /\ req'[a].done # {} /\ o.kind = "delete" => row' = None
             /\ req'[a].done # {} /\ o.kind # "delete" =>
                  \/ row' = o.val /\ \A k \in DOMAIN log' : log'[k].op.val.ts <= o.val.ts
                  \/ Winner(row, DOMAIN log)' /\ row' # None /\ o.val.ts < row'.ts
      <4>1. a = w
        BY <3>1, <3>7
      <4>2. op.kind # "delete" =>
                  \/ row' = op.val /\ \A k \in DOMAIN log' : log'[k].op.val.ts <= op.val.ts
                  \/ Winner(row, DOMAIN log)' /\ row' # None /\ op.val.ts < row'.ts
        BY <1>2, <2>8, <3>4
      <4> QED BY <1>2, <2>3, <2>7, <3>2, <4>1, <4>2
    <3> QED BY <1>2, <2>3, <2>5, <3>5, <3>6, <3>7 DEF ServerWinner
  <2> QED BY <1>5, <1>6, <1>7, <2>6, <2>9 DEF ServerRest
<1> QED BY <1>8, <1>9 DEF Writers

LEMMA ApiBeginServer ==
  ASSUME ReplicaInv, Races = {},
         NEW a \in Apis, NEW t \in Stamps, NEW kind \in Kinds, ApiBegin(a, t, kind)
  PROVE  ServerRest'
<1>0. TypeOK /\ ServerRest /\ a \in Writers /\ a \notin Devices
  BY InWriters, WriterAssumption DEF ReplicaInv, WriteInv, ServerInv, ServerRest
<1>1. /\ req[a].stage = "idle" /\ Alone(a)
      /\ IF kind = "create" THEN writes = 0 ELSE row # None
      /\ req'[a].stage = "applying" /\ req'[a].done = {} /\ req'[a].skipped = {}
      /\ DOMAIN req'[a].seen = {} /\ Len(req'[a].ops) = 1 /\ DOMAIN req'[a].ops = {1}
      /\ req'[a].ops[1].kind = kind
      /\ \A v \in Writers \ {a} : req'[v] = req[v]
      /\ UNCHANGED <<row, log>>
  BY <1>0, ApiBeginEffect
<1>2. \A w \in Writers : ~Applying(w) /\ (Applying(w)' <=> w = a)
  BY <1>0, <1>1, Solitary DEF Applying
<1>3. \A d \in Devices : ~Applying(d) /\ ~Applying(d)'
  BY <1>0, <1>2, InWriters
<1>4. AllLanded = DOMAIN log /\ AllLanded' = DOMAIN log'
  BY <1>3, NobodyApplies DEF AllLanded, Landed
<1>5. ~Dead /\ ~Dead' /\ (kind = "create" => log = <<>>)
  <2>1. kind = "create" => log = <<>>
    BY <1>1 DEF ReplicaInv, QueueInv, Before
  <2>2. log = <<>> => ~Dead
    BY DEF Dead
  <2>3. kind # "create" => ~Dead
    BY <1>0, <1>1, <1>3, NobodyApplies DEF ServerRest, ServerDead
  <2>4. ~Dead => ~Dead'
    BY <1>1 DEF Dead, IsDelete
  <2> QED BY <2>1, <2>2, <2>3, <2>4
<1>6. /\ \A k \in DOMAIN log : log[k].applied
      /\ log # <<>> => log[1].op.kind = "create"
      /\ Winner(row, DOMAIN log)
  BY <1>0, <1>2, <1>3, <1>4, <1>5, InWriters DEF ServerRest, ServerWinner
<1>7. kind = "update" => row # None /\ log # <<>>
  BY <1>1, <1>6 DEF Winner
<1>8. OneApplies' /\ AtTheEnd' /\ NothingAfter' /\ ServerDead'
  BY <1>2, <1>3, <1>5 DEF OneApplies, AtTheEnd, NothingAfter, ServerDead
<1>9. DeletesApply'
  BY <1>0, <1>1 DEF ServerRest, DeletesApply, IsDelete
<1>10. InOrder'
  BY <1>1, <1>2 DEF InOrder
<1>11. ServerWinner'
  <2>1. Winner(row, AllLanded)'
    BY <1>1, <1>4, <1>6 DEF Winner
  <2>2. \A b \in Apis : Applying(b)' => b = a
    BY <1>2, InWriters
  <2> QED BY <1>1, <1>2, <1>6, <1>7, <1>5, <2>1, <2>2 DEF ServerWinner
<1> QED BY <1>8, <1>9, <1>10, <1>11 DEF ServerRest

LEMMA ApiLogServer ==
  ASSUME ReplicaInv, Races = {}, NEW a \in Apis, ApiLog(a)
  PROVE  ServerRest'
<1> DEFINE op == req[a].ops[1]
<1>0. TypeOK /\ ServerRest /\ a \in Writers /\ a \notin Devices
  BY InWriters, WriterAssumption DEF ReplicaInv, WriteInv, ServerInv, ServerRest
<1>1. /\ Applying(a) /\ req[a].done = {1} /\ req'[a] = NoReq
      /\ \A v \in Writers \ {a} : req'[v] = req[v]
      /\ Len(log') = Len(log) + 1 /\ DOMAIN log' = 1..Len(log')
      /\ \A k \in DOMAIN log : log'[k] = log[k]
      /\ log'[Len(log) + 1] = [op |-> op, applied |-> req[a].skipped = {}]
      /\ UNCHANGED row
  BY <1>0, ApiLogEffect
<1>2. \A w \in Writers : (Applying(w) => w = a) /\ ~Applying(w)'
  <2>1. \A w \in Writers : Applying(w) => w = a
    BY <1>0, <1>1 DEF ServerRest, OneApplies
  <2> QED BY <1>1, <2>1, NoReqTyped DEF Applying
<1>3. \A d \in Devices : ~Applying(d) /\ ~Applying(d)'
  BY <1>0, <1>2, InWriters
<1>4. ~Dead
  BY <1>0, <1>1 DEF ServerRest, ServerDead
<1>5. /\ \A k \in DOMAIN log : log[k].applied
      /\ req[a].skipped = {}
      /\ log # <<>> => log[1].op.kind = "create"
      /\ op.kind = "update" => log # <<>>
      /\ op.kind = "delete" => row = None
      /\ op.kind # "delete" =>
           \/ row = op.val /\ \A k \in DOMAIN log : log[k].op.val.ts <= op.val.ts
           \/ Winner(row, DOMAIN log) /\ row # None /\ op.val.ts < row.ts
  BY <1>0, <1>1, <1>4 DEF ServerRest, ServerWinner
<1>r. op \in Ops /\ Len(log) \in Nat /\ DOMAIN log = 1..Len(log)
  <2>1. 1 \in DOMAIN req[a].ops
    BY <1>0, <1>1, ReqFacts
  <2> QED BY <1>0, <2>1, ReqFacts, LogFacts
<1>k. op.kind \in Kinds
  BY <1>r DEF Ops
<1>6. \A k : ~IsDelete(k) \/ k \notin DOMAIN log
  BY <1>4 DEF Dead
<1>v. (op.kind # "delete" => op.val \in Values) /\ \A k \in DOMAIN log : log[k].op.val \in Values
  <2>1. op \in Sent(a)
    <3>1. 1 \in DOMAIN req[a].ops
      BY <1>0, <1>1, ReqFacts
    <3> QED BY <3>1 DEF Sent, ToSet
  <2> QED BY <1>0, <1>4, <2>1 DEF ReplicaInv, WriteInv, AllOld, Old, Dead, IsDelete
<1> HIDE DEF op
<1> DEFINE q == Len(log) + 1
<1>7. /\ q \in DOMAIN log' /\ DOMAIN log' = DOMAIN log \cup {q} /\ \A k \in DOMAIN log : k < q
      /\ log'[q].op = op /\ log'[q].applied /\ q \in Nat
  <2>1. log'[q] = [op |-> op, applied |-> TRUE]
    BY <1>1, <1>5
  <2>2. log'[q].op = op /\ log'[q].applied
    BY <2>1
  <2> QED BY <1>1, <1>r, <2>2
<1> HIDE DEF q
<1>8. OneApplies' /\ AtTheEnd' /\ InOrder'
  BY <1>2, <1>3 DEF OneApplies, AtTheEnd, InOrder
<1>9. DeletesApply'
  BY <1>1, <1>5, <1>7 DEF DeletesApply, IsDelete
<1>10. \A k \in DOMAIN log' : Deleting(k) <=> k = q /\ op.kind = "delete"
  BY <1>1, <1>6, <1>7 DEF Deleting, IsDelete
<1>11. NothingAfter'
  <2> SUFFICES ASSUME Dead', NEW k \in DOMAIN log', AfterDeletes(k)' PROVE FALSE
    BY DEF NothingAfter
  <2>1. Deleting(q)
    BY <1>10 DEF Dead, IsDelete, Deleting
  <2>2. q < k
    BY <1>7, <2>1 DEF AfterDeletes, IsDelete, Deleting
  <2> QED BY <1>1, <1>7, <1>r, <2>2
<1>12. ServerDead'
  <2>1. Dead' => row' = None
    BY <1>1, <1>5, <1>10 DEF Dead, IsDelete, Deleting
  <2> QED BY <1>2, <1>3, <2>1, InWriters DEF ServerDead
<1>13. ServerWinner'
  <2> SUFFICES ASSUME ~Dead' PROVE ServerWinner'
    BY DEF ServerWinner
  <2>1. op.kind # "delete"
    BY <1>7, <1>10 DEF Dead, IsDelete, Deleting
  <2>2. log'[1].op.kind = "create"
    <3>1. CASE log = <<>>
      BY <1>5, <1>7, <1>k, <2>1, <3>1 DEF Kinds, q
    <3>2. CASE log # <<>>
      <4>1. 1 \in DOMAIN log
        BY <1>0, <3>2, LogFacts
      <4> QED BY <1>1, <1>5, <3>2, <4>1
    <3> QED BY <3>1, <3>2
  <2>3. AllLanded' = DOMAIN log'
    BY <1>3 DEF AllLanded, Landed
  <2>4. Winner(row, AllLanded)'
    <3>1. op.val.ts \in Nat /\ \A k \in DOMAIN log : log[k].op.val.ts \in Nat /\ log'[k] = log[k]
      BY <1>1, <1>v, <2>1 DEF Values
    <3>2. CASE row = op.val /\ \A k \in DOMAIN log : log[k].op.val.ts <= op.val.ts
      <4>1. \A k \in DOMAIN log' : log'[k].op.val.ts <= op.val.ts /\ ~(k > q)
        BY <1>7, <1>r, <3>1, <3>2
      <4> QED BY <1>1, <1>7, <2>3, <3>2, <4>1 DEF Winner
    <3>3. CASE Winner(row, DOMAIN log) /\ row # None /\ op.val.ts < row.ts
      <4>1. PICK p \in DOMAIN log : /\ log[p].op.val = row
                  /\ \A i \in DOMAIN log : log[i].op.val.ts <= row.ts
                                           /\ (i > p => log[i].op.val.ts < row.ts)
        BY <3>3 DEF Winner
      <4>2. row.ts \in Nat
        BY <3>1, <4>1
      <4>3. \A i \in DOMAIN log' : log'[i].op.val.ts <= row.ts
                                   /\ (i > p => log'[i].op.val.ts < row.ts)
        BY <1>7, <3>1, <3>3, <4>1, <4>2
      <4> QED BY <1>1, <1>7, <2>3, <4>1, <4>3 DEF Winner
    <3> QED BY <1>5, <2>1, <3>2, <3>3
  <2>5. \A k \in DOMAIN log' : log'[k].applied
    BY <1>1, <1>5, <1>7
  <2> QED BY <1>2, <2>2, <2>4, <2>5, InWriters DEF ServerWinner
<1> QED BY <1>8, <1>9, <1>11, <1>12, <1>13 DEF ServerRest

LEMMA ServerNext ==
  ASSUME ReplicaInv, Races = {}, [Next]_vars
  PROVE  ServerInv'
<1>0. TypeOK /\ ServerRest /\ NothingDone
  BY DEF ReplicaInv, WriteInv, ServerInv, ServerRest
<1>1. ASSUME NEW d \in Devices, Push(d) PROVE ServerRest'
  BY <1>0, <1>1, ServerQuietStep, InsertServer, AnswerServer DEF Push
<1>2. ASSUME NEW w \in Writers, Apply(w) PROVE ServerRest'
  BY <1>2, ReadServer, WriteServer DEF Apply
<1>3. ASSUME NEW a \in Apis, ApiWrite(a) PROVE ServerRest'
  BY <1>3, ApiBeginServer, ApiLogServer DEF ApiWrite, Kinds
<1>4. ServerRest'
  BY <1>0, <1>1, <1>2, <1>3, ServerQuietStep DEF Next
<1>5. NothingDone'
  BY <1>0, NothingDoneNext
<1> QED BY <1>4, <1>5 DEF ServerRest, ServerInv

-----------------------------------------------------------------------------
(* Nothing races: the queue of a device *)

UnsentAt(d) ==
  /\ \A o \in queue[d] : o.kind = "create" /\ o.n \notin tried[d] =>
       Nothing(d) /\ queue[d] = {o} /\ ~removing[d]
  /\ ~Dead /\ removing[d] /\ ~Deletes(queue[d]) => Nothing(d) /\ queue[d] = {}

OrderAt(d) ==
  /\ \A o, p \in queue[d] : o.kind = "create" =>
       /\ p.kind # "update"
       /\ p.kind = "delete" => o.n < p.n /\ awaiting[d] /\ (removing[d] \/ local[d] = None)
  /\ req[d].stage = "sent" => \A i, j \in DOMAIN req[d].ops :
       req[d].ops[i].kind = "create" /\ req[d].ops[j].kind = "delete" => i < j

FirstAt(d) ==
  /\ \A o \in queue[d] : o.kind # "update"
  /\ local[d] # None => removing[d] \/ PendingCreates(d) # {}
  /\ Deletes(queue[d]) => PendingCreates(d) # {}
  /\ req[d].stage = "sent" => \A o \in Sent(d) : o.kind # "update"

HeldAt(d) == awaiting[d] \/ (pull[d].stage = "applying" /\ pull[d].hold) => Deletes(queue[d])

QueueAt(d) == /\ UnsentAt(d)
              /\ ~Dead => OrderAt(d) /\ HeldAt(d)
              /\ ~Dead /\ log = <<>> => FirstAt(d)

LEMMA QueueParts == QueueInv <=> Before /\ \A d \in Devices : QueueAt(d)
BY DEF QueueInv, Unsent, QueueOrder, CreateFirst, HeldForDelete, QueueAt, UnsentAt, OrderAt,
       FirstAt, HeldAt

LEMMA QueuePartsNext == Before' /\ (\A d \in Devices : QueueAt(d)') => QueueInv'
BY DEF QueueInv, Unsent, QueueOrder, CreateFirst, HeldForDelete, QueueAt, UnsentAt, OrderAt,
       FirstAt, HeldAt

\* Somebody wrote, and an operation of the entity is on its way.
LEMMA BusyQueue ==
  ASSUME ReplicaInv, Dead => Dead', log' = <<>> => log = <<>>,
         NEW w \in Writers, req[w].stage # "idle",
         UNCHANGED <<writes, queue, tried, awaiting, removing, local, pull>>,
         \A d \in Devices : req'[d].stage = "sent" => req[d].stage = "sent" /\ req'[d].ops = req[d].ops
  PROVE  QueueInv'
<1>0. \A d \in Devices : QueueAt(d) /\ ~Nothing(d)
  BY QueueParts DEF ReplicaInv, Nothing
<1>1. Before'
  BY DEF ReplicaInv, QueueInv, Before
<1>2. ASSUME NEW d \in Devices PROVE QueueAt(d)'
  <2>1. UnsentAt(d)'
    BY <1>0 DEF QueueAt, UnsentAt, Deletes
  <2>2. ~Dead' => OrderAt(d)' /\ HeldAt(d)'
    BY <1>0 DEF QueueAt, OrderAt, HeldAt, Deletes
  <2>3. ~Dead' /\ log' = <<>> => FirstAt(d)'
    BY <1>0 DEF QueueAt, FirstAt, Deletes, PendingCreates, Sent
  <2> QED BY <2>1, <2>2, <2>3 DEF QueueAt
<1> QED BY <1>1, <1>2, QueuePartsNext

LEMMA BusySteps ==
  ASSUME ReplicaInv, Next,
         \/ \E d \in Devices : Insert(d) \/ Answer(d) \/ LosePush(d)
         \/ \E w \in Writers : Apply(w)
         \/ \E a \in Apis : ApiLog(a)
  PROVE  QueueInv'
<1>0. TypeOK /\ (Dead => Dead')
  BY DeadStays DEF ReplicaInv, WriteInv
<1>l. log' = <<>> => log = <<>>
  <2>1. \A k \in DOMAIN log : k \in DOMAIN log'
    BY Origin DEF ReplicaInv, OriginStep, LogStep
  <2>2. log # <<>> => 1 \in DOMAIN log
    BY <1>0, LogFacts
  <2> QED BY <2>1, <2>2
<1>1. ASSUME NEW d \in Devices, Insert(d) \/ Answer(d) \/ LosePush(d) PROVE QueueInv'
  <2>0. d \in Writers
    BY InWriters
  <2>1. UNCHANGED <<writes, queue, tried, awaiting, removing, local, pull>>
    BY <1>1 DEF Insert, Answer, LosePush, Losing, tally, queueVars
  <2>2. req[d].stage # "idle"
    BY <1>1 DEF Insert, Answer, LosePush
  <2>3. req'[d].stage # "sent" /\ \A v \in Writers \ {d} : req'[v] = req[v]
    BY <1>0, <1>1, InsertEffect, AnswerEffect, LoseEffect, NoReqTyped
  <2> QED BY <1>0, <1>l, <2>0, <2>1, <2>2, <2>3, BusyQueue, InWriters
<1>2. ASSUME NEW w \in Writers, Apply(w) PROVE QueueInv'
  <2>1. UNCHANGED <<writes, queue, tried, awaiting, removing, local, pull>>
    BY <1>2, ApplyFrame DEF tally, queueVars
  <2>2. PICK i \in DOMAIN req[w].ops : ReadRow(w, i) \/ WriteRow(w, i)
    BY <1>2 DEF Apply
  <2>3. req[w].stage # "idle" /\ req'[w].stage # "sent" /\ \A v \in Writers \ {w} : req'[v] = req[v]
    <3>1. CASE ReadRow(w, i)
      BY <1>0, <3>1, ReadEffect DEF Applying
    <3>2. CASE WriteRow(w, i)
      BY <1>0, <3>2, WriteEffect DEF Applying
    <3> QED BY <2>2, <3>1, <3>2
  <2> QED BY <1>0, <1>l, <2>1, <2>3, BusyQueue, InWriters
<1>3. ASSUME NEW a \in Apis, ApiLog(a) PROVE QueueInv'
  <2>0. a \in Writers /\ a \notin Devices
    BY InWriters, WriterAssumption
  <2>1. UNCHANGED <<writes, queue, tried, awaiting, removing, local, pull>>
    BY <1>3 DEF ApiLog, tally, queueVars
  <2>2. req[a].stage # "idle" /\ \A v \in Writers \ {a} : req'[v] = req[v]
    BY <1>0, <1>3, ApiLogEffect DEF Applying
  <2> QED BY <1>0, <1>l, <2>0, <2>1, <2>2, BusyQueue, InWriters
<1> QED BY <1>1, <1>2, <1>3

\* Where nothing is written, while something is on its way or written elsewhere.
LEMMA QueueElsewhere ==
  ASSUME ReplicaInv, NEW e \in Devices, Elsewhere(e), UNCHANGED <<row, log, req, pull>>,
         local[e] # None \/ removing[e] \/ writes = 0
  PROVE  \A d \in Devices \ {e} : QueueAt(d)'
<1> SUFFICES ASSUME NEW d \in Devices \ {e} PROVE QueueAt(d)'
  OBVIOUS
<1>0. QueueAt(d) /\ Before
  BY QueueParts DEF ReplicaInv
<1>1. /\ local'[d] = local[d] /\ queue'[d] = queue[d] /\ tried'[d] = tried[d]
      /\ awaiting'[d] = awaiting[d] /\ removing'[d] = removing[d]
  BY DEF Elsewhere
<1>d. Dead' <=> Dead
  BY DEF Dead, IsDelete
<1>2. UnsentAt(d)'
  <2>1. CASE writes = 0
    BY <1>0, <1>1, <2>1 DEF Before, UnsentAt
  <2>2. CASE local[e] # None \/ removing[e]
    <3>1. ~Nothing(d)
      BY <2>2 DEF Nothing
    <3> QED BY <1>0, <1>1, <1>d, <3>1 DEF QueueAt, UnsentAt, Deletes
  <2> QED BY <2>1, <2>2
<1>3. ~Dead' => OrderAt(d)' /\ HeldAt(d)'
  BY <1>0, <1>1, <1>d DEF QueueAt, OrderAt, HeldAt, Deletes
<1>4. ~Dead' /\ log' = <<>> => FirstAt(d)'
  BY <1>0, <1>1, <1>d DEF QueueAt, FirstAt, Deletes, PendingCreates, Sent
<1> QED BY <1>2, <1>3, <1>4 DEF QueueAt

\* What an operation of the queue is.
LEMMA QueueFacts ==
  ASSUME WriteInv, NEW d \in Devices
  PROVE  /\ queue[d] \subseteq Ops
         /\ \A o \in queue[d] : o.n \in Nat /\ o.kind \in Kinds /\ o.n <= writes
         /\ writes \in Nat
<1>1. queue[d] \subseteq Ops /\ writes \in Nat
  BY Bounds DEF WriteInv, TypeOK
<1>2. \A o \in queue[d] : o.n <= writes
  BY DEF WriteInv, AllOld, Old
<1> QED BY <1>1, <1>2 DEF Ops

LEMMA CreateQueue ==
  ASSUME ReplicaInv, NEW e \in Devices, NEW t \in Stamps, Create(e, t)
  PROVE  QueueInv'
<1>0. WriteInv /\ TypeOK /\ Before
  BY DEF ReplicaInv, WriteInv, QueueInv
<1>1. PICK o \in Ops :
         /\ o.kind = "create" /\ writes = 0 /\ writes' = writes + 1
         /\ queue'[e] = queue[e] \cup {o} /\ tried'[e] = tried[e]
         /\ awaiting'[e] = awaiting[e] /\ removing'[e] = removing[e] /\ Elsewhere(e)
         /\ UNCHANGED <<row, log, req, cursor, pull>>
  BY <1>0, CreateEffect
<1>2. /\ queue'[e] = {o} /\ ~removing'[e] /\ log' = <<>> /\ row' = None
      /\ (\A w \in Writers : req'[w].stage = "idle")
      /\ \A d \in Devices \ {e} : queue'[d] = {} /\ local'[d] = None /\ ~removing'[d]
  BY <1>0, <1>1 DEF Before, Elsewhere
<1>d. ~Dead' /\ ~Dead
  BY <1>1, <1>2 DEF Dead
<1>3. Before'
  BY <1>1 DEF Before
<1>4. UnsentAt(e)'
  BY <1>2 DEF UnsentAt, Nothing
<1>5. OrderAt(e)'
  BY <1>1, <1>2, InWriters DEF OrderAt
<1>6. HeldAt(e)'
  <2>1. HeldAt(e) /\ queue[e] = {}
    BY <1>0, <1>1, <1>d, QueueParts DEF ReplicaInv, QueueAt, Before
  <2> QED BY <1>1, <2>1 DEF HeldAt, Deletes
<1>7. FirstAt(e)'
  BY <1>1, <1>2, InWriters DEF FirstAt, Deletes, PendingCreates
<1>8. \A d \in Devices \ {e} : QueueAt(d)'
  BY <1>1, QueueElsewhere
<1> QED BY <1>3, <1>4, <1>5, <1>6, <1>7, <1>8, QueuePartsNext DEF QueueAt

LEMMA EditQueue ==
  ASSUME ReplicaInv, Races = {}, NEW e \in Devices, NEW t \in Stamps, Edit(e, t)
  PROVE  QueueInv'
<1>0. WriteInv /\ TypeOK /\ QueueAt(e)
  BY QueueParts DEF ReplicaInv, WriteInv
<1>1. PICK o \in Ops :
         /\ o.kind # "delete" /\ writes' = writes + 1 /\ ~removing[e] /\ local[e] # None
         /\ PendingCreates(e) = {} =>
              /\ o.kind = "update" /\ queue'[e] = queue[e] \cup {o}
              /\ tried'[e] = tried[e]
         /\ PendingCreates(e) # {} =>
              /\ o.kind = "create" /\ queue'[e] = (queue[e] \ PendingCreates(e)) \cup {o}
              /\ (\E p \in PendingCreates(e) : p.n \in tried[e]) => o.n \in tried'[e]
              /\ (\A p \in PendingCreates(e) : p.n \notin tried[e]) => tried'[e] = tried[e]
         /\ awaiting'[e] = awaiting[e] /\ removing'[e] = removing[e] /\ Elsewhere(e)
         /\ UNCHANGED <<row, log, req, cursor, pull>>
  BY <1>0, EditEffect
<1>r. writes \in Nat
  BY <1>0, QueueFacts
<1>d. Dead' <=> Dead
  BY <1>1 DEF Dead, IsDelete
<1>2. \A d \in Devices \ {e} : QueueAt(d)'
  BY <1>1, QueueElsewhere
<1>3. Before'
  BY <1>1, <1>r DEF Before
<1>4. \A p \in PendingCreates(e) : p \in queue[e] /\ p.kind = "create"
  BY DEF PendingCreates
<1>5. CASE PendingCreates(e) = {}
  <2>1. \A p \in queue'[e] : p.kind # "create" /\ (p \in queue[e] \/ p = o)
    BY <1>1, <1>5 DEF PendingCreates
  <2>2. UnsentAt(e)'
    BY <1>1, <2>1 DEF UnsentAt
  <2>3. ~Dead' => OrderAt(e)' /\ HeldAt(e)'
    BY <1>0, <1>1, <1>5, <1>d, <2>1 DEF QueueAt, OrderAt, HeldAt, Deletes
  <2>4. ~(~Dead' /\ log' = <<>>)
    BY <1>0, <1>1, <1>5, <1>d DEF QueueAt, FirstAt
  <2> QED BY <1>2, <1>3, <2>2, <2>3, <2>4, QueuePartsNext DEF QueueAt
<1>6. CASE PendingCreates(e) # {}
  <2>0. PICK c \in queue[e] : c \in PendingCreates(e) /\ c.kind = "create"
    BY <1>4, <1>6
  <2>1. \A p \in queue'[e] : p = o \/ (p \in queue[e] /\ p.kind # "create")
    BY <1>1, <1>6 DEF PendingCreates
  <2>2. UnsentAt(e)'
    <3> SUFFICES ASSUME o.n \notin tried'[e] PROVE Nothing(e)' /\ queue'[e] = {o}
      BY <1>1, <2>1 DEF UnsentAt
    <3>1. c.n \notin tried[e]
      BY <1>1, <1>6, <2>0
    <3>2. Nothing(e) /\ queue[e] = {c}
      BY <1>0, <2>0, <3>1 DEF QueueAt, UnsentAt
    <3>3. queue'[e] = {o}
      BY <1>1, <1>6, <2>0, <3>2
    <3>4. Nothing(e)'
      BY <1>1, <3>2 DEF Nothing, Elsewhere
    <3> QED BY <3>3, <3>4
  <2>3. ~Dead => ~Deletes(queue[e]) /\ \A p \in queue[e] : p.kind # "update"
    BY <1>0, <1>1, <2>0 DEF QueueAt, OrderAt, Deletes
  <2>4. ~Dead' => OrderAt(e)' /\ HeldAt(e)'
    <3>1. ~Dead => /\ \A p \in queue'[e] : p = o
                   /\ ~Deletes(queue[e])
      BY <1>0, <2>1, <2>3, QueueFacts DEF Deletes, Kinds
    <3>2. ~Dead => HeldAt(e) /\ OrderAt(e)
      BY <1>0 DEF QueueAt
    <3>3. ~Dead => HeldAt(e)'
      BY <1>1, <3>1, <3>2 DEF HeldAt
    <3>4. ~Dead => OrderAt(e)'
      BY <1>1, <1>6, <3>1, <3>2 DEF OrderAt
    <3> QED BY <1>d, <3>3, <3>4
  <2>5. ~Dead' /\ log' = <<>> => FirstAt(e)'
    <3>1. o \in queue'[e] /\ o.kind = "create"
      BY <1>1, <1>6
    <3>2. PendingCreates(e)' # {}
      BY <3>1 DEF PendingCreates
    <3> QED BY <1>0, <1>1, <1>6, <1>d, <2>1, <2>3, <3>1, <3>2 DEF QueueAt, FirstAt, Sent
  <2> QED BY <1>2, <1>3, <2>2, <2>4, <2>5, QueuePartsNext DEF QueueAt
<1> QED BY <1>5, <1>6

LEMMA QueueDeleteQueue ==
  ASSUME ReplicaInv, NEW e \in Devices, QueueDelete(e)
  PROVE  QueueInv'
<1>0. WriteInv /\ TypeOK /\ QueueAt(e)
  BY QueueParts DEF ReplicaInv, WriteInv
<1>1. PICK o \in Ops :
           /\ Fresh(o) /\ o.kind = "delete"
           /\ writes' = writes + 1
           /\ local[e] # None /\ ~removing[e] /\ removing'[e]
           /\ (\E p \in PendingCreates(e) : p.n \notin tried[e]) =>
                /\ queue'[e] = {p \in queue[e] : p.n \in tried[e]}
                /\ awaiting'[e] = awaiting[e]
           /\ (\A p \in PendingCreates(e) : p.n \in tried[e]) =>
                /\ queue'[e] = {p \in queue[e] : p.n \in tried[e]} \cup {o}
                /\ awaiting'[e]
           /\ local'[e] = local[e] /\ tried'[e] = tried[e] /\ Elsewhere(e)
           /\ UNCHANGED <<row, log, req, local, cursor, pull>>
  BY <1>0, QueueDeleteEffect
<1>r. writes \in Nat
  BY <1>0, QueueFacts
<1>d. Dead' <=> Dead
  BY <1>1 DEF Dead, IsDelete
<1>2. \A d \in Devices \ {e} : QueueAt(d)'
  BY <1>1, QueueElsewhere
<1>3. Before'
  BY <1>1, <1>r DEF Before
<1>4. \A p : p \in PendingCreates(e) <=> p \in queue[e] /\ p.kind = "create"
  BY DEF PendingCreates
<1>5. CASE \E p \in PendingCreates(e) : p.n \notin tried[e]
  <2>1. PICK c \in queue[e] : c.kind = "create" /\ c.n \notin tried[e]
    BY <1>4, <1>5
  <2>2. Nothing(e) /\ queue[e] = {c}
    BY <1>0, <2>1 DEF QueueAt, UnsentAt
  <2>3. queue'[e] = {} /\ awaiting'[e] = awaiting[e]
    BY <1>1, <1>5, <2>1, <2>2
  <2>4. UnsentAt(e)'
    BY <1>1, <2>2, <2>3 DEF UnsentAt, Nothing, Elsewhere
  <2>5. ~Dead' => OrderAt(e)' /\ HeldAt(e)'
    BY <1>0, <1>1, <1>d, <2>1, <2>2, <2>3 DEF QueueAt, OrderAt, HeldAt, Deletes
  <2>6. ~Dead' /\ log' = <<>> => FirstAt(e)'
    BY <1>0, <1>1, <1>d, <2>3 DEF QueueAt, FirstAt, Deletes, Sent
  <2> QED BY <1>2, <1>3, <2>4, <2>5, <2>6, QueuePartsNext DEF QueueAt
<1>6. CASE \A p \in PendingCreates(e) : p.n \in tried[e]
  <2>1. queue'[e] = {p \in queue[e] : p.n \in tried[e]} \cup {o} /\ awaiting'[e]
    BY <1>1, <1>6
  <2>2. \A p \in queue'[e] : p = o \/ (p \in queue[e] /\ p.n \in tried[e] /\ p.n < o.n)
    <3>1. o.n = writes + 1 /\ \A p \in queue[e] : p.n < o.n
      BY <1>0, <1>1, <1>r, QueueFacts DEF Fresh
    <3> QED BY <2>1, <3>1
  <2>3. Deletes(queue[e])' /\ Deletes(queue'[e])
    BY <1>1, <2>1 DEF Deletes
  <2>4. UnsentAt(e)'
    BY <1>1, <2>2, <2>3 DEF UnsentAt
  <2>5. ~Dead' => OrderAt(e)' /\ HeldAt(e)'
    <3>1. ~Dead => HeldAt(e)'
      BY <2>3 DEF HeldAt
    <3>2. ~Dead => OrderAt(e)'
      BY <1>0, <1>1, <2>1, <2>2 DEF QueueAt, OrderAt
    <3> QED BY <1>d, <3>1, <3>2
  <2>6. ~Dead' /\ log' = <<>> => FirstAt(e)'
    <3> SUFFICES ASSUME ~Dead, log = <<>> PROVE FirstAt(e)'
      BY <1>1, <1>d
    <3>1. FirstAt(e)
      BY <1>0 DEF QueueAt
    <3>2. PICK c \in queue[e] : c.kind = "create" /\ c.n \in tried[e]
      BY <1>1, <1>4, <1>6, <3>1 DEF FirstAt
    <3>3. c \in queue'[e]
      BY <2>1, <3>2
    <3>4. PendingCreates(e)' # {}
      BY <3>2, <3>3 DEF PendingCreates
    <3> QED BY <1>1, <2>2, <3>1, <3>4 DEF FirstAt, Sent
  <2> QED BY <1>2, <1>3, <2>4, <2>5, <2>6, QueuePartsNext DEF QueueAt
<1> QED BY <1>5, <1>6

LEMMA RemoveRowQueue ==
  ASSUME ReplicaInv, NEW e \in Devices, RemoveRow(e)
  PROVE  QueueInv'
<1>0. WriteInv /\ TypeOK /\ QueueAt(e)
  BY QueueParts DEF ReplicaInv, WriteInv
<1>1. /\ removing[e] /\ ~removing'[e] /\ local'[e] = None
      /\ \A d \in Devices \ {e} : local'[d] = local[d] /\ removing'[d] = removing[d]
      /\ UNCHANGED <<clock, writes, row, log, req, queue, tried, awaiting, cursor, pull>>
  BY <1>0, RemoveRowEffect
<1>d. Dead' <=> Dead
  BY <1>1 DEF Dead, IsDelete
<1>2. \A d \in Devices \ {e} : QueueAt(d)'
  <2>1. Elsewhere(e)
    BY <1>1 DEF Elsewhere
  <2> QED BY <1>1, <2>1, QueueElsewhere
<1>3. Before'
  BY <1>1 DEF ReplicaInv, QueueInv, Before
<1>4. UnsentAt(e)'
  BY <1>0, <1>1, <1>d DEF QueueAt, UnsentAt
<1>5. ~Dead' => OrderAt(e)' /\ HeldAt(e)'
  BY <1>0, <1>1, <1>d DEF QueueAt, OrderAt, HeldAt, Deletes
<1>6. ~Dead' /\ log' = <<>> => FirstAt(e)'
  BY <1>0, <1>1, <1>d DEF QueueAt, FirstAt, Deletes, PendingCreates, Sent
<1> QED BY <1>2, <1>3, <1>4, <1>5, <1>6, QueuePartsNext DEF QueueAt

LEMMA SendQueue ==
  ASSUME ReplicaInv, NEW e \in Devices, Send(e)
  PROVE  QueueInv'
<1>0. WriteInv /\ TypeOK /\ Before /\ e \in Writers /\ \A d \in Devices : QueueAt(d)
  BY QueueParts, InWriters DEF ReplicaInv, WriteInv
<1>1. PICK k \in Slots : \E b \in [1..k -> queue[e]] :
           /\ Oldest(b, queue[e]) /\ DOMAIN b = 1..k
           /\ ToSet(b) \subseteq queue[e]
           /\ tried' = [tried EXCEPT ![e] = @ \cup {o.n : o \in ToSet(b)}]
           /\ req'[e].stage = "sent" /\ req'[e].ops = b
           /\ \A v \in Writers \ {e} : req'[v] = req[v]
           /\ UNCHANGED <<writes, row, log, local, queue, awaiting, removing, pull>>
  BY <1>0, SendEffect DEF tally
<1>2. PICK b \in [1..k -> queue[e]] :
           /\ Oldest(b, queue[e]) /\ DOMAIN b = 1..k
           /\ ToSet(b) \subseteq queue[e]
           /\ tried' = [tried EXCEPT ![e] = @ \cup {o.n : o \in ToSet(b)}]
           /\ req'[e].stage = "sent" /\ req'[e].ops = b
           /\ \A v \in Writers \ {e} : req'[v] = req[v]
           /\ UNCHANGED <<writes, row, log, local, queue, awaiting, removing, pull>>
  BY <1>1
<1>3. 1 \in DOMAIN b /\ b[1] \in queue[e] /\ b[1] \in ToSet(b)
  BY <1>2, Bounds DEF Slots, ToSet
<1>4. /\ tried[e] \subseteq tried'[e] /\ b[1].n \in tried'[e]
      /\ \A d \in Devices \ {e} : tried'[d] = tried[d]
  BY <1>0, <1>2, <1>3 DEF TypeOK
<1>d. (Dead' <=> Dead) /\ \A d \in Devices : (Deletes(queue[d])' <=> Deletes(queue[d]))
  BY <1>2 DEF Dead, IsDelete, Deletes
<1>5. Before'
  BY <1>0, <1>2, <1>3 DEF Before
<1>6. ASSUME NEW d \in Devices PROVE UnsentAt(d)'
  <2>1. CASE d = e
    <3>1. ASSUME NEW o \in queue[e], o.kind = "create", o.n \notin tried'[e] PROVE FALSE
      <4>1. queue[e] = {o}
        BY <1>0, <1>4, <3>1 DEF QueueAt, UnsentAt
      <4> QED BY <1>3, <1>4, <3>1, <4>1
    <3>2. ~Dead /\ removing[e] => Deletes(queue[e])
      BY <1>0, <1>3 DEF QueueAt, UnsentAt
    <3> QED BY <1>2, <1>d, <2>1, <3>1, <3>2 DEF UnsentAt
  <2>2. CASE d # e
    <3>1. ~Nothing(d)
      BY <1>3, <2>2 DEF Nothing
    <3> QED BY <1>0, <1>2, <1>4, <1>d, <2>2, <3>1 DEF QueueAt, UnsentAt
  <2> QED BY <2>1, <2>2
<1>7. ASSUME NEW d \in Devices PROVE ~Dead' => OrderAt(d)' /\ HeldAt(d)'
  <2> SUFFICES ASSUME ~Dead PROVE OrderAt(d)' /\ HeldAt(d)'
    BY <1>d
  <2>0. OrderAt(d) /\ HeldAt(d) /\ OrderAt(e)
    BY <1>0 DEF QueueAt
  <2>1. HeldAt(d)'
    BY <1>2, <1>d, <2>0 DEF HeldAt
  <2>2. CASE d # e
    <3>1. req'[d] = req[d]
      BY <1>2, <2>2, InWriters
    <3> QED BY <1>2, <2>0, <2>1, <3>1 DEF OrderAt
  <2>3. CASE d = e
    <3>1. ASSUME NEW i \in DOMAIN b, NEW j \in DOMAIN b, b[i].kind = "create", b[j].kind = "delete"
          PROVE  i < j
      <4>1. b[i] \in queue[e] /\ b[j] \in queue[e] /\ i \in Nat /\ j \in Nat
        BY <1>2
      <4>2. b[i].n < b[j].n /\ b[i].n \in Nat /\ b[j].n \in Nat
        BY <1>0, <2>0, <3>1, <4>1, QueueFacts DEF OrderAt
      <4>3. CASE j < i
        <5>1. b[j].n < b[i].n
          BY <1>2, <4>3 DEF Oldest
        <5> QED BY <4>2, <5>1
      <4>4. i # j
        BY <3>1
      <4> QED BY <4>1, <4>3, <4>4
    <3>2. \A o, p \in queue'[e] : o.kind = "create" =>
            /\ p.kind # "update"
            /\ p.kind = "delete" => o.n < p.n /\ awaiting'[e] /\ (removing'[e] \/ local'[e] = None)
      BY <1>2, <2>0 DEF OrderAt
    <3>3. \A i, j \in DOMAIN req'[e].ops :
            req'[e].ops[i].kind = "create" /\ req'[e].ops[j].kind = "delete" => i < j
      BY <1>2, <3>1
    <3>4. OrderAt(e)'
      BY <3>2, <3>3 DEF OrderAt
    <3> QED BY <2>1, <2>3, <3>4
  <2> QED BY <2>2, <2>3
<1>8. ASSUME NEW d \in Devices PROVE ~Dead' /\ log' = <<>> => FirstAt(d)'
  <2> SUFFICES ASSUME ~Dead, log = <<>> PROVE FirstAt(d)'
    BY <1>2, <1>d
  <2>0. FirstAt(d) /\ FirstAt(e)
    BY <1>0 DEF QueueAt
  <2>1. \A o \in ToSet(b) : o.kind # "update"
    BY <1>2, <2>0 DEF FirstAt
  <2>2. d # e => req'[d] = req[d]
    BY <1>2, InWriters
  <2> QED BY <1>2, <1>d, <2>0, <2>1, <2>2 DEF FirstAt, Sent, PendingCreates
<1> QED BY <1>5, <1>6, <1>7, <1>8, QueuePartsNext DEF QueueAt

LEMMA AcknowledgeQueue ==
  ASSUME ReplicaInv, NEW e \in Devices, Acknowledge(e)
  PROVE  QueueInv'
<1>0. WriteInv /\ TypeOK /\ Before /\ e \in Writers /\ \A d \in Devices : QueueAt(d)
  BY QueueParts, InWriters DEF ReplicaInv, WriteInv
<1>1. /\ req[e].stage = "answered" /\ req'[e] = NoReq
      /\ \A v \in Writers \ {e} : req'[v] = req[v]
      /\ \A o \in queue[e] : o \in queue'[e] \/ \E p \in Sent(e) : o.n = p.n
      /\ \A o \in queue'[e] : o \in queue[e] /\ \A p \in Sent(e) : o.n # p.n
      /\ \A n \in tried[e] : n \in tried'[e] \/ \E p \in Sent(e) : n = p.n
      /\ awaiting'[e] = (awaiting[e] \/ Deletes(Sent(e)))
      /\ \A d \in Devices \ {e} :
           queue'[d] = queue[d] /\ tried'[d] = tried[d] /\ awaiting'[d] = awaiting[d]
      /\ UNCHANGED <<clock, tally, row, log, local, removing, cursor, pull, gone>>
  BY <1>0, AcknowledgeEffect
<1>2. req[e].stage # "idle" /\ req'[e].stage = "idle" /\ \A d \in Devices : ~Nothing(d)
  BY <1>0, <1>1, NoReqTyped DEF Nothing
<1>d. Dead' <=> Dead
  BY <1>1 DEF Dead, IsDelete
<1>3. \A o \in Sent(e) : \E k \in DOMAIN log : log[k].op = o
  BY <1>0, <1>1 DEF WriteInv, AnsweredLogged
<1>4. ~Dead => ~Deletes(Sent(e))
  BY <1>3 DEF Dead, IsDelete, Deletes
\* What leaves the queue was sent, and is in the log.
<1>5. \A o \in queue[e] : o \in queue'[e] \/ o \in Sent(e)
  BY <1>0, <1>1 DEF WriteInv, OneByNumber
<1>6. ~Dead => (Deletes(queue'[e]) <=> Deletes(queue[e])) /\ awaiting'[e] = awaiting[e]
  <2>1. ~Dead => (Deletes(queue'[e]) <=> Deletes(queue[e]))
    BY <1>1, <1>4, <1>5 DEF Deletes
  <2>2. ~Dead => awaiting'[e] = awaiting[e]
    BY <1>0, <1>1, <1>4 DEF TypeOK
  <2> QED BY <2>1, <2>2
<1>b. Before'
  BY <1>0, <1>1, <1>2 DEF Before, tally
<1>7. ASSUME NEW d \in Devices \ {e} PROVE QueueAt(d)'
  <2>1. QueueAt(d) /\ ~Nothing(d) /\ queue'[d] = queue[d] /\ tried'[d] = tried[d]
        /\ awaiting'[d] = awaiting[d] /\ req'[d] = req[d]
        /\ UNCHANGED <<log, local, removing, pull>>
    BY <1>0, <1>1, <1>2, InWriters
  <2>2. UnsentAt(d)'
    BY <1>d, <2>1 DEF QueueAt, UnsentAt, Deletes
  <2>3. ~Dead' => OrderAt(d)' /\ HeldAt(d)'
    BY <1>d, <2>1 DEF QueueAt, OrderAt, HeldAt, Deletes
  <2>4. ~Dead' /\ log' = <<>> => FirstAt(d)'
    BY <1>d, <2>1 DEF QueueAt, FirstAt, Deletes, PendingCreates, Sent
  <2> QED BY <2>2, <2>3, <2>4 DEF QueueAt
<1>8. UnsentAt(e)'
  <2>1. \A o \in queue'[e] : o.n \notin tried'[e] => o.n \notin tried[e]
    BY <1>1
  <2> QED BY <1>0, <1>1, <1>2, <1>d, <1>6, <2>1 DEF QueueAt, UnsentAt, Deletes
<1>9. ~Dead' => OrderAt(e)' /\ HeldAt(e)'
  <2> SUFFICES ASSUME ~Dead PROVE OrderAt(e)' /\ HeldAt(e)'
    BY <1>d
  <2>1. OrderAt(e) /\ HeldAt(e)
    BY <1>0 DEF QueueAt
  <2>2. OrderAt(e)'
    BY <1>1, <1>2, <1>6, <2>1 DEF OrderAt
  <2>3. HeldAt(e)'
    BY <1>1, <1>6, <2>1 DEF HeldAt, Deletes
  <2> QED BY <2>2, <2>3
<1>10. ~Dead' /\ log' = <<>> => FirstAt(e)'
  <2> SUFFICES ASSUME ~Dead, log = <<>> PROVE FirstAt(e)'
    BY <1>1, <1>d
  <2>1. Sent(e) = {}
    BY <1>3
  <2>2. queue'[e] = queue[e]
    BY <1>1, <1>5, <2>1
  <2>3. FirstAt(e)
    BY <1>0 DEF QueueAt
  <2> QED BY <1>1, <1>2, <2>2, <2>3 DEF FirstAt, Deletes, PendingCreates
<1> QED BY <1>b, <1>7, <1>8, <1>9, <1>10, QueuePartsNext DEF QueueAt

LEMMA ApiBeginQueue ==
  ASSUME ReplicaInv, NEW a \in Apis, NEW t \in Stamps, NEW kind \in Kinds, ApiBegin(a, t, kind)
  PROVE  QueueInv'
<1>0. WriteInv /\ TypeOK /\ Before /\ a \notin Devices /\ \A d \in Devices : QueueAt(d)
  BY QueueParts, WriterAssumption DEF ReplicaInv, WriteInv
<1>1. /\ writes' = writes + 1 /\ (row # None \/ writes = 0)
      /\ \A v \in Writers \ {a} : req'[v] = req[v]
      /\ UNCHANGED <<row, log, local, queue, tried, awaiting, removing, pull>>
  BY <1>0, ApiBeginEffect DEF queueVars
<1>r. writes \in Nat
  BY <1>0, Bounds DEF TypeOK
<1>d. Dead' <=> Dead
  BY <1>1 DEF Dead, IsDelete
<1>2. Before'
  BY <1>1, <1>r DEF Before
<1>3. ASSUME NEW d \in Devices PROVE QueueAt(d)'
  <2>0. req'[d] = req[d] /\ QueueAt(d)
    BY <1>0, <1>1, InWriters
  <2>1. UnsentAt(d)'
    <3>1. CASE writes = 0
      BY <1>0, <1>1, <3>1 DEF Before, UnsentAt
    <3>2. CASE row # None
      <4>1. ~Nothing(d)
        BY <3>2 DEF Nothing
      <4> QED BY <1>1, <1>d, <2>0, <4>1 DEF QueueAt, UnsentAt, Deletes
    <3> QED BY <1>1, <3>1, <3>2
  <2>2. ~Dead' => OrderAt(d)' /\ HeldAt(d)'
    BY <1>1, <1>d, <2>0 DEF QueueAt, OrderAt, HeldAt, Deletes
  <2>3. ~Dead' /\ log' = <<>> => FirstAt(d)'
    BY <1>1, <1>d, <2>0 DEF QueueAt, FirstAt, Deletes, PendingCreates, Sent
  <2> QED BY <2>1, <2>2, <2>3 DEF QueueAt
<1> QED BY <1>2, <1>3, QueuePartsNext

LEMMA PullNextEffect ==
  ASSUME TypeOK, NEW d \in Devices, PullNext(d)
  PROVE  \E k \in pull[d].todo :
           /\ pull[d].stage = "applying" /\ \A l \in pull[d].todo : k <= l
           /\ k \in DOMAIN log /\ k <= pull[d].upto
           /\ pull'[d].stage = "applying" /\ pull'[d].todo = pull[d].todo \ {k}
           /\ pull'[d].upto = pull[d].upto /\ pull'[d].hold = pull[d].hold
           /\ local'[d] = IF log[k].op.kind # "delete" /\ (pull[d].hold \/ awaiting[d]) THEN local[d]
                          ELSE IF log[k].op.kind = "delete" THEN None
                          ELSE IF Wins(local[d], log[k].op.val) THEN log[k].op.val ELSE local[d]
           /\ log[k].op.kind # "delete" => awaiting'[d] = awaiting[d]
           /\ awaiting'[d] => awaiting[d]
           /\ \A e \in Devices \ {d} : local'[e] = local[e] /\ awaiting'[e] = awaiting[e]
                                       /\ pull'[e] = pull[e]
           /\ UNCHANGED <<clock, tally, serverVars, queue, tried, removing, cursor>>
<1>0. /\ local \in [Devices -> Values \cup {None}] /\ awaiting \in [Devices -> BOOLEAN]
      /\ pull \in [Devices -> Pulls] /\ pull[d] \in Pulls
  BY DEF TypeOK
<1>1. PICK k \in pull[d].todo :
            /\ pull[d].stage = "applying" /\ \A l \in pull[d].todo : k <= l
            /\ pull' = [pull EXCEPT ![d] = [pull[d] EXCEPT !.todo = @ \ {k}]]
            /\ local' = [local EXCEPT ![d] =
                 IF log[k].op.kind # "delete" /\ (pull[d].hold \/ awaiting[d]) THEN @
                 ELSE IF log[k].op.kind = "delete" THEN None
                 ELSE IF Wins(@, log[k].op.val) THEN log[k].op.val ELSE @]
            /\ awaiting' = [awaiting EXCEPT ![d] = @ /\ log[k].op.kind # "delete"]
            /\ UNCHANGED <<clock, tally, serverVars, queue, tried, removing, cursor>>
  BY Zenon DEF PullNext
<1> DEFINE p == [pull[d] EXCEPT !.todo = @ \ {k}]
<1>2. p.stage = pull[d].stage /\ p.todo = pull[d].todo \ {k} /\ p.upto = pull[d].upto
      /\ p.hold = pull[d].hold
  BY <1>0 DEF Pulls
<1> HIDE DEF p
<1>3. pull'[d] = p /\ \A e \in Devices \ {d} : pull'[e] = pull[e]
  BY <1>0, <1>1 DEF p
<1>4. k \in DOMAIN log /\ k <= pull[d].upto
  <2>1. k \in 1..pull[d].upto /\ pull[d].upto <= Len(log) /\ pull[d].upto \in 0..MaxLog
    BY <1>0 DEF TypeOK, Pulls
  <2>2. Len(log) \in Nat /\ DOMAIN log = 1..Len(log) /\ pull[d].upto \in Nat
    BY <2>1, Bounds, LogFacts
  <2> QED BY <2>1, <2>2
<1>5. /\ local'[d] = IF log[k].op.kind # "delete" /\ (pull[d].hold \/ awaiting[d]) THEN local[d]
                     ELSE IF log[k].op.kind = "delete" THEN None
                     ELSE IF Wins(local[d], log[k].op.val) THEN log[k].op.val ELSE local[d]
      /\ \A e \in Devices \ {d} : local'[e] = local[e]
  BY <1>0, <1>1
<1>6. /\ log[k].op.kind # "delete" => awaiting'[d] = awaiting[d]
      /\ awaiting'[d] => awaiting[d]
      /\ \A e \in Devices \ {d} : awaiting'[e] = awaiting[e]
  BY <1>0, <1>1
<1> QED BY <1>1, <1>2, <1>3, <1>4, <1>5, <1>6

LEMMA PullEffect ==
  ASSUME TypeOK, NEW d \in Devices, Pull(d), ~PullNext(d)
  PROVE  /\ \A e \in Devices \ {d} : pull'[e] = pull[e] /\ cursor'[e] = cursor[e]
         /\ \/ PullFetch(d) /\ UNCHANGED cursor
               /\ pull[d].stage = "idle" /\ cursor[d] < Len(log)
               /\ ("unmarkedPull" \in Races \/ \A k \in pull'[d].todo : ~Unmarked(k))
               /\ pull'[d].stage = "fetched" /\ pull'[d].upto = Len(log)
               /\ pull'[d].todo = {k \in (cursor[d] + 1)..Len(log) : log[k].applied}
            \/ PullBegin(d) /\ UNCHANGED cursor
               /\ pull[d].stage = "fetched" /\ pull'[d].stage = "applying"
               /\ pull'[d].todo = pull[d].todo /\ pull'[d].upto = pull[d].upto
               /\ pull'[d].hold = Deletes(queue[d])
            \/ pull[d].stage = "applying" /\ pull[d].todo = {} /\ pull'[d] = NoPull
               /\ (cursor'[d] <= pull[d].upto \/ cursor'[d] = cursor[d])
         /\ UNCHANGED <<clock, tally, serverVars, local, queueVars>>
<1>0. /\ pull \in [Devices -> Pulls] /\ pull[d] \in Pulls /\ cursor \in [Devices -> 0..MaxLog]
  BY DEF TypeOK
<1>1. CASE PullFetch(d)
  <2> DEFINE todo == {k \in (cursor[d] + 1)..Len(log) : log[k].applied}
             p == [NoPull EXCEPT !.stage = "fetched", !.todo = todo, !.upto = Len(log)]
  <2>1. /\ pull' = [pull EXCEPT ![d] = p] /\ pull[d].stage = "idle" /\ cursor[d] < Len(log)
        /\ ("unmarkedPull" \in Races \/ \A k \in todo : ~Unmarked(k))
        /\ UNCHANGED <<clock, tally, serverVars, local, queueVars, cursor>>
    BY <1>1 DEF PullFetch
  <2>2. p.stage = "fetched" /\ p.todo = todo /\ p.upto = Len(log)
    BY NoPullTyped DEF Pulls
  <2> HIDE DEF p
  <2>3. pull'[d] = p /\ \A e \in Devices \ {d} : pull'[e] = pull[e]
    BY <1>0, <2>1
  <2> QED BY <1>1, <2>1, <2>2, <2>3
<1>2. CASE PullBegin(d)
  <2> DEFINE p == [pull[d] EXCEPT !.stage = "applying", !.hold = Deletes(queue[d])]
  <2>1. /\ pull' = [pull EXCEPT ![d] = p] /\ pull[d].stage = "fetched"
        /\ UNCHANGED <<clock, tally, serverVars, local, queueVars, cursor>>
    BY <1>2 DEF PullBegin, Deletes
  <2>2. p.stage = "applying" /\ p.todo = pull[d].todo /\ p.upto = pull[d].upto
        /\ p.hold = Deletes(queue[d])
    BY <1>0 DEF Pulls
  <2> HIDE DEF p
  <2>3. pull'[d] = p /\ \A e \in Devices \ {d} : pull'[e] = pull[e]
    BY <1>0, <2>1
  <2> QED BY <1>2, <2>1, <2>2, <2>3
<1>3. ASSUME NEW held \in 0..Redelivery, PullEnd(d, held)
      PROVE  /\ pull[d].stage = "applying" /\ pull[d].todo = {} /\ pull'[d] = NoPull
             /\ (cursor'[d] <= pull[d].upto \/ cursor'[d] = cursor[d])
             /\ \A e \in Devices \ {d} : pull'[e] = pull[e] /\ cursor'[e] = cursor[e]
             /\ UNCHANGED <<clock, tally, serverVars, local, queueVars>>
  <2>1. /\ pull[d].stage = "applying" /\ pull[d].todo = {}
        /\ cursor' = [cursor EXCEPT ![d] =
             IF @ + held < pull[d].upto THEN pull[d].upto - held ELSE @]
        /\ pull' = [pull EXCEPT ![d] = NoPull]
        /\ UNCHANGED <<clock, tally, serverVars, local, queueVars>>
    BY <1>3 DEF PullEnd
  <2>2. pull[d].upto \in Nat /\ held \in Nat
    BY <1>0, Bounds DEF Pulls
  <2>3. cursor'[d] = cursor[d] \/ cursor'[d] = pull[d].upto - held
    BY <1>0, <2>1
  <2>4. cursor'[d] <= pull[d].upto \/ cursor'[d] = cursor[d]
    BY <2>2, <2>3
  <2> QED BY <1>0, <2>1, <2>4
<1> QED BY <1>1, <1>2, <1>3 DEF Pull

LEMMA PullQueue ==
  ASSUME ReplicaInv, NEW e \in Devices, Pull(e)
  PROVE  QueueInv'
<1>0. WriteInv /\ TypeOK /\ Before /\ \A d \in Devices : QueueAt(d)
  BY QueueParts DEF ReplicaInv, WriteInv
<1>f. UNCHANGED <<writes, row, log, req, queue, tried, removing>>
  BY PullFrame DEF tally, serverVars
<1>d. (Dead' <=> Dead) /\ \A d \in Devices : (Deletes(queue[d])' <=> Deletes(queue[d]))
  BY <1>f DEF Dead, IsDelete, Deletes
<1>1. CASE PullNext(e)
  <2>1. PICK k \in pull[e].todo :
           /\ pull[e].stage = "applying" /\ k \in DOMAIN log
           /\ pull'[e].stage = "applying" /\ pull'[e].hold = pull[e].hold
           /\ (log[k].op.kind # "delete" /\ awaiting[e] => local'[e] = local[e])
           /\ (log[k].op.kind # "delete" => awaiting'[e] = awaiting[e])
           /\ (awaiting'[e] => awaiting[e])
           /\ \A d \in Devices \ {e} : local'[d] = local[d] /\ awaiting'[d] = awaiting[d]
                                       /\ pull'[d] = pull[d]
    BY <1>0, <1>1, PullNextEffect
  <2>2. log # <<>> /\ \A d \in Devices : ~Nothing(d)
    BY <2>1 DEF Nothing
  <2>3. ~Dead => log[k].op.kind # "delete"
    BY <2>1 DEF Dead, IsDelete
  <2>4. Before'
    BY <1>0, <1>f, <2>2 DEF Before
  <2>5. ASSUME NEW d \in Devices PROVE UnsentAt(d)'
    BY <1>0, <1>f, <1>d, <2>2 DEF QueueAt, UnsentAt
  <2>6. ASSUME NEW d \in Devices, ~Dead PROVE OrderAt(d)' /\ HeldAt(d)'
    <3>0. OrderAt(d) /\ HeldAt(d)
      BY <1>0, <2>6 DEF QueueAt
    <3>1. HeldAt(d)'
      BY <1>d, <2>1, <3>0 DEF HeldAt
    <3>2. awaiting'[d] = awaiting[d] /\ (awaiting[d] => local'[d] = local[d])
      BY <2>1, <2>3, <2>6
    <3>3. OrderAt(d)'
      BY <1>f, <3>0, <3>2 DEF OrderAt
    <3> QED BY <3>1, <3>3
  <2> QED BY <1>d, <1>f, <2>2, <2>4, <2>5, <2>6, QueuePartsNext DEF QueueAt
<1>2. CASE ~PullNext(e)
  <2>1. /\ UNCHANGED <<local, awaiting>>
        /\ \A d \in Devices \ {e} : pull'[d] = pull[d]
        /\ pull'[e].stage = "applying" /\ pull'[e].hold => Deletes(queue[e])
    BY <1>0, <1>2, PullEffect, NoPullTyped DEF queueVars
  <2>2. Before'
    BY <1>0, <1>f, <2>1 DEF Before
  <2>3. ASSUME NEW d \in Devices PROVE UnsentAt(d)'
    BY <1>0, <1>f, <1>d, <2>1 DEF QueueAt, UnsentAt, Nothing
  <2>4. ASSUME NEW d \in Devices, ~Dead PROVE OrderAt(d)' /\ HeldAt(d)'
    <3>0. OrderAt(d) /\ HeldAt(d)
      BY <1>0, <2>4 DEF QueueAt
    <3> QED BY <1>d, <1>f, <2>1, <3>0 DEF OrderAt, HeldAt
  <2>5. ASSUME NEW d \in Devices, ~Dead, log = <<>> PROVE FirstAt(d)'
    <3>0. FirstAt(d)
      BY <1>0, <2>5 DEF QueueAt
    <3> QED BY <1>d, <1>f, <2>1, <3>0 DEF FirstAt, PendingCreates, Sent
  <2> QED BY <1>d, <1>f, <2>2, <2>3, <2>4, <2>5, QueuePartsNext DEF QueueAt
<1> QED BY <1>1, <1>2

LEMMA ReloadQueue ==
  ASSUME ReplicaInv, Races = {}, NEW e \in Devices, Reload(e)
  PROVE  QueueInv'
<1>0. WriteInv /\ TypeOK /\ Before /\ e \in Writers /\ \A d \in Devices : QueueAt(d)
  BY QueueParts, InWriters DEF ReplicaInv, WriteInv
<1>1. /\ removing[e] => awaiting[e]
      /\ \A o \in PendingCreates(e) : o.n \notin tried[e]
      /\ ~awaiting'[e] /\ ~removing'[e] /\ pull'[e] = NoPull
      /\ \A d \in Devices \ {e} :
           /\ tried'[d] = tried[d] /\ awaiting'[d] = awaiting[d]
           /\ removing'[d] = removing[d] /\ pull'[d] = pull[d]
      /\ Applying(e) => req'[e].stage = "applying"
      /\ ~Applying(e) => req'[e] = NoReq
      /\ \A v \in Writers \ {e} : req'[v] = req[v]
      /\ UNCHANGED <<clock, writes, row, log, local, queue, cursor>>
  BY <1>0, ReloadEffect
<1>d. (Dead' <=> Dead) /\ \A d \in Devices : (Deletes(queue[d])' <=> Deletes(queue[d]))
  BY <1>1 DEF Dead, IsDelete, Deletes
<1>2. \A d \in Devices : Nothing(d) => Nothing(d)'
  BY <1>0, <1>1, NoReqTyped DEF Nothing, Applying
<1>3. Before'
  BY <1>0, <1>1, NoReqTyped DEF Before, Applying
<1>4. ASSUME NEW d \in Devices \ {e} PROVE QueueAt(d)'
  <2>0. QueueAt(d) /\ req'[d] = req[d]
    BY <1>0, <1>1, InWriters
  <2>1. UnsentAt(d)'
    BY <1>1, <1>2, <1>d, <2>0 DEF QueueAt, UnsentAt
  <2>2. ~Dead' => OrderAt(d)' /\ HeldAt(d)'
    BY <1>1, <1>d, <2>0 DEF QueueAt, OrderAt, HeldAt
  <2>3. ~Dead' /\ log' = <<>> => FirstAt(d)'
    BY <1>1, <1>d, <2>0 DEF QueueAt, FirstAt, PendingCreates, Sent
  <2> QED BY <2>1, <2>2, <2>3 DEF QueueAt
<1>5. \A o \in queue[e] : o.kind = "create" => Nothing(e) /\ queue[e] = {o} /\ ~removing[e]
  BY <1>0, <1>1 DEF QueueAt, UnsentAt, PendingCreates
<1>6. UnsentAt(e)'
  BY <1>1, <1>2, <1>5 DEF UnsentAt
<1>s. req'[e].stage # "sent"
  BY <1>1, NoReqTyped
<1>7. ~Dead' => OrderAt(e)' /\ HeldAt(e)'
  <2>1. HeldAt(e)'
    BY <1>1, NoPullTyped DEF HeldAt
  <2>2. OrderAt(e)'
    BY <1>1, <1>5, <1>s DEF OrderAt
  <2> QED BY <2>1, <2>2
<1>8. ~Dead' /\ log' = <<>> => FirstAt(e)'
  <2> SUFFICES ASSUME ~Dead, log = <<>> PROVE FirstAt(e)'
    BY <1>1, <1>d
  <2>0. FirstAt(e) /\ HeldAt(e)
    BY <1>0 DEF QueueAt
  <2>1. removing[e] => PendingCreates(e) # {}
    BY <1>1, <2>0 DEF HeldAt, FirstAt
  <2> QED BY <1>1, <1>d, <1>s, <2>0, <2>1 DEF FirstAt, PendingCreates
<1> QED BY <1>3, <1>4, <1>6, <1>7, <1>8, QueuePartsNext DEF QueueAt

LEMMA QueueNext ==
  ASSUME ReplicaInv, Races = {}, [Next]_vars
  PROVE  QueueInv'
<1>1. ASSUME NEW d \in Devices, Next, Push(d) PROVE QueueInv'
  BY <1>1, BusySteps, SendQueue, AcknowledgeQueue DEF Push
<1>2. ASSUME NEW d \in Devices, LocalWrite(d) PROVE QueueInv'
  BY <1>2, CreateQueue, EditQueue, QueueDeleteQueue, RemoveRowQueue DEF LocalWrite
<1>3. ASSUME NEW a \in Apis, Next, ApiWrite(a) PROVE QueueInv'
  BY <1>3, ApiBeginQueue, BusySteps DEF ApiWrite, Kinds
<1>4. CASE UNCHANGED vars
  BY <1>4 DEF vars, tally, serverVars, queueVars, ReplicaInv, QueueInv, Before, Unsent, QueueOrder,
       CreateFirst, HeldForDelete, Nothing, Dead, IsDelete, Deletes, PendingCreates, Sent
<1> QED BY <1>1, <1>2, <1>3, <1>4, BusySteps, PullQueue, ReloadQueue DEF Next

-----------------------------------------------------------------------------
(* Nothing races: the replay on a device *)

PullsAt(d) == pull[d].stage # "idle" =>
  /\ cursor[d] <= pull[d].upto
  /\ \A k \in pull[d].todo : cursor[d] < k /\ log[k].applied /\ ~Unmarked(k)
  /\ \A i \in pull[d].todo : \A k \in i..pull[d].upto : log[k].applied => k \in pull[d].todo

DeadAt(d) == local[d] # None => \E k \in DOMAIN log : IsDelete(k) /\ k \notin Replayed(d)

WinnerAt(d) == ~Deletes(queue[d]) =>
  \A k \in Replayed(d) : local[d] # None /\ log[k].op.val.ts <= local[d].ts

SourceAt(d) == ~Deletes(queue[d]) /\ local[d] # None /\ ~removing[d] =>
  \/ \E o \in queue[d] : o.val = local[d] /\ \A k \in DOMAIN log : log[k].op.val # o.val
  \/ \E q \in DOMAIN log :
       /\ log[q].op.val = local[d]
       /\ q \in Replayed(d) =>
            \A k \in Replayed(d) : k > q => log[k].op.val.ts < local[d].ts

DeviceAt(d) == PullsAt(d) /\ (Dead => DeadAt(d)) /\ (~Dead => WinnerAt(d) /\ SourceAt(d))

LEMMA DeviceParts == DeviceInv <=> \A d \in Devices : DeviceAt(d)
BY DEF DeviceInv, PullsAll, DeviceDead, DeviceWinner, DeviceSource, DeviceAt, PullsAt, DeadAt,
       WinnerAt, SourceAt

LEMMA DevicePartsNext == (\A d \in Devices : DeviceAt(d)') => DeviceInv'
BY DEF DeviceInv, PullsAll, DeviceDead, DeviceWinner, DeviceSource, DeviceAt, PullsAt, DeadAt,
       WinnerAt, SourceAt

LEMMA PullFacts ==
  ASSUME TypeOK, NEW d \in Devices
  PROVE  /\ cursor[d] \in Nat /\ pull[d].upto \in Nat /\ pull[d] \in Pulls
         /\ cursor[d] <= Len(log) /\ pull[d].upto <= Len(log)
         /\ pull[d].todo \subseteq 1..pull[d].upto /\ pull[d].todo \subseteq DOMAIN log
         /\ Replayed(d) \subseteq DOMAIN log
<1>1. /\ cursor[d] \in Nat /\ pull[d].upto \in Nat /\ pull[d] \in Pulls
      /\ cursor[d] <= Len(log) /\ pull[d].upto <= Len(log)
      /\ pull[d].todo \subseteq 1..pull[d].upto
  BY Bounds DEF TypeOK, Pulls
<1>2. Len(log) \in Nat /\ DOMAIN log = 1..Len(log)
  BY LogFacts
<1>3. 1..cursor[d] \subseteq DOMAIN log /\ 1..pull[d].upto \subseteq DOMAIN log
  BY <1>1, <1>2
<1> QED BY <1>1, <1>3 DEF Replayed

\* The log grows, or less of it is marked as applied; the devices stand still.
LEMMA LogSteps ==
  ASSUME ReplicaInv, [Next]_vars, UNCHANGED <<local, queue, removing, cursor, pull>>,
         \A k \in DOMAIN log : log'[k].applied => log[k].applied,
         \A k \in DOMAIN log : log[k].applied /\ ~Unmarked(k) => log'[k].applied,
         \A d \in Devices : Applying(d)' =>
           \/ Applying(d) /\ req'[d].at = req[d].at /\ req'[d].ops = req[d].ops
           \/ req'[d].at = Len(log)
  PROVE  DeviceInv'
<1>0. /\ TypeOK /\ TypeOK' /\ (Dead => Dead')
      /\ \A k \in DOMAIN log : k \in DOMAIN log' /\ log'[k].op = log[k].op
      /\ \A d \in Devices : DeviceAt(d)
  BY TypeNext, DeadStays, Origin, DeviceParts DEF ReplicaInv, WriteInv, OriginStep, LogStep
<1>1. /\ Len(log) \in Nat /\ DOMAIN log = 1..Len(log)
      /\ Len(log)' \in Nat /\ DOMAIN log' = 1..Len(log')
  <2>1. log' \in Seq(Entries)
    BY <1>0 DEF TypeOK
  <2> QED BY <1>0, <2>1, LogFacts
<1>2. \A k \in DOMAIN log : Unmarked(k)' => Unmarked(k)
  <2> SUFFICES ASSUME NEW k \in DOMAIN log, NEW d \in Devices, Applying(d)',
                      k \in (req'[d].at + 1)..(req'[d].at + Len(req'[d].ops)),
                      log'[k].op.kind = "update"
               PROVE  Unmarked(k)
    BY DEF Unmarked, Applying
  <2>1. k <= Len(log) /\ k \in Nat
    BY <1>1
  <2>2. ~(req'[d].at = Len(log))
    BY <1>1, <2>1
  <2> QED BY <1>0, <2>2 DEF Unmarked, Applying
<1>3. ASSUME NEW d \in Devices PROVE DeviceAt(d)'
  <2>0. DeviceAt(d) /\ Replayed(d)' = Replayed(d)
    BY <1>0 DEF Replayed
  <2>f. /\ pull[d].todo \subseteq DOMAIN log /\ Replayed(d) \subseteq DOMAIN log
        /\ \A i \in pull[d].todo : i..pull[d].upto \subseteq DOMAIN log
        /\ \A i \in pull[d].todo : i \in Nat
    <3>1. /\ pull[d].todo \subseteq DOMAIN log /\ Replayed(d) \subseteq DOMAIN log
          /\ pull[d].upto \in Nat /\ pull[d].upto <= Len(log)
      BY <1>0, PullFacts
    <3> QED BY <1>1, <3>1
  <2>1. PullsAt(d)'
    <3> SUFFICES ASSUME pull[d].stage # "idle" PROVE PullsAt(d)'
      BY DEF PullsAt
    <3>1. /\ cursor[d] <= pull[d].upto
          /\ \A k \in pull[d].todo : cursor[d] < k /\ log[k].applied /\ ~Unmarked(k)
          /\ \A i \in pull[d].todo : \A k \in i..pull[d].upto : log[k].applied => k \in pull[d].todo
      BY <2>0 DEF DeviceAt, PullsAt
    <3>2. \A k \in pull[d].todo : log'[k].applied /\ ~Unmarked(k)'
      BY <1>2, <2>f, <3>1
    <3>3. \A i \in pull[d].todo : \A k \in i..pull[d].upto : log'[k].applied => k \in pull[d].todo
      BY <2>f, <3>1
    <3> QED BY <3>1, <3>2, <3>3 DEF PullsAt
  <2>2. Dead' => DeadAt(d)'
    <3>1. CASE Dead
      <4>1. local[d] # None => \E k \in DOMAIN log : IsDelete(k) /\ k \notin Replayed(d)
        BY <2>0, <3>1 DEF DeviceAt, DeadAt
      <4> QED BY <1>0, <2>0, <4>1 DEF DeadAt, IsDelete
    <3>2. CASE ~Dead
      <4>1. ASSUME Dead' PROVE \E k \in DOMAIN log' : log'[k].op.kind = "delete" /\ k \notin DOMAIN log
        BY <1>0, <3>2, <4>1 DEF Dead, IsDelete
      <4> QED BY <2>0, <2>f, <4>1 DEF DeadAt, IsDelete
    <3> QED BY <3>1, <3>2
  <2>3. ~Dead' => WinnerAt(d)'
    BY <1>0, <2>0, <2>f DEF DeviceAt, WinnerAt, Deletes
  <2>4. ~Dead' => SourceAt(d)'
    <3> SUFFICES ASSUME ~Dead, ~Deletes(queue[d]), local[d] # None, ~removing[d]
                 PROVE \/ \E o \in queue[d] : o.val = local[d] /\ \A k \in DOMAIN log' : log'[k].op.val # o.val
                       \/ \E q \in DOMAIN log' :
                            /\ log'[q].op.val = local[d]
                            /\ q \in Replayed(d) =>
                                 \A k \in Replayed(d) : k > q => log'[k].op.val.ts < local[d].ts
      BY <1>0, <2>0 DEF SourceAt, Deletes
    <3>1. CASE \E o \in queue[d] : o.val = local[d] /\ \A k \in DOMAIN log : log[k].op.val # o.val
      <4>1. PICK o \in queue[d] : o.val = local[d] /\ \A k \in DOMAIN log : log[k].op.val # o.val
        BY <3>1
      <4>2. CASE \E q \in DOMAIN log' : log'[q].op.val = o.val
        <5>1. PICK q \in DOMAIN log' : log'[q].op.val = o.val
          BY <4>2
        <5>2. q \notin Replayed(d)
          BY <1>0, <2>f, <4>1, <5>1
        <5> QED BY <4>1, <5>1, <5>2
      <4>3. CASE ~ \E q \in DOMAIN log' : log'[q].op.val = o.val
        BY <4>1, <4>3
      <4> QED BY <4>2, <4>3
    <3>2. CASE \E q \in DOMAIN log :
                 /\ log[q].op.val = local[d]
                 /\ q \in Replayed(d) =>
                      \A k \in Replayed(d) : k > q => log[k].op.val.ts < local[d].ts
      <4>1. \A k \in Replayed(d) : log'[k].op = log[k].op
        BY <1>0, <2>f
      <4> QED BY <1>0, <3>2, <4>1
    <3> QED BY <2>0, <3>1, <3>2 DEF DeviceAt, SourceAt
  <2> QED BY <2>1, <2>2, <2>3, <2>4 DEF DeviceAt
<1> QED BY <1>3, DevicePartsNext

LEMMA ServerDevices ==
  ASSUME ReplicaInv, Races = {}, Next,
         \/ \E d \in Devices : Send(d) \/ Insert(d) \/ Answer(d) \/ LosePush(d)
         \/ \E w \in Writers : Apply(w)
         \/ \E a \in Apis : ApiWrite(a)
  PROVE  DeviceInv'
<1>0. TypeOK
  BY DEF ReplicaInv, WriteInv
<1>1. ASSUME NEW w \in Writers, \A v \in Writers \ {w} : req'[v] = req[v],
             UNCHANGED <<local, queue, removing, cursor, pull>>,
             \A k \in DOMAIN log : log'[k] = log[k],
             w \in Devices => \/ ~Applying(w)'
                              \/ Applying(w) /\ req'[w].at = req[w].at /\ req'[w].ops = req[w].ops
                              \/ req'[w].at = Len(log)
      PROVE  DeviceInv'
  <2>1. \A d \in Devices \ {w} : req'[d] = req[d]
    BY <1>1, InWriters
  <2>2. \A d \in Devices : Applying(d)' =>
           \/ Applying(d) /\ req'[d].at = req[d].at /\ req'[d].ops = req[d].ops
           \/ req'[d].at = Len(log)
    BY <1>1, <2>1 DEF Applying
  <2> QED BY <1>1, <2>2, LogSteps
<1>2. ASSUME NEW d \in Devices, Send(d) PROVE DeviceInv'
  <2>0. d \in Writers
    BY InWriters
  <2>1. req'[d].stage = "sent" /\ (\A v \in Writers \ {d} : req'[v] = req[v])
        /\ UNCHANGED <<local, queue, removing, cursor, pull, log>>
    BY <1>0, <1>2, SendEffect
  <2> QED BY <1>1, <2>0, <2>1 DEF Applying
<1>3. ASSUME NEW d \in Devices, Insert(d) PROVE DeviceInv'
  <2>0. d \in Writers
    BY InWriters
  <2>1. req'[d].at = Len(log) /\ (\A v \in Writers \ {d} : req'[v] = req[v])
        /\ (\A k \in DOMAIN log : log'[k] = log[k])
        /\ UNCHANGED <<local, queue, removing, cursor, pull>>
    BY <1>0, <1>3, InsertEffect DEF queueVars
  <2> QED BY <1>1, <2>0, <2>1
<1>4. ASSUME NEW d \in Devices, Answer(d) PROVE DeviceInv'
  <2>0. d \in Writers
    BY InWriters
  <2>1. /\ Applying(d) /\ req'[d].stage \in {"idle", "answered"}
        /\ \A v \in Writers \ {d} : req'[v] = req[v]
        /\ \A k \in DOMAIN log : log'[k].applied =
             (log[k].applied /\ \A i \in req[d].skipped : k # req[d].at + i)
        /\ UNCHANGED <<local, queue, removing, cursor, pull>>
    BY <1>0, <1>4, AnswerEffect DEF queueVars
  <2>2. \A e \in Devices : Applying(e)' =>
          Applying(e) /\ req'[e].at = req[e].at /\ req'[e].ops = req[e].ops
    <3>1. \A e \in Devices \ {d} : req'[e] = req[e]
      BY <2>1, InWriters
    <3> QED BY <2>1, <3>1 DEF Applying
  <2>3. \A k \in DOMAIN log : log'[k].applied => log[k].applied
    BY <2>1
  <2>4. \A k \in DOMAIN log : log[k].applied /\ ~Unmarked(k) => log'[k].applied
    <3> SUFFICES ASSUME NEW k \in DOMAIN log, NEW i \in req[d].skipped, k = req[d].at + i
                 PROVE  Unmarked(k)
      BY <2>1
    <3>1. /\ req[d].ops[i].kind = "update" /\ i \in DOMAIN req[d].ops
          /\ log[k] = [op |-> req[d].ops[i], applied |-> TRUE]
      BY <1>0, <2>0, <2>1, ReqFacts DEF ReplicaInv, ServerInv, InOrder, AtTheEnd
    <3>2. log[k].op.kind = "update"
      BY <3>1
    <3>3. k \in (req[d].at + 1)..(req[d].at + Len(req[d].ops))
      <4>1. /\ req[d].at \in Nat /\ Len(req[d].ops) \in Nat
            /\ DOMAIN req[d].ops = 1..Len(req[d].ops)
        BY <1>0, <2>0, ReqFacts
      <4> QED BY <3>1, <4>1
    <3> QED BY <2>1, <3>2, <3>3 DEF Unmarked, Applying
  <2> QED BY <2>1, <2>2, <2>3, <2>4, LogSteps
<1>5. ASSUME NEW d \in Devices, LosePush(d) PROVE DeviceInv'
  <2>0. d \in Writers
    BY InWriters
  <2>1. req'[d].stage = "idle" /\ (\A v \in Writers \ {d} : req'[v] = req[v])
        /\ UNCHANGED <<local, queue, removing, cursor, pull, log>>
    BY <1>0, <1>5, LoseEffect, NoReqTyped DEF queueVars
  <2> QED BY <1>1, <2>0, <2>1 DEF Applying
<1>6. ASSUME NEW w \in Writers, Apply(w) PROVE DeviceInv'
  <2>1. UNCHANGED <<log, local, queue, removing, cursor, pull>>
    BY <1>6, ApplyFrame DEF queueVars
  <2>2. PICK i \in DOMAIN req[w].ops : ReadRow(w, i) \/ WriteRow(w, i)
    BY <1>6 DEF Apply
  <2>3. Applying(w) /\ req'[w].at = req[w].at /\ req'[w].ops = req[w].ops
        /\ \A v \in Writers \ {w} : req'[v] = req[v]
    <3>1. CASE ReadRow(w, i)
      BY <1>0, <3>1, ReadEffect
    <3>2. CASE WriteRow(w, i)
      BY <1>0, <3>2, WriteEffect
    <3> QED BY <2>2, <3>1, <3>2
  <2> QED BY <1>1, <2>1, <2>3
<1>7. ASSUME NEW a \in Apis, ApiWrite(a) PROVE DeviceInv'
  <2>0. a \in Writers /\ a \notin Devices
    BY InWriters, WriterAssumption
  <2>1. UNCHANGED <<local, queue, removing, cursor, pull>>
    BY <1>7, ApiFrame DEF queueVars
  <2>2. (\A v \in Writers \ {a} : req'[v] = req[v]) /\ \A k \in DOMAIN log : log'[k] = log[k]
    <3>1. ASSUME NEW t \in Stamps, NEW kind \in Kinds, ApiBegin(a, t, kind)
          PROVE  (\A v \in Writers \ {a} : req'[v] = req[v]) /\ \A k \in DOMAIN log : log'[k] = log[k]
      BY <1>0, <3>1, ApiBeginEffect
    <3>2. ApiLog(a) => (\A v \in Writers \ {a} : req'[v] = req[v]) /\ \A k \in DOMAIN log : log'[k] = log[k]
      BY <1>0, ApiLogEffect
    <3> QED BY <1>7, <3>1, <3>2 DEF ApiWrite, Kinds
  <2> QED BY <1>1, <2>0, <2>1, <2>2
<1> QED BY <1>2, <1>3, <1>4, <1>5, <1>6, <1>7

\* The log stands still, and the device is through with no more than it was.
LEMMA ReplaySteps ==
  ASSUME NEW d \in Devices, DeviceAt(d), PullsAt(d)', UNCHANGED log,
         local'[d] = local[d], Deletes(queue[d]) => Deletes(queue'[d]),
         ~Dead => \A o \in queue[d] : o \in queue'[d] \/ \E k \in DOMAIN log : log[k].op = o,
         \A k \in DOMAIN log : IsDelete(k) /\ k \notin Replayed(d) => k \notin Replayed(d)',
         ~Dead => Replayed(d)' \subseteq Replayed(d),
         ~Dead /\ ~Deletes(queue'[d]) /\ ~removing'[d] => ~removing[d]
  PROVE  DeviceAt(d)'
<1>d. (Dead' <=> Dead) /\ \A k : (IsDelete(k)' <=> IsDelete(k))
  BY DEF Dead, IsDelete
<1>q. Deletes(queue[d])' <=> Deletes(queue'[d])
  BY DEF Deletes
<1>1. Dead' => DeadAt(d)'
  BY <1>d DEF DeviceAt, DeadAt
<1>2. ~Dead' => WinnerAt(d)'
  <2> SUFFICES ASSUME ~Dead, ~Deletes(queue'[d])
               PROVE  \A k \in Replayed(d)' : local[d] # None /\ log[k].op.val.ts <= local[d].ts
    BY <1>d, <1>q DEF WinnerAt
  <2> QED BY DEF DeviceAt, WinnerAt
<1>3. ~Dead' => SourceAt(d)'
  <2> SUFFICES ASSUME ~Dead, ~Deletes(queue'[d]), local[d] # None, ~removing'[d]
               PROVE  \/ \E o \in queue'[d] : o.val = local[d] /\ \A k \in DOMAIN log : log[k].op.val # o.val
                      \/ \E q \in DOMAIN log :
                           /\ log[q].op.val = local[d]
                           /\ q \in Replayed(d)' =>
                                \A k \in Replayed(d)' : k > q => log[k].op.val.ts < local[d].ts
    BY <1>d, <1>q DEF SourceAt
  <2>1. CASE \E o \in queue[d] : o.val = local[d] /\ \A k \in DOMAIN log : log[k].op.val # o.val
    <3>1. PICK o \in queue[d] : o.val = local[d] /\ \A k \in DOMAIN log : log[k].op.val # o.val
      BY <2>1
    <3>2. o \in queue'[d]
      BY <3>1
    <3> QED BY <3>1, <3>2
  <2>2. CASE \E q \in DOMAIN log :
               /\ log[q].op.val = local[d]
               /\ q \in Replayed(d) =>
                    \A k \in Replayed(d) : k > q => log[k].op.val.ts < local[d].ts
    BY <2>2
  <2> QED BY <2>1, <2>2 DEF DeviceAt, SourceAt
<1> QED BY <1>1, <1>2, <1>3 DEF DeviceAt

\* A pull that stands still is what it was while nothing more is being applied.
LEMMA PullStays ==
  ASSUME TypeOK, NEW d \in Devices, PullsAt(d), UNCHANGED log,
         cursor'[d] = cursor[d], pull'[d] = pull[d],
         \A e \in Devices : Applying(e)' =>
           Applying(e) /\ req'[e].at = req[e].at /\ req'[e].ops = req[e].ops
  PROVE  PullsAt(d)' /\ Replayed(d)' = Replayed(d)
<1>1. \A k : Unmarked(k)' => Unmarked(k)
  BY DEF Unmarked, Applying
<1>2. PullsAt(d)'
  BY <1>1 DEF PullsAt
<1> QED BY <1>2 DEF Replayed

LEMMA AcknowledgeDevices ==
  ASSUME ReplicaInv, NEW e \in Devices, Acknowledge(e)
  PROVE  DeviceInv'
<1>0. WriteInv /\ TypeOK /\ e \in Writers /\ \A d \in Devices : DeviceAt(d)
  BY DeviceParts, InWriters DEF ReplicaInv, WriteInv
<1>1. /\ req[e].stage = "answered" /\ req'[e] = NoReq
      /\ \A v \in Writers \ {e} : req'[v] = req[v]
      /\ \A o \in queue[e] : o \in queue'[e] \/ \E p \in Sent(e) : o.n = p.n
      /\ \A d \in Devices \ {e} : queue'[d] = queue[d]
      /\ UNCHANGED <<log, local, removing, cursor, pull>>
  BY <1>0, AcknowledgeEffect
<1>2. \A o \in Sent(e) : \E k \in DOMAIN log : log[k].op = o
  BY <1>0, <1>1 DEF WriteInv, AnsweredLogged
<1>3. \A o \in queue[e] : o \in queue'[e] \/ \E k \in DOMAIN log : log[k].op = o
  BY <1>0, <1>1, <1>2 DEF WriteInv, OneByNumber
<1>a. \A d \in Devices : Applying(d)' =>
        Applying(d) /\ req'[d].at = req[d].at /\ req'[d].ops = req[d].ops
  BY <1>1, NoReqTyped, InWriters DEF Applying
<1>4. ASSUME NEW d \in Devices PROVE DeviceAt(d)'
  <2>1. PullsAt(d) /\ DeviceAt(d)
    BY <1>0 DEF DeviceAt
  <2>2. PullsAt(d)' /\ Replayed(d)' = Replayed(d)
    BY <1>0, <1>1, <1>a, <2>1, PullStays
  <2>3. \A o \in queue[d] : o \in queue'[d] \/ \E k \in DOMAIN log : log[k].op = o
    BY <1>1, <1>3
  <2>4. CASE Dead
    <3>1. Dead' /\ DeadAt(d)'
      BY <1>1, <2>1, <2>2, <2>4 DEF Dead, IsDelete, DeviceAt, DeadAt
    <3> QED BY <2>2, <3>1 DEF DeviceAt
  <2>5. CASE ~Dead
    <3>1. Deletes(queue[d]) => Deletes(queue'[d])
      BY <2>3, <2>5 DEF Deletes, Dead, IsDelete
    <3> QED BY <1>1, <2>1, <2>2, <2>3, <3>1, ReplaySteps
  <2> QED BY <2>4, <2>5
<1> QED BY <1>4, DevicePartsNext

\* Where nothing is written, nothing happens.
LEMMA DeviceElsewhere ==
  ASSUME ReplicaInv, NEW e \in Devices, Elsewhere(e), UNCHANGED <<log, req, cursor, pull>>
  PROVE  /\ \A d \in Devices \ {e} : DeviceAt(d)'
         /\ \A d \in Devices : PullsAt(d)' /\ Replayed(d)' = Replayed(d)
<1>0. TypeOK /\ \A d \in Devices : DeviceAt(d)
  BY DeviceParts DEF ReplicaInv, WriteInv
<1>1. ASSUME NEW d \in Devices PROVE PullsAt(d)' /\ Replayed(d)' = Replayed(d)
  BY <1>0, PullStays DEF DeviceAt, Applying
<1>2. ASSUME NEW d \in Devices \ {e} PROVE DeviceAt(d)'
  <2>1. local'[d] = local[d] /\ queue'[d] = queue[d] /\ removing'[d] = removing[d]
    BY DEF Elsewhere
  <2> QED BY <1>0, <1>1, <2>1, ReplaySteps
<1> QED BY <1>1, <1>2

\* An operation of the log is a write of a number there has been.
LEMMA LoggedVal ==
  ASSUME WriteInv, ~Dead, NEW k \in DOMAIN log
  PROVE  /\ log[k].op.kind # "delete" /\ log[k].op.val \in Values /\ log[k].op.val # None
         /\ log[k].op.val.ts \in Nat /\ log[k].op.val.ts <= clock
         /\ log[k].op.val.id \in Nat /\ log[k].op.val.id <= writes
<1>1. log[k].op.kind # "delete" /\ Old(log[k].op)
  BY DEF Dead, IsDelete, WriteInv, AllOld
<1>2. log[k].op.val \in Values /\ log[k].op.val.ts <= clock /\ log[k].op.val.id <= writes
  BY <1>1 DEF Old
<1> QED BY <1>1, <1>2, NoneAssumption, Bounds DEF Values

LEMMA CreateDevices ==
  ASSUME ReplicaInv, NEW e \in Devices, NEW t \in Stamps, Create(e, t)
  PROVE  DeviceInv'
<1>0. WriteInv /\ TypeOK /\ Before /\ DeviceAt(e)
  BY DeviceParts DEF ReplicaInv, WriteInv, QueueInv
<1>1. PICK o \in Ops :
         /\ writes = 0 /\ local'[e] = o.val
         /\ queue'[e] = queue[e] \cup {o} /\ Elsewhere(e)
         /\ UNCHANGED <<row, log, req, cursor, pull>>
  BY <1>0, CreateEffect
<1>2. (\A d \in Devices \ {e} : DeviceAt(d)') /\ PullsAt(e)' /\ Replayed(e)' = Replayed(e)
  BY <1>1, DeviceElsewhere
<1>3. log = <<>> /\ DOMAIN log = {} /\ Replayed(e) = {}
  <2>1. log = <<>> /\ DOMAIN log = {}
    BY <1>0, <1>1 DEF Before
  <2> QED BY <1>0, <2>1, PullFacts
<1>4. ~Dead' /\ DOMAIN log' = {}
  BY <1>1, <1>3 DEF Dead
<1>5. WinnerAt(e)'
  BY <1>2, <1>3 DEF WinnerAt
<1>6. SourceAt(e)'
  BY <1>1, <1>4 DEF SourceAt
<1> QED BY <1>2, <1>4, <1>5, <1>6, DevicePartsNext DEF DeviceAt

LEMMA EditDevices ==
  ASSUME ReplicaInv, Races = {}, NEW e \in Devices, NEW t \in Stamps, Edit(e, t)
  PROVE  DeviceInv'
<1>0. WriteInv /\ TypeOK /\ DeviceAt(e)
  BY DeviceParts DEF ReplicaInv, WriteInv
<1>1. PICK o \in Ops :
         /\ o.val \in Values /\ o.val.ts = t /\ o.val.id = writes + 1 /\ o.kind # "delete"
         /\ local[e] # None /\ local'[e] = o.val
         /\ PendingCreates(e) = {} => queue'[e] = queue[e] \cup {o}
         /\ PendingCreates(e) # {} => queue'[e] = (queue[e] \ PendingCreates(e)) \cup {o}
         /\ Elsewhere(e)
         /\ UNCHANGED <<row, log, req, cursor, pull>>
  BY <1>0, EditEffect
<1>2. (\A d \in Devices \ {e} : DeviceAt(d)') /\ PullsAt(e)' /\ Replayed(e)' = Replayed(e)
  BY <1>1, DeviceElsewhere
<1>3. o \in queue'[e] /\ \A p \in queue[e] : p.kind = "delete" => p \in queue'[e]
  BY <1>1 DEF PendingCreates
<1>d. (Dead' <=> Dead) /\ \A k : (IsDelete(k)' <=> IsDelete(k))
  BY <1>1 DEF Dead, IsDelete
<1>4. ASSUME Dead PROVE DeadAt(e)'
  <2>1. \E k \in DOMAIN log : IsDelete(k) /\ k \notin Replayed(e)
    BY <1>0, <1>1, <1>4 DEF DeviceAt, DeadAt
  <2> QED BY <1>1, <1>2, <1>d, <2>1 DEF DeadAt
<1>5. ASSUME ~Dead PROVE WinnerAt(e)' /\ SourceAt(e)'
  <2>1. writes \in Nat /\ clock \in Nat /\ t \in Nat /\ clock <= t
    <3>1. writes \in Nat /\ clock \in Nat
      BY <1>0, Bounds DEF TypeOK
    <3> QED BY <3>1 DEF Stamps
  <2>2. o.val # None
    BY <1>1, NoneAssumption
  <2>3. \A k \in DOMAIN log : log[k].op.val.ts <= o.val.ts /\ log[k].op.val # o.val
    BY <1>0, <1>1, <1>5, <2>1, LoggedVal
  <2>4. Replayed(e) \subseteq DOMAIN log
    BY <1>0, PullFacts
  <2>5. WinnerAt(e)'
    BY <1>1, <1>2, <2>2, <2>3, <2>4 DEF WinnerAt
  <2>6. SourceAt(e)'
    BY <1>1, <1>3, <2>3 DEF SourceAt
  <2> QED BY <2>5, <2>6
<1> QED BY <1>2, <1>4, <1>5, <1>d, DevicePartsNext DEF DeviceAt

LEMMA QueueDeleteDevices ==
  ASSUME ReplicaInv, NEW e \in Devices, QueueDelete(e)
  PROVE  DeviceInv'
<1>0. WriteInv /\ TypeOK /\ DeviceAt(e) /\ QueueAt(e)
  BY DeviceParts, QueueParts DEF ReplicaInv, WriteInv
<1>1. PICK o \in Ops :
           /\ o.kind = "delete" /\ removing'[e]
           /\ (\A p \in PendingCreates(e) : p.n \in tried[e]) =>
                queue'[e] = {p \in queue[e] : p.n \in tried[e]} \cup {o}
           /\ local'[e] = local[e] /\ Elsewhere(e)
           /\ UNCHANGED <<log, req, cursor, pull>>
  BY <1>0, QueueDeleteEffect
<1>2. (\A d \in Devices \ {e} : DeviceAt(d)') /\ PullsAt(e)' /\ Replayed(e)' = Replayed(e)
  BY <1>1, DeviceElsewhere
<1>d. (Dead' <=> Dead) /\ \A k : (IsDelete(k)' <=> IsDelete(k))
  BY <1>1 DEF Dead, IsDelete
<1>3. Dead => DeadAt(e)'
  BY <1>0, <1>1, <1>2, <1>d DEF DeviceAt, DeadAt
<1>4. SourceAt(e)'
  BY <1>1 DEF SourceAt
<1>5. WinnerAt(e)'
  <2>1. CASE \A p \in PendingCreates(e) : p.n \in tried[e]
    <3>1. Deletes(queue[e])'
      BY <1>1, <2>1 DEF Deletes
    <3> QED BY <3>1 DEF WinnerAt
  <2>2. CASE \E p \in PendingCreates(e) : p.n \notin tried[e]
    <3>1. log = <<>>
      BY <1>0, <2>2 DEF PendingCreates, QueueAt, UnsentAt, Nothing
    <3>2. Replayed(e)' = {}
      BY <1>0, <1>2, <3>1, PullFacts
    <3> QED BY <3>2 DEF WinnerAt
  <2> QED BY <2>1, <2>2
<1> QED BY <1>2, <1>3, <1>4, <1>5, <1>d, DevicePartsNext DEF DeviceAt

LEMMA RemoveRowDevices ==
  ASSUME ReplicaInv, NEW e \in Devices, RemoveRow(e)
  PROVE  DeviceInv'
<1>0. WriteInv /\ TypeOK /\ DeviceAt(e) /\ QueueAt(e)
  BY DeviceParts, QueueParts DEF ReplicaInv, WriteInv
<1>1. /\ removing[e] /\ local'[e] = None
      /\ \A d \in Devices \ {e} : local'[d] = local[d] /\ removing'[d] = removing[d]
      /\ UNCHANGED <<log, req, queue, tried, awaiting, cursor, pull>>
  BY <1>0, RemoveRowEffect
<1>2. (\A d \in Devices \ {e} : DeviceAt(d)') /\ PullsAt(e)' /\ Replayed(e)' = Replayed(e)
  <2>1. Elsewhere(e)
    BY <1>1 DEF Elsewhere
  <2> QED BY <1>1, <2>1, DeviceElsewhere
<1>3. DeadAt(e)' /\ SourceAt(e)'
  BY <1>1 DEF DeadAt, SourceAt
<1>4. ASSUME ~Dead PROVE WinnerAt(e)'
  <2> SUFFICES ASSUME ~Deletes(queue[e]) PROVE WinnerAt(e)'
    BY <1>1 DEF WinnerAt, Deletes
  <2>1. log = <<>>
    BY <1>0, <1>1, <1>4 DEF QueueAt, UnsentAt, Nothing
  <2>2. Replayed(e)' = {}
    BY <1>0, <1>2, <2>1, PullFacts
  <2> QED BY <2>2 DEF WinnerAt
<1>d. Dead' <=> Dead
  BY <1>1 DEF Dead, IsDelete
<1> QED BY <1>2, <1>3, <1>4, <1>d, DevicePartsNext DEF DeviceAt

LEMMA ReloadDevices ==
  ASSUME ReplicaInv, Races = {}, NEW e \in Devices, Reload(e)
  PROVE  DeviceInv'
<1>0. WriteInv /\ TypeOK /\ e \in Writers /\ \A d \in Devices : DeviceAt(d)
  BY DeviceParts, InWriters DEF ReplicaInv, WriteInv
<1>1. /\ removing[e] => awaiting[e]
      /\ ~removing'[e] /\ pull'[e] = NoPull
      /\ \A d \in Devices \ {e} : removing'[d] = removing[d] /\ pull'[d] = pull[d]
      /\ Applying(e) => /\ req'[e].stage = "applying" /\ req'[e].ops = req[e].ops
                        /\ req'[e].at = req[e].at
      /\ ~Applying(e) => req'[e] = NoReq
      /\ \A v \in Writers \ {e} : req'[v] = req[v]
      /\ UNCHANGED <<log, local, queue, cursor>>
  BY <1>0, ReloadEffect
<1>a. \A d \in Devices : Applying(d)' =>
        Applying(d) /\ req'[d].at = req[d].at /\ req'[d].ops = req[d].ops
  BY <1>1, NoReqTyped, InWriters DEF Applying
<1>2. ASSUME NEW d \in Devices \ {e} PROVE DeviceAt(d)'
  <2>1. PullsAt(d)' /\ Replayed(d)' = Replayed(d)
    BY <1>0, <1>1, <1>a, PullStays DEF DeviceAt
  <2> QED BY <1>0, <1>1, <2>1, ReplaySteps
<1>3. PullsAt(e)' /\ Replayed(e)' \subseteq Replayed(e)
  <2>1. Replayed(e)' = 1..cursor[e]
    BY <1>1, NoPullTyped DEF Replayed
  <2>2. PullsAt(e)'
    BY <1>1, NoPullTyped DEF PullsAt
  <2>3. CASE pull[e].stage = "idle"
    BY <2>1, <2>2, <2>3 DEF Replayed
  <2>4. CASE pull[e].stage # "idle"
    <3>1. cursor[e] <= pull[e].upto /\ \A k \in pull[e].todo : cursor[e] < k
      BY <1>0, <2>4 DEF DeviceAt, PullsAt
    <3>2. cursor[e] \in Nat /\ pull[e].upto \in Nat
      BY <1>0, PullFacts
    <3>3. 1..cursor[e] \subseteq (1..pull[e].upto) \ pull[e].todo
      BY <3>1, <3>2
    <3> QED BY <2>1, <2>2, <2>4, <3>3 DEF Replayed
  <2> QED BY <2>3, <2>4
<1>4. ~Dead /\ ~Deletes(queue[e]) => ~removing[e]
  BY <1>1, QueueParts DEF ReplicaInv, QueueAt, HeldAt
<1>5. DeviceAt(e)'
  BY <1>0, <1>1, <1>3, <1>4, ReplaySteps
<1> QED BY <1>2, <1>5, DevicePartsNext

\* An operation is replayed.
LEMMA PullNextDevices ==
  ASSUME ReplicaInv, NEW e \in Devices, PullNext(e)
  PROVE  DeviceInv'
<1>0. WriteInv /\ TypeOK /\ QueueAt(e) /\ \A d \in Devices : DeviceAt(d)
  BY DeviceParts, QueueParts DEF ReplicaInv, WriteInv
<1>1. PICK k \in pull[e].todo :
           /\ pull[e].stage = "applying" /\ \A l \in pull[e].todo : k <= l
           /\ k \in DOMAIN log /\ k <= pull[e].upto
           /\ pull'[e].stage = "applying" /\ pull'[e].todo = pull[e].todo \ {k}
           /\ pull'[e].upto = pull[e].upto
           /\ local'[e] = IF log[k].op.kind # "delete" /\ (pull[e].hold \/ awaiting[e]) THEN local[e]
                          ELSE IF log[k].op.kind = "delete" THEN None
                          ELSE IF Wins(local[e], log[k].op.val) THEN log[k].op.val ELSE local[e]
           /\ \A d \in Devices \ {e} : local'[d] = local[d] /\ pull'[d] = pull[d]
           /\ UNCHANGED <<serverVars, queue, removing, cursor>>
  BY <1>0, PullNextEffect
<1>u. UNCHANGED <<log, req>>
  BY <1>1 DEF serverVars
<1>d. (Dead' <=> Dead) /\ \A j : (IsDelete(j)' <=> IsDelete(j))
  BY <1>u DEF Dead, IsDelete
<1>2. ASSUME NEW d \in Devices \ {e} PROVE DeviceAt(d)'
  <2>1. PullsAt(d)' /\ Replayed(d)' = Replayed(d)
    BY <1>0, <1>1, <1>u, PullStays DEF DeviceAt, Applying
  <2> QED BY <1>0, <1>1, <1>u, <2>1, ReplaySteps
<1>f. /\ pull[e].upto \in Nat /\ pull[e].todo \subseteq 1..pull[e].upto /\ k \in Nat
      /\ pull[e].todo \subseteq DOMAIN log /\ pull[e].upto <= Len(log)
      /\ Replayed(e) \subseteq DOMAIN log
      /\ Len(log) \in Nat /\ DOMAIN log = 1..Len(log)
  BY <1>0, PullFacts, LogFacts
<1>p. /\ \A j \in pull[e].todo : cursor[e] < j /\ log[j].applied /\ ~Unmarked(j)
      /\ \A i \in pull[e].todo : \A j \in i..pull[e].upto : log[j].applied => j \in pull[e].todo
      /\ cursor[e] <= pull[e].upto
  BY <1>0, <1>1 DEF DeviceAt, PullsAt
<1>r. /\ Replayed(e) = (1..pull[e].upto) \ pull[e].todo
      /\ Replayed(e)' = Replayed(e) \cup {k}
  <2>1. /\ Replayed(e) = (1..pull[e].upto) \ pull[e].todo
        /\ Replayed(e)' = (1..pull[e].upto) \ (pull[e].todo \ {k})
    BY <1>1 DEF Replayed
  <2> QED BY <1>f, <2>1
\* What comes later and applies is yet to be replayed.
<1>l. \A j \in DOMAIN log : j > k /\ log[j].applied => j \notin Replayed(e)'
  BY <1>1, <1>f, <1>p, <1>r
<1>3. PullsAt(e)'
  <2>1. \A j : Unmarked(j)' => Unmarked(j)
    BY <1>u DEF Unmarked
  <2>2. \A i \in pull'[e].todo : \A j \in i..pull[e].upto : log[j].applied => j \in pull'[e].todo
    BY <1>1, <1>f, <1>p
  <2> QED BY <1>1, <1>u, <1>p, <2>1, <2>2 DEF PullsAt
<1>4. ASSUME Dead PROVE DeadAt(e)'
  <2>1. CASE IsDelete(k)
    BY <1>1, <2>1 DEF DeadAt, IsDelete
  <2>2. CASE ~IsDelete(k)
    <3>1. ~AfterDeletes(k)
      BY <1>1, <1>4, <1>p DEF ReplicaInv, ServerInv, NothingAfter
    <3>2. PICK j \in DOMAIN log : IsDelete(j) /\ ~(j < k)
      BY <3>1 DEF AfterDeletes
    <3>3. j > k /\ log[j].applied
      BY <1>f, <2>2, <3>2 DEF ReplicaInv, ServerInv, DeletesApply
    <3>4. IsDelete(j)' /\ j \in DOMAIN log' /\ j \notin Replayed(e)'
      BY <1>d, <1>l, <1>u, <3>2, <3>3
    <3> QED BY <3>4 DEF DeadAt
  <2> QED BY <2>1, <2>2
<1>5. ASSUME ~Dead, ~Deletes(queue[e]) PROVE WinnerAt(e)' /\ SourceAt(e)'
  <2> DEFINE v == log[k].op.val
  <2>1. /\ \A j \in DOMAIN log : log[j].op.val \in Values /\ log[j].op.val.ts \in Nat
                                 /\ log[j].applied
        /\ v # None /\ v.ts \in Nat /\ v \in Values /\ log[k].op.kind # "delete"
    BY <1>0, <1>1, <1>5, LoggedVal DEF ReplicaInv, ServerInv, ServerWinner
  <2>2. local'[e] = IF Wins(local[e], v) THEN v ELSE local[e]
    BY <1>0, <1>1, <1>5, <2>1 DEF QueueAt, HeldAt
  <2> HIDE DEF v
  <2>3. local[e] # None => local[e].ts \in Nat
    BY <1>0, Bounds DEF TypeOK, Values
  <2>4. \A j \in Replayed(e) : local[e] # None /\ log[j].op.val.ts <= local[e].ts
    BY <1>0, <1>5 DEF DeviceAt, WinnerAt
  <2>5. CASE Wins(local[e], v)
    <3>1. local'[e] = v /\ (local[e] = None \/ local[e].ts <= v.ts)
      BY <2>2, <2>5 DEF Wins, IncomingWinsLww
    <3>2. \A j \in Replayed(e)' : log[j].op.val.ts <= v.ts
      <4>1. \A j \in Replayed(e) : log[j].op.val.ts \in Nat
        BY <1>f, <2>1
      <4>2. log[k].op.val.ts <= v.ts
        BY <2>1 DEF v
      <4> QED BY <1>r, <2>1, <2>3, <2>4, <3>1, <4>1, <4>2
    <3>3. WinnerAt(e)'
      BY <1>u, <2>1, <3>1, <3>2 DEF WinnerAt
    <3>4. k \in DOMAIN log' /\ log'[k].op.val = local'[e]
          /\ \A j \in Replayed(e)' : ~(j > k)
      BY <1>1, <1>f, <1>l, <1>r, <1>u, <2>1, <3>1 DEF v
    <3>5. SourceAt(e)'
      BY <3>4 DEF SourceAt
    <3> QED BY <3>3, <3>5
  <2>6. CASE ~Wins(local[e], v)
    <3>1. local'[e] = local[e] /\ local[e] # None /\ v.ts < local[e].ts
      BY <2>1, <2>2, <2>3, <2>6 DEF Wins, IncomingWinsLww
    <3>2. \A j \in Replayed(e)' : log[j].op.val.ts <= local[e].ts
      BY <1>r, <2>1, <2>3, <2>4, <3>1 DEF v
    <3>3. WinnerAt(e)'
      BY <1>u, <3>1, <3>2 DEF WinnerAt
    <3>4. ASSUME ~removing[e]
          PROVE  \/ \E o \in queue[e] : o.val = local[e] /\ \A j \in DOMAIN log : log[j].op.val # o.val
                 \/ \E q \in DOMAIN log :
                      /\ log[q].op.val = local[e]
                      /\ q \in Replayed(e)' =>
                           \A j \in Replayed(e)' : j > q => log[j].op.val.ts < local[e].ts
      <4>1. CASE \E q \in DOMAIN log :
                   /\ log[q].op.val = local[e]
                   /\ q \in Replayed(e) =>
                        \A j \in Replayed(e) : j > q => log[j].op.val.ts < local[e].ts
        <5>1. PICK q \in DOMAIN log :
                   /\ log[q].op.val = local[e]
                   /\ q \in Replayed(e) =>
                        \A j \in Replayed(e) : j > q => log[j].op.val.ts < local[e].ts
          BY <4>1
        <5>2. q # k
          BY <2>1, <2>3, <3>1, <5>1 DEF v
        <5>3. log[k].op.val.ts < local[e].ts
          BY <3>1 DEF v
        <5> QED BY <1>r, <5>1, <5>2, <5>3
      <4>2. SourceAt(e)
        BY <1>0, <1>5 DEF DeviceAt
      <4> QED BY <1>5, <3>1, <3>4, <4>1, <4>2 DEF SourceAt
    <3>5. SourceAt(e)'
      BY <1>1, <1>u, <3>1, <3>4 DEF SourceAt
    <3> QED BY <3>3, <3>5
  <2> QED BY <2>5, <2>6
<1>6. Deletes(queue[e]) => WinnerAt(e)' /\ SourceAt(e)'
  BY <1>1 DEF WinnerAt, SourceAt, Deletes
<1> QED BY <1>2, <1>3, <1>4, <1>5, <1>6, <1>d, DevicePartsNext DEF DeviceAt

LEMMA PullDevices ==
  ASSUME ReplicaInv, Races = {}, NEW e \in Devices, Pull(e), ~PullNext(e)
  PROVE  DeviceInv'
<1>0. WriteInv /\ TypeOK /\ \A d \in Devices : DeviceAt(d)
  BY DeviceParts DEF ReplicaInv, WriteInv
<1>1. /\ \A d \in Devices \ {e} : pull'[d] = pull[d] /\ cursor'[d] = cursor[d]
      /\ UNCHANGED <<clock, tally, serverVars, local, queueVars>>
  BY <1>0, PullEffect
<1>u. UNCHANGED <<log, req, local, queue, removing>>
  BY <1>1 DEF serverVars, queueVars
<1>2. ASSUME NEW d \in Devices \ {e} PROVE DeviceAt(d)'
  <2>1. PullsAt(d)' /\ Replayed(d)' = Replayed(d)
    BY <1>0, <1>1, <1>u, PullStays DEF DeviceAt, Applying
  <2> QED BY <1>0, <1>1, <1>u, <2>1, ReplaySteps
<1>f. /\ pull[e].upto \in Nat /\ pull[e].todo \subseteq 1..pull[e].upto
      /\ cursor[e] \in Nat /\ cursor[e] <= Len(log)
      /\ Len(log) \in Nat /\ DOMAIN log = 1..Len(log)
  BY <1>0, PullFacts, LogFacts
<1>m. \A k : Unmarked(k)' => Unmarked(k)
  BY <1>u DEF Unmarked
<1> DEFINE NoMore == /\ \A k \in DOMAIN log : IsDelete(k) /\ k \notin Replayed(e) => k \notin Replayed(e)'
                     /\ ~Dead => Replayed(e)' \subseteq Replayed(e)
<1>3. ASSUME pull[e].stage = "idle", cursor[e] < Len(log), UNCHANGED cursor,
             \A k \in pull'[e].todo : ~Unmarked(k),
             pull'[e].stage = "fetched", pull'[e].upto = Len(log),
             pull'[e].todo = {k \in (cursor[e] + 1)..Len(log) : log[k].applied}
      PROVE  PullsAt(e)' /\ NoMore
  <2>1. PullsAt(e)'
    <3>1. \A k \in pull'[e].todo : cursor[e] < k /\ log[k].applied /\ ~Unmarked(k)
      BY <1>f, <1>3
    <3>2. \A i \in pull'[e].todo : \A k \in i..Len(log) : log[k].applied => k \in pull'[e].todo
      BY <1>f, <1>3
    <3> QED BY <1>f, <1>m, <1>u, <1>3, <3>1, <3>2 DEF PullsAt
  <2>2. Replayed(e) = 1..cursor[e] /\ Replayed(e)' = (1..Len(log)) \ pull'[e].todo
    BY <1>3 DEF Replayed
  <2>3. \A k \in DOMAIN log : log[k].applied /\ k \notin Replayed(e) => k \notin Replayed(e)'
    BY <1>f, <1>3, <2>2
  <2>4. \A k \in DOMAIN log : IsDelete(k) => log[k].applied
    BY DEF ReplicaInv, ServerInv, DeletesApply
  <2>5. ~Dead => \A k \in DOMAIN log : log[k].applied
    BY DEF ReplicaInv, ServerInv, ServerWinner
  <2>6. Replayed(e)' \subseteq DOMAIN log
    BY <1>f, <2>2
  <2> QED BY <2>1, <2>3, <2>4, <2>5, <2>6
<1>4. ASSUME UNCHANGED cursor, pull[e].stage = "fetched", pull'[e].stage = "applying",
             pull'[e].todo = pull[e].todo, pull'[e].upto = pull[e].upto
      PROVE  PullsAt(e)' /\ NoMore
  <2>1. PullsAt(e)'
    BY <1>0, <1>m, <1>u, <1>4 DEF DeviceAt, PullsAt
  <2> QED BY <1>4, <2>1 DEF Replayed
<1>5. ASSUME pull[e].stage = "applying", pull[e].todo = {}, pull'[e] = NoPull,
             cursor'[e] <= pull[e].upto \/ cursor'[e] = cursor[e]
      PROVE  PullsAt(e)' /\ NoMore
  <2>1. PullsAt(e)' /\ Replayed(e)' = 1..cursor'[e]
    BY <1>5, NoPullTyped DEF PullsAt, Replayed
  <2>2. Replayed(e) = 1..pull[e].upto /\ cursor[e] <= pull[e].upto
    BY <1>0, <1>5 DEF DeviceAt, PullsAt, Replayed
  <2>3. cursor'[e] \in Nat /\ cursor'[e] <= pull[e].upto
    <3>1. cursor'[e] \in Nat
      <4>1. TypeOK'
        BY <1>0, TypePull
      <4> QED BY <4>1, Bounds DEF TypeOK
    <3> QED BY <1>5, <2>2, <3>1
  <2>4. Replayed(e)' \subseteq Replayed(e)
    BY <1>f, <2>1, <2>2, <2>3
  <2> QED BY <2>1, <2>4
<1>6. PullsAt(e)' /\ NoMore
  BY <1>0, <1>3, <1>4, <1>5, PullEffect
<1> HIDE DEF NoMore
<1>7. DeviceAt(e)'
  <2>1. NoMore => /\ \A k \in DOMAIN log : IsDelete(k) /\ k \notin Replayed(e) => k \notin Replayed(e)'
                  /\ ~Dead => Replayed(e)' \subseteq Replayed(e)
    BY DEF NoMore
  <2> QED BY <1>0, <1>u, <1>6, <2>1, ReplaySteps
<1> QED BY <1>2, <1>7, DevicePartsNext

LEMMA DeviceNext ==
  ASSUME ReplicaInv, Races = {}, [Next]_vars
  PROVE  DeviceInv'
<1>1. ASSUME NEW d \in Devices, LocalWrite(d) PROVE DeviceInv'
  BY <1>1, CreateDevices, EditDevices, QueueDeleteDevices, RemoveRowDevices DEF LocalWrite
<1>2. ASSUME NEW d \in Devices, Next, Push(d) PROVE DeviceInv'
  BY <1>2, ServerDevices, AcknowledgeDevices DEF Push
<1>3. ASSUME NEW d \in Devices, Pull(d) PROVE DeviceInv'
  BY <1>3, PullNextDevices, PullDevices
<1>4. CASE UNCHANGED vars
  BY <1>4 DEF vars, tally, serverVars, queueVars, ReplicaInv, DeviceInv, PullsAll, DeviceDead,
       DeviceWinner, DeviceSource, Replayed, Unmarked, Dead, IsDelete, Deletes
<1> QED BY <1>1, <1>2, <1>3, <1>4, ReloadDevices, ServerDevices DEF Next

-----------------------------------------------------------------------------
(* The replicas converge *)

LEMMA ReplicaInit == Init => ReplicaInv
<1> SUFFICES ASSUME Init PROVE ReplicaInv
  OBVIOUS
<1>1. /\ writes = 0 /\ row = None /\ log = <<>> /\ DOMAIN log = {}
      /\ \A w \in Writers : req[w] = NoReq
      /\ \A d \in Devices : /\ local[d] = None /\ queue[d] = {} /\ tried[d] = {}
                            /\ ~awaiting[d] /\ ~removing[d]
                            /\ cursor[d] = 0 /\ pull[d] = NoPull
  BY DEF Init
<1>2. ~Dead
  BY <1>1 DEF Dead
<1>3. (\A w \in Writers : ~Applying(w) /\ req[w].stage = "idle" /\ req[w].done = {}
                          /\ DOMAIN req[w].seen = {})
      /\ \A d \in Devices : ~Applying(d) /\ req[d].stage = "idle"
  BY <1>1, NoReqTyped, InWriters DEF Applying
<1>4. ServerInv
  <2>1. NothingDone /\ OneApplies /\ InOrder /\ AtTheEnd
    BY <1>3 DEF NothingDone, OneApplies, InOrder, AtTheEnd
  <2>2. DeletesApply /\ NothingAfter /\ ServerDead
    BY <1>1, <1>2 DEF DeletesApply, NothingAfter, ServerDead
  <2>3. AllLanded = {}
    BY <1>1 DEF AllLanded
  <2>4. ServerWinner
    BY <1>1, <1>3, <2>3, InWriters DEF ServerWinner, Winner
  <2> QED BY <2>1, <2>2, <2>4 DEF ServerInv
<1>5. QueueInv
  BY <1>1, <1>3, NoPullTyped DEF QueueInv, Before, Unsent, QueueOrder, CreateFirst, HeldForDelete,
     Deletes
<1>6. DeviceInv
  <2>1. \A d \in Devices : pull[d].stage = "idle" /\ Replayed(d) = {}
    BY <1>1, NoPullTyped DEF Replayed
  <2> QED BY <1>1, <1>2, <2>1 DEF DeviceInv, PullsAll, DeviceDead, DeviceWinner, DeviceSource
<1> QED BY <1>4, <1>5, <1>6, WriteInit DEF ReplicaInv

LEMMA ReplicaNext == ReplicaInv /\ Races = {} /\ [Next]_vars => ReplicaInv'
<1> SUFFICES ASSUME ReplicaInv, Races = {}, [Next]_vars PROVE ReplicaInv'
  OBVIOUS
<1>1. WriteInv'
  BY WriteNext DEF ReplicaInv
<1>2. ServerInv' /\ QueueInv' /\ DeviceInv'
  BY ServerNext, QueueNext, DeviceNext
<1> QED BY <1>1, <1>2 DEF ReplicaInv

LEMMA ReplicaConverged == ReplicaInv => Converged
<1> SUFFICES ASSUME ReplicaInv, NEW d \in Devices, ServerQuiet, CaughtUp(d)
             PROVE  local[d] = row
  BY DEF Converged
<1>0. TypeOK /\ WriteInv /\ DeviceAt(d) /\ QueueAt(d)
  BY DeviceParts, QueueParts DEF ReplicaInv, WriteInv
<1>1. /\ Len(log) \in Nat /\ DOMAIN log = 1..Len(log)
      /\ Replayed(d) = DOMAIN log
      /\ queue[d] = {} /\ ~removing[d]
      /\ \A w \in Writers : ~Applying(w)
  BY <1>0, LogFacts DEF CaughtUp, Replayed, ServerQuiet, Applying
<1>2. (\A k \in DOMAIN log : Landed(k)) /\ AllLanded = DOMAIN log
  BY <1>1, InWriters DEF Landed, AllLanded
<1>3. CASE Dead
  <2>1. row = None
    BY <1>2, <1>3 DEF ReplicaInv, ServerInv, ServerDead
  <2>2. local[d] = None
    BY <1>0, <1>1, <1>3 DEF DeviceAt, DeadAt
  <2> QED BY <2>1, <2>2
<1>4. CASE ~Dead
  <2>1. Winner(row, DOMAIN log)
    <3>1. \A a \in Apis : ~Applying(a)
      BY <1>1, InWriters
    <3> QED BY <1>2, <1>4, <3>1 DEF ReplicaInv, ServerInv, ServerWinner
  <2>2. CASE DOMAIN log = {}
    <3>1. row = None /\ log = <<>>
      BY <1>0, <2>1, <2>2, LogFacts DEF Winner
    <3>2. local[d] = None
      BY <1>0, <1>1, <1>4, <3>1 DEF QueueAt, FirstAt, PendingCreates
    <3> QED BY <3>1, <3>2
  <2>3. CASE DOMAIN log # {}
    <3>1. PICK q \in DOMAIN log :
             /\ log[q].op.val = row
             /\ \A i \in DOMAIN log : log[i].op.val.ts <= row.ts /\ (i > q => log[i].op.val.ts < row.ts)
      BY <2>1, <2>3 DEF Winner
    <3>2. local[d] # None /\ \A k \in DOMAIN log : log[k].op.val.ts <= local[d].ts
      BY <1>0, <1>1, <1>4, <2>3 DEF DeviceAt, WinnerAt, Deletes
    <3>3. PICK p \in DOMAIN log :
             /\ log[p].op.val = local[d]
             /\ \A k \in DOMAIN log : k > p => log[k].op.val.ts < local[d].ts
      BY <1>0, <1>1, <1>4, <3>2 DEF DeviceAt, SourceAt, Deletes
    <3>4. log[p].op.val.ts \in Nat /\ log[q].op.val.ts \in Nat
      BY <1>0, <1>4, LoggedVal
    <3>5. local[d].ts = row.ts
      <4>1. row.ts <= local[d].ts /\ local[d].ts <= row.ts
        BY <3>1, <3>2, <3>3
      <4> QED BY <3>1, <3>3, <3>4, <4>1
    <3>6. ~(p > q) /\ ~(q > p)
      BY <3>1, <3>3, <3>4, <3>5
    <3>7. p = q
      BY <1>1, <3>6
    <3> QED BY <3>1, <3>3, <3>7
  <2> QED BY <2>2, <2>3
<1> QED BY <1>3, <1>4

\* A device that has pushed all it wrote and been through the whole log holds
\* the server's row (applyEntitySnapshotOp, applyPulledOps, incomingWinsLww),
\* with any number of devices and API writers, whatever is lost and however
\* far behind the cursor stays, as long as nothing races.
THEOREM ReplicasConverge == Races = {} => (Spec => []Converged)
<1> SUFFICES ASSUME Races = {} PROVE Spec => []Converged
  OBVIOUS
<1>1. Init => ReplicaInv
  BY ReplicaInit
<1>2. ReplicaInv /\ [Next]_vars => ReplicaInv'
  BY ReplicaNext
<1>3. ReplicaInv => Converged
  BY ReplicaConverged
<1> QED BY <1>1, <1>2, <1>3, PTL DEF Spec
=============================================================================
