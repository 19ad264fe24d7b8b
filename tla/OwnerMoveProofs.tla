-------------------------- MODULE OwnerMoveProofs ---------------------------
(***************************************************************************)
(* Proofs about OwnerMove, for any accounts, devices and bounds: a move is *)
(* never announced to an account that never held the entity, whatever      *)
(* races; a brief follows its item unless a push or a generation is under  *)
(* way across the flip; and every device ends up with what the server has. *)
(***************************************************************************)
EXTENDS MoveInvariant, TLAPS

\* Counting one more of a bounded thing keeps the counters in their type.
LEMMA CountedType ==
  ASSUME count \in [DOMAIN Limits -> Nat], NEW k \in DOMAIN Limits, Counted(k)
  PROVE  count' \in [DOMAIN Limits -> Nat]
BY DEF Counted

\* Each operation that may be counted is one the limits name.
LEMMA LimitNames == "moves" \in DOMAIN Limits /\ "edits" \in DOMAIN Limits /\ "crashes" \in DOMAIN Limits
BY DEF Limits

\* An entry made in one account's log leaves every log a sequence of entries.
LEMMA LogsType ==
  ASSUME log \in [Accounts -> Seq(Ops)], NEW a \in Accounts, NEW entry \in Ops, Logs(a, entry)
  PROVE  /\ log' \in [Accounts -> Seq(Ops)]
         /\ \A b \in Accounts : log'[b] # <<>> => b = a \/ log[b] # <<>>
<1>1. Append(log[a], entry) \in Seq(Ops)
  OBVIOUS
<1>2. QED  BY <1>1 DEF Logs

\* The entry a device pulls is one of the log's, and so a version.
LEMMA NextOpType ==
  ASSUME TypeOK, NEW d \in Devices, NEW a \in Accounts, CanPull(d, a)
  PROVE  NextOp(d, a) \in Ops /\ log[a] # <<>>
<1>1. log[a] \in Seq(Ops) /\ cursor[d][a] \in Nat /\ cursor[d][a] < Len(log[a])
  BY DEF TypeOK, CanPull
<1>2. cursor[d][a] + 1 \in 1..Len(log[a]) /\ Len(log[a]) \in Nat
  BY <1>1
<1>3. log[a] # <<>>
  BY <1>1
<1>4. log[a][cursor[d][a] + 1] \in Ops
  BY <1>1, <1>2
<1>5. QED  BY <1>3, <1>4 DEF NextOp

\* An entity of an account and a version is an entity.
LEMMA Made ==
  ASSUME NEW a \in Accounts, NEW v \in Nat, NEW k \in Kinds
  PROVE  Entity(a, v) \in Entities /\ Entry(k, v) \in Ops
BY DEF Entity, Entities, Entry, Ops, Versions

-----------------------------------------------------------------------------
(* The type invariant *)

\* The entity starts where the deployment says it does.
LEMMA TypeInit == Init => TypeOK
<1> SUFFICES ASSUME Init PROVE TypeOK
  OBVIOUS
<1>1. row \in Entities \cup {None} /\ brief \in Accounts \cup {None}
  BY HomeAssumption, Made DEF Init, Kinds
<1>2. Entry("put", 0) \in Ops
  BY HomeAssumption, Made DEF Kinds
<1>3. log \in [Accounts -> Seq(Ops)]
  BY <1>2 DEF Init
<1>4. copy \in [Devices -> Entities \cup {None}]
  BY <1>1 DEF Init
<1>5. cursor \in [Devices -> [Accounts -> Nat]]
  BY DEF Init
<1>6. QED
  BY <1>1, <1>3, <1>4, <1>5, HomeAssumption DEF Init, TypeOK

\* Every step of the move keeps the types.
LEMMA TypeMove ==
  ASSUME TypeOK, Find \/ Receipt \/ Flip \/ DeleteLeg \/ CreateLeg \/ Cascade
                 \/ Resolve \/ DeleteAgain \/ CreateAgain
  PROVE  TypeOK'
<1> USE DEF server, client
<1>1. move \in Moves /\ move.from \in Accounts /\ move.to \in Accounts /\ move.version \in Nat
      /\ move.from # move.to
  BY DEF TypeOK, Moves, Versions, Find, Receipt, Flip, DeleteLeg, CreateLeg, Cascade,
         Resolve, DeleteAgain, CreateAgain, At
<1>2. \A s \in Steps : GoTo(s) => move' \in Moves /\ move'.from # move'.to
  BY <1>1 DEF GoTo, Moves
<1>3. Entry("delete", 0) \in Ops /\ Entry("put", move.version) \in Ops
  BY <1>1, Made DEF Kinds
<1>4. CASE Find
  <2>1. now' \in Nat
    BY <1>4 DEF Find, TypeOK
  <2>2. move' \in Moves /\ move'.from # move'.to
    BY <1>1, <1>2, <1>4, <2>1 DEF Find, TypeOK, Moves, Steps, Versions
  <2>3. QED  BY <1>4, <2>1, <2>2 DEF Find, TypeOK
<1>5. CASE Receipt
  BY <1>1, <1>2, <1>5 DEF Receipt, TypeOK, Steps
<1>6. CASE Flip
  BY <1>1, <1>2, <1>6, Made DEF Flip, TypeOK, Steps, Kinds
<1>7. CASE DeleteLeg
  <2>1. log' \in [Accounts -> Seq(Ops)]
    BY <1>1, <1>3, <1>7, LogsType DEF DeleteLeg, TypeOK
  <2>2. QED  BY <1>2, <1>7, <2>1 DEF DeleteLeg, TypeOK, Steps
<1>8. CASE CreateLeg
  <2>1. log' \in [Accounts -> Seq(Ops)]
    BY <1>1, <1>3, <1>8, LogsType DEF CreateLeg, TypeOK
  <2>2. QED  BY <1>2, <1>8, <2>1 DEF CreateLeg, TypeOK, Steps
<1>9. CASE Cascade
  BY <1>9 DEF Cascade, TypeOK
<1>10. CASE Resolve
  <2>1. Owns(move.to) => row.version \in Nat
    BY DEF Owns, TypeOK, Entities, Versions
  <2>2. move' # None => move' \in Moves /\ move'.from # move'.to
    BY <1>1, <1>10, <2>1 DEF Resolve, Moves, Steps, Versions
  <2>3. QED  BY <1>10, <2>2 DEF Resolve, TypeOK
<1>11. CASE DeleteAgain
  <2>1. log' \in [Accounts -> Seq(Ops)]
    BY <1>1, <1>3, <1>11, LogsType DEF DeleteAgain, TypeOK
  <2>2. QED  BY <1>2, <1>11, <2>1 DEF DeleteAgain, TypeOK, Steps
<1>12. CASE CreateAgain
  <2>1. log' \in [Accounts -> Seq(Ops)]
    BY <1>1, <1>3, <1>12, LogsType DEF CreateAgain, TypeOK
  <2>2. QED  BY <1>2, <1>12, <2>1 DEF CreateAgain, TypeOK, Steps
<1>13. QED
  BY <1>4, <1>5, <1>6, <1>7, <1>8, <1>9, <1>10, <1>11, <1>12

\* Every step of a device keeps the types.
LEMMA TypeDevice ==
  ASSUME TypeOK, NEW d \in Devices, Device(d)
  PROVE  TypeOK'
<1> USE DEF server, client
<1>1. copy[d] # None => copy[d].owner \in Accounts /\ copy[d].version \in Nat
  BY DEF TypeOK, Entities, Versions
<1>2. queue[d] # None => queue[d] \in Queued /\ queue[d].account \in Accounts /\ queue[d].version \in Nat
  BY DEF TypeOK, Queued, Versions
<1>3. CASE Edit(d)
  <2>1. now' \in Nat /\ count' \in [DOMAIN Limits -> Nat]
    BY <1>3, CountedType, LimitNames DEF Edit, TypeOK
  <2>2. [copy[d] EXCEPT !.version = now + 1] \in Entities
    <3>1. copy[d] \in Entities /\ now + 1 \in Nat
      BY <1>3 DEF Edit, TypeOK
    <3>2. QED  BY <3>1 DEF Entities, Versions
  <2>3. copy' \in [Devices -> Entities \cup {None}]
    BY <1>3, <2>2 DEF Edit, TypeOK
  <2>4. queue' \in [Devices -> Queued \cup {None}]
    BY <1>1, <1>3, <2>1 DEF Edit, TypeOK, Queued, Kinds, Versions
  <2>5. QED  BY <1>3, <2>1, <2>3, <2>4 DEF Edit, TypeOK
<1>4. CASE Delete(d)
  <2>1. count' \in [DOMAIN Limits -> Nat]
    BY <1>4, CountedType, LimitNames DEF Delete, TypeOK
  <2>2. queue' \in [Devices -> Queued \cup {None}]
    BY <1>1, <1>4 DEF Delete, TypeOK, Queued, Kinds, Versions
  <2>3. QED  BY <1>1, <1>4, <2>1, <2>2 DEF Delete, TypeOK
<1>5. CASE PushRead(d)
  <2>1. queue' \in [Devices -> Queued \cup {None}]
    BY <1>2, <1>5 DEF PushRead, TypeOK, Queued
  <2>2. QED  BY <1>5, <2>1 DEF PushRead, TypeOK
<1>6. CASE PushWrite(d)
  <2>1. Entity(queue[d].account, queue[d].version) \in Entities /\ Entry("put", queue[d].version) \in Ops
    BY <1>2, <1>6, Made DEF PushWrite, Kinds
  <2>2. log' \in [Accounts -> Seq(Ops)]
    BY <1>2, <1>6, <2>1, LogsType DEF PushWrite, TypeOK
  <2>3. QED  BY <1>6, <2>1, <2>2 DEF PushWrite, TypeOK
<1>7. CASE PushDelete(d)
  <2>1. Entry("delete", 0) \in Ops
    BY <1>2, <1>7, Made DEF PushDelete, Kinds
  <2>2. log' \in [Accounts -> Seq(Ops)]
    BY <1>2, <1>7, <2>1, LogsType DEF PushDelete, TypeOK
  <2>3. QED  BY <1>7, <2>2 DEF PushDelete, TypeOK
<1>8. ASSUME NEW a \in Accounts, PullDelete(d, a) \/ PullPut(d, a) \/ PullHeld(d, a)
      PROVE  TypeOK'
  <2>1. NextOp(d, a) \in Ops /\ NextOp(d, a).version \in Nat
    BY <1>8, NextOpType DEF PullDelete, PullPut, PullHeld, Ops, Versions
  <2>2. cursor' \in [Devices -> [Accounts -> Nat]]
    <3>1. cursor' = [cursor EXCEPT ![d][a] = @ + 1]
      BY <1>8 DEF PullDelete, PullPut, PullHeld, Pulled
    <3>2. cursor[d] \in [Accounts -> Nat]
      BY DEF TypeOK
    <3>3. [cursor[d] EXCEPT ![a] = @ + 1] \in [Accounts -> Nat]
      BY <3>2
    <3>4. QED  BY <3>1, <3>3 DEF TypeOK
  <2>3. copy' \in [Devices -> Entities \cup {None}]
    BY ZenonT(30), <1>8, <2>1, Made DEF PullDelete, PullPut, PullHeld, TypeOK, Kinds
  <2>4. deleted' \in [Devices -> Accounts \cup {None}]
    BY <1>8 DEF PullDelete, PullPut, PullHeld, TypeOK
  <2>5. QED  BY <1>8, <2>2, <2>3, <2>4 DEF PullDelete, PullPut, PullHeld, Pulled, TypeOK
<1>9. ASSUME NEW from \in Accounts, NEW to \in Accounts, Request(d, from, to)
      PROVE  TypeOK'
  <2>1. count' \in [DOMAIN Limits -> Nat]
    BY <1>9, CountedType, LimitNames DEF Request, TypeOK
  <2>2. move' \in Moves /\ move'.from # move'.to
    BY <1>9 DEF Request, Moves, Steps, Versions
  <2>3. QED  BY <1>9, <2>1, <2>2 DEF Request, TypeOK
<1>10. QED
  BY <1>3, <1>4, <1>5, <1>6, <1>7, <1>8, <1>9 DEF Device

\* What the server does of itself, and its end, keep the types.
LEMMA TypeRest ==
  ASSUME TypeOK, GenerateBegin \/ GenerateEnd \/ Crash
  PROVE  TypeOK'
<1> USE DEF server, client
<1>1. CASE GenerateBegin
  BY <1>1 DEF GenerateBegin, TypeOK, Entities
<1>2. CASE GenerateEnd
  BY <1>2 DEF GenerateEnd, TypeOK
<1>3. CASE Crash
  <2>1. count' \in [DOMAIN Limits -> Nat]
    BY <1>3, CountedType, LimitNames DEF Crash, TypeOK
  <2>2. queue' \in [Devices -> Queued \cup {None}]
    BY ZenonT(30), <1>3 DEF Crash, TypeOK, Queued
  <2>3. QED  BY <1>3, <2>1, <2>2 DEF Crash, TypeOK
<1>4. QED  BY <1>1, <1>2, <1>3

\* Every step keeps the types.
LEMMA TypeStep == TypeOK /\ [Next]_vars => TypeOK'
<1> SUFFICES ASSUME TypeOK, [Next]_vars PROVE TypeOK'
  OBVIOUS
<1>1. CASE UNCHANGED vars
  BY <1>1 DEF vars, server, client, TypeOK
<1>2. CASE Next
  BY <1>2, TypeMove, TypeDevice, TypeRest DEF Next, Server
<1>3. QED  BY <1>1, <1>2

\* Every state is of the types: in particular no move is of one account to itself.
THEOREM TypeCorrect == Spec => []TypeOK
BY TypeInit, TypeStep, PTL DEF Spec

-----------------------------------------------------------------------------
(* Nothing is announced to an account that never held the entity *)

\* Only the home account holds, names or hears of the entity at first.
LEMMA HeldInit == Init => HeldInv
<1> SUFFICES ASSUME Init PROVE HeldInv
  OBVIOUS
<1>1. row.owner = Home /\ held = {Home}
  BY DEF Init, Entity
<1>2. \A d \in Devices : copy[d] # None => copy[d].owner = Home
  BY <1>1 DEF Init
<1>3. \A a \in Accounts : log[a] # <<>> => a = Home
  BY DEF Init
<1>4. QED  BY <1>1, <1>2, <1>3 DEF Init, HeldInv

\* A move is made from an account that has the entity, or whose begun move a
\* receipt attests; it is announced to the account the row then has.
LEMMA HeldMove ==
  ASSUME TypeOK, HeldInv,
         Find \/ Receipt \/ Flip \/ DeleteLeg \/ CreateLeg \/ Cascade
         \/ Resolve \/ DeleteAgain \/ CreateAgain
  PROVE  HeldInv'
<1> USE DEF server, client
<1>1. move \in Moves /\ move.from \in Accounts /\ move.to \in Accounts /\ move.version \in Nat
  BY DEF TypeOK, Moves, Versions, Find, Receipt, Flip, DeleteLeg, CreateLeg, Cascade,
         Resolve, DeleteAgain, CreateAgain, At
<1>2. \A s \in Steps : GoTo(s) => move'.step = s /\ move'.from = move.from /\ move'.to = move.to
  BY <1>1 DEF GoTo, Moves
<1>3. Entry("delete", 0) \in Ops /\ Entry("put", move.version) \in Ops
  BY <1>1, Made DEF Kinds
<1>4. CASE Find
  <2>1. Owns(move.from) => move.from \in held
    BY DEF Owns, HeldInv
  <2>2. move'.from = move.from /\ move'.step \in {"receipt", "resolve"}
        /\ (move'.step = "receipt" => Owns(move.from))
    BY <1>1, <1>2, <1>4 DEF Find, Moves, Steps
  <2>3. QED  BY <1>4, <2>1, <2>2 DEF Find, HeldInv, Announced
<1>5. CASE Receipt
  <2>1. move.from \in held
    BY <1>5 DEF Receipt, At, HeldInv
  <2>2. move'.from = move.from /\ move'.step = "flip"
    BY <1>2, <1>5 DEF Receipt, Steps
  <2>3. QED  BY <1>5, <2>1, <2>2 DEF Receipt, HeldInv, Announced
<1>6. CASE Flip
  <2>1. move.from \in held
    BY <1>6 DEF Flip, At, HeldInv
  <2>2. move'.from = move.from /\ move'.to = move.to /\ move'.step \in {"deleteLeg", "resolve"}
    BY <1>2, <1>6 DEF Flip, Steps
  <2>3. move'.step = "deleteLeg" => move.to \in held'
    BY <1>2, <1>6 DEF Flip, Steps
  <2>4. held \subseteq held' /\ (row' # None => row'.owner \in held')
    BY <1>6 DEF Flip, HeldInv, Entity
  <2>5. QED  BY <1>6, <2>1, <2>2, <2>3, <2>4 DEF Flip, HeldInv, Announced
<1>7. CASE DeleteLeg \/ DeleteAgain
  <2>1. move.from \in held /\ move.to \in held
    BY <1>7 DEF DeleteLeg, DeleteAgain, At, HeldInv, Announced
  <2>2. move'.from = move.from /\ move'.to = move.to
    BY <1>2, <1>7 DEF DeleteLeg, DeleteAgain, Steps
  <2>3. \A b \in Accounts : log'[b] # <<>> => b = move.from \/ log[b] # <<>>
    BY <1>1, <1>3, <1>7, LogsType DEF DeleteLeg, DeleteAgain, TypeOK
  <2>4. QED  BY <1>7, <2>1, <2>2, <2>3 DEF DeleteLeg, DeleteAgain, HeldInv
<1>8. CASE CreateLeg \/ CreateAgain
  <2>1. move.from \in held /\ move.to \in held
    BY <1>8 DEF CreateLeg, CreateAgain, At, HeldInv, Announced
  <2>2. move'.from = move.from /\ move'.to = move.to
    BY <1>2, <1>8 DEF CreateLeg, CreateAgain, Steps
  <2>3. \A b \in Accounts : log'[b] # <<>> => b = move.to \/ log[b] # <<>>
    BY <1>1, <1>3, <1>8, LogsType DEF CreateLeg, CreateAgain, TypeOK
  <2>4. QED  BY <1>8, <2>1, <2>2, <2>3 DEF CreateLeg, CreateAgain, HeldInv
<1>9. CASE Cascade
  BY <1>9 DEF Cascade, HeldInv
<1>10. CASE Resolve
  <2>1. move' # None => <<move.from, move.to>> \in receipts /\ Owns(move.to)
    BY <1>10 DEF Resolve
  <2>2. move' # None => move'.from = move.from /\ move'.to = move.to
    BY <1>1, <1>10 DEF Resolve, Moves
  <2>3. move' # None => move.from \in held /\ move.to \in held
    BY <2>1 DEF HeldInv, Owns
  <2>4. QED  BY <1>10, <2>2, <2>3 DEF Resolve, HeldInv
<1>11. QED
  BY <1>4, <1>5, <1>6, <1>7, <1>8, <1>9, <1>10

\* A device names the account its copy has, and a pull finds an entry only
\* where one was made.
LEMMA HeldDevice ==
  ASSUME TypeOK, HeldInv, NEW d \in Devices, Device(d)
  PROVE  HeldInv'
<1> USE DEF server, client
<1>1. copy[d] # None => copy[d] \in Entities /\ copy[d].owner \in held
  BY DEF TypeOK, HeldInv
<1>2. queue[d] # None => /\ queue[d].account \in held /\ queue[d].account \in Accounts
                         /\ queue[d].version \in Nat /\ queue[d] \in Queued
  BY DEF TypeOK, HeldInv, Queued, Versions
<1>3. CASE Edit(d)
  <2>1. \A e \in Devices : copy'[e] # None => copy'[e].owner \in held
    BY <1>1, <1>3 DEF Edit, HeldInv, TypeOK, Entities
  <2>2. \A e \in Devices : queue'[e] # None => queue'[e].account \in held
    BY <1>1, <1>3 DEF Edit, HeldInv, TypeOK
  <2>3. QED  BY <1>3, <2>1, <2>2 DEF Edit, HeldInv
<1>4. CASE Delete(d)
  <2>1. \A e \in Devices : copy'[e] # None => copy'[e].owner \in held
    BY <1>4 DEF Delete, HeldInv, TypeOK
  <2>2. \A e \in Devices : queue'[e] # None => queue'[e].account \in held
    BY <1>1, <1>4 DEF Delete, HeldInv, TypeOK
  <2>3. QED  BY <1>4, <2>1, <2>2 DEF Delete, HeldInv
<1>5. CASE PushRead(d)
  <2>1. \A e \in Devices : queue'[e] # None => queue'[e].account \in held
    BY <1>2, <1>5 DEF PushRead, HeldInv, TypeOK, Queued
  <2>2. QED  BY <1>5, <2>1 DEF PushRead, HeldInv
<1>6. CASE PushWrite(d)
  <2>1. Entry("put", queue[d].version) \in Ops
    BY <1>2, <1>6, Made DEF PushWrite, Kinds
  <2>2. \A b \in Accounts : log'[b] # <<>> => b = queue[d].account \/ log[b] # <<>>
    BY <1>2, <1>6, <2>1, LogsType DEF PushWrite, TypeOK
  <2>3. \A e \in Devices : queue'[e] # None => queue'[e].account \in held
    BY <1>6 DEF PushWrite, HeldInv, TypeOK
  <2>4. row' # None => row'.owner \in held
    BY <1>2, <1>6 DEF PushWrite, HeldInv, Entity
  <2>5. QED  BY <1>2, <1>6, <2>2, <2>3, <2>4 DEF PushWrite, HeldInv
<1>7. CASE PushDelete(d)
  <2>1. Entry("delete", 0) \in Ops
    BY <1>2, <1>7, Made DEF PushDelete, Kinds
  <2>2. \A b \in Accounts : log'[b] # <<>> => b = queue[d].account \/ log[b] # <<>>
    BY <1>2, <1>7, <2>1, LogsType DEF PushDelete, TypeOK
  <2>3. \A e \in Devices : queue'[e] # None => queue'[e].account \in held
    BY <1>7 DEF PushDelete, HeldInv, TypeOK
  <2>4. QED  BY <1>2, <1>7, <2>2, <2>3 DEF PushDelete, HeldInv
<1>8. ASSUME NEW a \in Accounts, PullDelete(d, a) \/ PullPut(d, a) \/ PullHeld(d, a)
      PROVE  HeldInv'
  <2>1. a \in held
    BY <1>8, NextOpType DEF PullDelete, PullPut, PullHeld, HeldInv
  <2>2. \A e \in Devices : copy'[e] # None => copy'[e].owner \in held
    BY <1>8, <2>1 DEF PullDelete, PullPut, PullHeld, HeldInv, TypeOK, Entity
  <2>3. QED  BY <1>8, <2>2 DEF PullDelete, PullPut, PullHeld, Pulled, HeldInv
<1>9. ASSUME NEW from \in Accounts, NEW to \in Accounts, Request(d, from, to)
      PROVE  HeldInv'
  BY <1>9 DEF Request, HeldInv, Announced
<1>10. QED
  BY <1>3, <1>4, <1>5, <1>6, <1>7, <1>8, <1>9 DEF Device

\* Every step keeps the invariant.
LEMMA HeldStep == TypeOK /\ HeldInv /\ [Next]_vars => HeldInv'
<1> SUFFICES ASSUME TypeOK, HeldInv, [Next]_vars PROVE HeldInv'
  OBVIOUS
<1> USE DEF server, client
<1>1. CASE UNCHANGED vars
  BY <1>1 DEF vars, HeldInv
<1>2. CASE GenerateBegin \/ GenerateEnd
  BY <1>2 DEF GenerateBegin, GenerateEnd, HeldInv
<1>3. CASE Crash
  <2>1. \A e \in Devices : queue'[e] # None => queue'[e].account \in held
    BY <1>3 DEF Crash, HeldInv, TypeOK, Queued
  <2>2. QED  BY <1>3, <2>1 DEF Crash, HeldInv
<1>4. QED  BY <1>1, <1>2, <1>3, HeldMove, HeldDevice DEF Next, Server

\* No account's devices are told of an entity that account never held
\* (reassignEntity.ts, resolveAlreadyMoved), whatever races, for any number of
\* accounts, devices, moves and crashes.
THEOREM NeverForged == Spec => []NothingForged
<1>1. HeldInv => NothingForged
  BY DEF HeldInv, NothingForged
<1>2. QED  BY <1>1, TypeInit, TypeStep, HeldInit, HeldStep, PTL DEF Spec

-----------------------------------------------------------------------------
(* A brief follows its item *)

\* At first the brief is the owner's.
LEMMA BriefInit == Init => BriefInv
<1> SUFFICES ASSUME Init PROVE BriefInv
  OBVIOUS
<1>1. row = Entity(Home, 0) /\ brief = Home /\ generating = None /\ \A d \in Devices : queue[d] = None
  BY DEF Init
<1>2. row # None /\ row.owner = Home
  <2>1. Entity(Home, 0) \in Entities /\ Entity(Home, 0).owner = Home
    BY HomeAssumption, Made DEF Entity, Kinds
  <2>2. QED  BY <1>1, <2>1, NoneAssumption
<1>3. QED  BY <1>1, <1>2 DEF BriefInv, Owns

\* The flip leaves the brief to a move that is owed; the end of a move takes
\* both the debt and the brief.
LEMMA BriefMove ==
  ASSUME TypeOK, BriefInv, "parallelEdit" \notin Races, "briefMeanwhile" \notin Races,
         Find \/ Receipt \/ Flip \/ DeleteLeg \/ CreateLeg \/ Cascade
         \/ Resolve \/ DeleteAgain \/ CreateAgain
  PROVE  BriefInv'
<1> USE DEF server, client
<1>1. move \in Moves
  BY DEF TypeOK, Find, Receipt, Flip, DeleteLeg, CreateLeg, Cascade,
         Resolve, DeleteAgain, CreateAgain, At
<1>2. \A s \in Steps : GoTo(s) => move'.step = s
  BY <1>1 DEF GoTo, Moves
<1>3. CASE Find
  <2>1. ~Applying
    BY <1>3 DEF Find
  <2>2. QED  BY <1>3, <2>1 DEF Find, BriefInv, Owns, Applying
<1>4. CASE Receipt
  <2>1. \A d \in Devices : queue[d] # None => ~queue[d].read
    BY <1>4 DEF Receipt, BriefInv
  <2>2. QED  BY <1>4, <2>1 DEF Receipt, BriefInv, Owns
<1>5. CASE Flip
  <2>1. \A d \in Devices : queue[d] # None => ~queue[d].read
    BY <1>5 DEF Flip, BriefInv
  <2>2. generating = None
    BY <1>5 DEF Flip
  <2>3. CASE Owns(move.from)
    <3>1. row' = Entity(move.to, move.version) /\ owed' = owed \cup {<<move.from, move.to>>}
          /\ brief' = brief
      BY <1>5, <2>3 DEF Flip
    <3>2. brief # None => brief = move.from \/ \E r \in owed : r[1] = brief
      BY <2>3 DEF BriefInv, Owns
    <3>3. brief' # None => \E r \in owed' : r[1] = brief'
      <4>1. <<move.from, move.to>> \in owed' /\ <<move.from, move.to>>[1] = move.from
        BY <3>1
      <4>2. \A r \in owed : r \in owed'
        BY <3>1
      <4>3. QED  BY <3>1, <3>2, <4>1, <4>2
    <3>4. QED  BY <1>5, <2>1, <2>2, <3>3 DEF Flip, BriefInv
  <2>4. CASE ~Owns(move.from)
    BY <1>5, <2>1, <2>2, <2>4 DEF Flip, BriefInv, Owns
  <2>5. QED  BY <2>3, <2>4
<1>6. CASE DeleteLeg \/ CreateLeg \/ DeleteAgain \/ CreateAgain
  <2>1. move'.step \in {"createLeg", "cascade", "createAgain"}
    BY <1>2, <1>6 DEF DeleteLeg, CreateLeg, DeleteAgain, CreateAgain, Steps
  <2>2. QED  BY <1>6, <2>1 DEF DeleteLeg, CreateLeg, DeleteAgain, CreateAgain, BriefInv, Owns, At
<1>7. CASE Cascade
  <2>1. brief' # None => brief' = brief /\ brief # move.from
    BY <1>7 DEF Cascade
  <2>2. \A r \in owed : r[1] # move.from => r \in owed'
    BY <1>7 DEF Cascade
  <2>3. brief' # None => Owns(brief) \/ \E r \in owed' : r[1] = brief'
    BY <2>1, <2>2 DEF BriefInv
  <2>4. row' = row /\ queue' = queue /\ generating' = generating /\ move' = None
    BY <1>7 DEF Cascade
  <2>5. QED  BY <2>1, <2>3, <2>4 DEF BriefInv, Owns, At
<1>8. CASE Resolve
  <2>1. move' = None \/ move'.step = "deleteAgain"
    BY <1>1, <1>8 DEF Resolve, Moves
  <2>2. QED  BY <1>8, <2>1 DEF Resolve, BriefInv, Owns, At
<1>9. QED
  BY <1>3, <1>4, <1>5, <1>6, <1>7, <1>8

\* A device's push finds the row with the account it read it under, or finds
\* none; a delete takes the brief along.
LEMMA BriefDevice ==
  ASSUME TypeOK, BriefInv, "parallelEdit" \notin Races, "briefMeanwhile" \notin Races,
         NEW d \in Devices, Device(d)
  PROVE  BriefInv'
<1> USE DEF server, client
<1> DEFINE Reads(e) == queue[e] # None /\ queue[e].read
<1>1. queue[d] # None => queue[d] \in Queued
  BY DEF TypeOK
<1>2. CASE Edit(d) \/ Delete(d)
  <2>1. \A e \in Devices : queue'[e] # None /\ queue'[e].read => e # d /\ queue'[e] = queue[e]
    BY <1>2 DEF Edit, Delete, TypeOK
  <2>2. QED  BY <1>2, <2>1 DEF Edit, Delete, BriefInv, Owns, At
<1>3. CASE PushRead(d)
  <2>1. ~At("receipt") /\ ~At("flip") /\ queue[d].kind = "put"
    BY <1>3 DEF PushRead
  <2>2. \A e \in Devices : queue'[e] # None /\ queue'[e].read =>
          \/ e # d /\ queue'[e] = queue[e]
          \/ /\ e = d /\ Owns(queue[d].account)
             /\ queue'[d].account = queue[d].account /\ queue'[d].kind = "put"
    BY <1>1, <1>3, <2>1 DEF PushRead, TypeOK, Queued
  <2>3. \A e \in Devices : Reads(e) /\ Owns(queue[d].account) => queue[e].account = queue[d].account
    BY DEF BriefInv, Owns
  <2>4. UNCHANGED <<row, brief, owed, generating, move>>
    BY <1>3 DEF PushRead
  <2>5. QED  BY <2>1, <2>2, <2>3, <2>4 DEF BriefInv, Owns, At
<1>4. CASE PushWrite(d)
  <2>1. row = None \/ Owns(queue[d].account)
    BY <1>4 DEF PushWrite, BriefInv
  <2>2. row' # None /\ row'.owner = queue[d].account
    <3>1. Entity(queue[d].account, queue[d].version) \in Entities
      BY <1>1, <1>4, Made DEF PushWrite, Queued, Kinds, Versions
    <3>2. QED  BY <1>4, <2>1, <3>1, NoneAssumption DEF PushWrite, Owns, Entity
  <2>3. \A e \in Devices : queue'[e] # None /\ queue'[e].read => Reads(e) /\ queue'[e] = queue[e]
    BY <1>4 DEF PushWrite, TypeOK
  <2>4. \A e \in Devices : Reads(e) => queue[e].account = queue[d].account
    BY <1>4 DEF PushWrite, BriefInv
  <2>5. \A a \in Accounts : Owns(a) => row'.owner = a
    BY <2>1, <2>2 DEF Owns
  <2>6. UNCHANGED <<brief, owed, generating, move>>
    BY <1>4 DEF PushWrite
  <2>7. (brief # None => brief \in Accounts) /\ (generating # None => generating \in Accounts)
    BY DEF TypeOK
  <2>8. QED  BY <2>2, <2>3, <2>4, <2>5, <2>6, <2>7 DEF BriefInv, Owns, At
<1>5. CASE PushDelete(d)
  <2>1. generating # queue[d].account
    BY <1>5 DEF PushDelete
  <2>2. \A e \in Devices : queue'[e] # None /\ queue'[e].read => Reads(e) /\ queue'[e] = queue[e]
    BY <1>5 DEF PushDelete, TypeOK
  <2>3. brief' # None => brief' = brief /\ brief # queue[d].account
    BY <1>5 DEF PushDelete
  <2>4. row' = None \/ row' = row
    BY <1>5 DEF PushDelete
  <2>5. \A a \in Accounts : Owns(a) /\ a # queue[d].account => row' = row
    BY <1>5 DEF PushDelete, Owns
  <2>6. UNCHANGED <<owed, generating, move>>
    BY <1>5 DEF PushDelete
  <2>7. (brief # None => brief \in Accounts) /\ (generating # None => generating \in Accounts)
    BY DEF TypeOK
  <2>8. brief' # None => (row' # None /\ row'.owner = brief') \/ \E r \in owed' : r[1] = brief'
    BY <2>3, <2>5, <2>6, <2>7 DEF BriefInv, Owns
  <2>9. generating' # None => row' # None /\ row'.owner = generating'
    BY <2>1, <2>5, <2>6, <2>7 DEF BriefInv, Owns
  <2>10. QED  BY <2>2, <2>4, <2>6, <2>8, <2>9 DEF BriefInv, Owns, At
<1>6. ASSUME NEW a \in Accounts, PullDelete(d, a) \/ PullPut(d, a) \/ PullHeld(d, a)
      PROVE  BriefInv'
  BY <1>6 DEF PullDelete, PullPut, PullHeld, Pulled, BriefInv, Owns, At
<1>7. ASSUME NEW from \in Accounts, NEW to \in Accounts, Request(d, from, to)
      PROVE  BriefInv'
  BY <1>7 DEF Request, BriefInv, Owns, At
<1>8. QED
  BY <1>2, <1>3, <1>4, <1>5, <1>6, <1>7 DEF Device

\* Every step keeps the invariant.
LEMMA BriefStep ==
  ASSUME "parallelEdit" \notin Races, "briefMeanwhile" \notin Races
  PROVE  TypeOK /\ BriefInv /\ [Next]_vars => BriefInv'
<1> SUFFICES ASSUME TypeOK, BriefInv, [Next]_vars PROVE BriefInv'
  OBVIOUS
<1> USE DEF server, client
<1>1. CASE UNCHANGED vars
  BY <1>1 DEF vars, BriefInv, Owns, At
<1>2. CASE GenerateBegin
  BY <1>2 DEF GenerateBegin, BriefInv, Owns, At
<1>3. CASE GenerateEnd
  BY <1>3 DEF GenerateEnd, BriefInv, Owns, At
<1>4. CASE Crash
  <2>1. \A e \in Devices : queue'[e] # None => ~queue'[e].read
    BY <1>4 DEF Crash, TypeOK, Queued
  <2>2. QED  BY <1>4, <2>1 DEF Crash, BriefInv, Owns
<1>5. QED  BY <1>1, <1>2, <1>3, <1>4, BriefMove, BriefDevice DEF Next, Server

\* While no push and no generation straddles the flip, a brief stays with its
\* item through every move, retry and crash (itemBriefCascade.ts).
THEOREM BriefStays ==
  "parallelEdit" \notin Races /\ "briefMeanwhile" \notin Races => (Spec => []BriefFollows)
<1> SUFFICES ASSUME "parallelEdit" \notin Races, "briefMeanwhile" \notin Races
             PROVE  Spec => []BriefFollows
  OBVIOUS
<1>1. BriefInv => BriefFollows
  BY DEF BriefInv, BriefFollows, Owns
<1>2. TypeOK /\ BriefInv /\ [Next]_vars => BriefInv'
  BY BriefStep
<1>3. QED  BY <1>1, <1>2, TypeInit, TypeStep, BriefInit, PTL DEF Spec
-----------------------------------------------------------------------------
(* Every device ends up with what the server has *)

Calm == Races \subseteq {"briefMeanwhile"}

\* One entry is made in the log of one account.
Grew(a, e) ==
  /\ \A b \in Accounts : b # a => log'[b] = log[b]
  /\ DOMAIN log[a] = 1..Len(log[a]) /\ Len(log[a]) \in Nat
  /\ DOMAIN log'[a] = 1..(Len(log[a]) + 1) /\ Len(log'[a]) = Len(log[a]) + 1
  /\ \A i \in DOMAIN log[a] : log'[a][i] = log[a][i]
  /\ log'[a][Len(log[a]) + 1] = e

LEMMA Growing ==
  ASSUME TypeOK, NEW a \in Accounts, NEW e \in Ops, Logs(a, e)
  PROVE  Grew(a, e)
<1>1. log[a] \in Seq(Ops) /\ log' = [log EXCEPT ![a] = Append(log[a], e)]
  BY DEF TypeOK, Logs
<1>2. log'[a] = Append(log[a], e) /\ \A b \in Accounts : b # a => log'[b] = log[b]
  BY <1>1 DEF TypeOK
<1> DEFINE l == log[a]
<1>3. /\ DOMAIN l = 1..Len(l) /\ Len(l) \in Nat
      /\ DOMAIN Append(l, e) = 1..(Len(l) + 1) /\ Len(Append(l, e)) = Len(l) + 1
      /\ \A i \in 1..Len(l) : Append(l, e)[i] = l[i]
      /\ Append(l, e)[Len(l) + 1] = e
  BY <1>1
<1>4. QED  BY <1>2, <1>3 DEF Grew

LEMMA Entries ==
  ASSUME TypeOK, NEW a \in Accounts
  PROVE  /\ DOMAIN log[a] = 1..Len(log[a]) /\ Len(log[a]) \in Nat
         /\ \A i \in DOMAIN log[a] : /\ log[a][i] \in Ops /\ log[a][i].version \in Nat
                                     /\ log[a][i].kind \in {"put", "delete"}
         /\ log[a] # <<>> <=> Len(log[a]) > 0
<1>1. log[a] \in Seq(Ops)
  BY DEF TypeOK
<1>2. DOMAIN log[a] = 1..Len(log[a]) /\ Len(log[a]) \in Nat /\ \A i \in DOMAIN log[a] : log[a][i] \in Ops
  BY <1>1
<1>3. log[a] # <<>> <=> Len(log[a]) > 0
  BY <1>1
<1>4. QED  BY <1>2, <1>3 DEF Ops, Versions, Kinds

\* The entries there are, once one is made: the old ones and the new one.
LEMMA OldAndNew ==
  ASSUME TypeOK, NEW a \in Accounts, NEW e, Grew(a, e), NEW b \in Accounts
  PROVE  /\ \A i \in DOMAIN log[b] : i \in DOMAIN log'[b] /\ log'[b][i] = log[b][i]
         /\ \A i \in DOMAIN log'[b] : \/ i \in DOMAIN log[b] /\ log'[b][i] = log[b][i]
                                      \/ b = a /\ i = Len(log[a]) + 1 /\ log'[b][i] = e
BY Entries DEF Grew

\* What told of the row tells of it, when the row stays as it is and no delete
\* is logged.
LEMMA StandsOn ==
  ASSUME TypeOK, NEW a \in Accounts, NEW e, Grew(a, e), UNCHANGED row.version,
         NEW b \in Accounts, b # a \/ e.kind = "put"
  PROVE  /\ \A i : Standing(b, i) => Standing(b, i)'
         /\ Told(b) => Told(b)'
<1>1. ASSUME NEW i, Standing(b, i) PROVE Standing(b, i)'
  BY <1>1, OldAndNew DEF Standing, Puts
<1>2. QED  BY <1>1, OldAndNew DEF Told

\* What tells of it now did before, or is what is new.
LEMMA StoodBefore ==
  ASSUME TypeOK, NEW a \in Accounts, NEW e, Grew(a, e), UNCHANGED row.version,
         NEW b \in Accounts, NEW i \in DOMAIN log[b], Standing(b, i)'
  PROVE  Standing(b, i)
BY OldAndNew DEF Standing, Puts

LEMMA StandsNew ==
  ASSUME TypeOK, NEW a \in Accounts, NEW e, Grew(a, e), e.kind = "put", e.version = row'.version
  PROVE  Told(a)'
<1>0. PICK n : n = Len(log[a]) + 1
  OBVIOUS
<1>1. n \in DOMAIN log'[a] /\ log'[a][n] = e /\ \A j \in DOMAIN log'[a] : ~(j > n)
  BY <1>0 DEF Grew
<1>2. Standing(a, n)'
  BY <1>1 DEF Standing, Puts
<1>3. QED  BY <1>1, <1>2 DEF Told

LEMMA Ends ==
  ASSUME TypeOK, NEW a \in Accounts, NEW e, Grew(a, e)
  PROVE  /\ EndsWith(a, e.kind)'
         /\ \A b \in Accounts : b # a => \A k : (EndsWith(b, k)' <=> EndsWith(b, k))
<1>1. log'[a] # <<>>
  <2>1. Len(log'[a]) = Len(log[a]) + 1 /\ Len(log[a]) \in Nat
    BY DEF Grew
  <2>2. Len(log'[a]) # 0
    BY <2>1
  <2>3. Len(<<>>) = 0
    OBVIOUS
  <2>4. QED  BY <2>2, <2>3
<1>2. QED  BY <1>1 DEF Grew, EndsWith

LEMMA SameLog ==
  ASSUME UNCHANGED log
  PROVE  /\ \A b, k : EndsWith(b, k)' <=> EndsWith(b, k)
         /\ \A b : Puts(b)' = Puts(b)
         /\ UNCHANGED row.version =>
              \A b : (Told(b) <=> Told(b)') /\ \A i : Standing(b, i)' <=> Standing(b, i)
BY DEF EndsWith, Puts, Told, Standing

-----------------------------------------------------------------------------
(* What a step does to the row and to the logs *)

\* What is queued and what a move carries.
LEMMA Shapes ==
  ASSUME TypeOK
  PROVE  /\ row # None => row \in Entities /\ row.owner \in Accounts /\ row.version \in Nat
         /\ move # None => /\ move \in Moves /\ move.from \in Accounts /\ move.to \in Accounts
                           /\ move.from # move.to /\ move.version \in Nat
         /\ \A d \in Devices :
              /\ copy[d] # None => /\ copy[d] \in Entities /\ copy[d].owner \in Accounts
                                   /\ copy[d].version \in Nat
              /\ queue[d] # None => /\ queue[d] \in Queued /\ queue[d].account \in Accounts
                                    /\ queue[d].version \in Nat /\ queue[d].kind \in {"put", "delete"}
                                    /\ queue[d].read \in BOOLEAN
         /\ now \in Nat
BY DEF TypeOK, Entities, Versions, Moves, Queued, Kinds

LEMMA Fresh == ASSUME NEW a \in Accounts, NEW v \in Nat
               PROVE /\ Entity(a, v) \in Entities /\ Entity(a, v) # None
                     /\ Entity(a, v).owner = a /\ Entity(a, v).version = v
                     /\ Entry("put", v) \in Ops /\ Entry("put", v).kind = "put" /\ Entry("put", v).version = v
                     /\ Entry("delete", v) \in Ops /\ Entry("delete", v).kind = "delete"
<1>1. Entity(a, v) \in Entities
  BY DEF Entity, Entities, Versions
<1>2. QED  BY <1>1, NoneAssumption DEF Entity, Entry, Ops, Kinds, Versions

Deleting == DeleteLeg \/ DeleteAgain
Creating == CreateLeg \/ CreateAgain

\* Who logs what.
LEMMA Loggings ==
  ASSUME TypeOK, [Next]_vars
  PROVE  \/ UNCHANGED log
         \/ Deleting /\ Grew(move.from, Entry("delete", 0))
         \/ Creating /\ Grew(move.to, Entry("put", move.version))
         \/ \E d \in Devices : PushWrite(d) /\ Grew(queue[d].account, Entry("put", queue[d].version))
         \/ \E d \in Devices : PushDelete(d) /\ Grew(queue[d].account, Entry("delete", 0))
<1> USE DEF server, client
<1>1. CASE Deleting
  <2>1. move # None /\ Logs(move.from, Entry("delete", 0))
    BY <1>1 DEF Deleting, DeleteLeg, DeleteAgain, At
  <2>2. QED  BY <1>1, <2>1, Shapes, Fresh, Growing
<1>2. CASE Creating
  <2>1. move # None /\ Logs(move.to, Entry("put", move.version))
    BY <1>2 DEF Creating, CreateLeg, CreateAgain, At
  <2>2. QED  BY <1>2, <2>1, Shapes, Fresh, Growing
<1>3. ASSUME NEW d \in Devices, PushWrite(d)
      PROVE  Grew(queue[d].account, Entry("put", queue[d].version))
  BY <1>3, Shapes, Fresh, Growing DEF PushWrite
<1>4. ASSUME NEW d \in Devices, PushDelete(d)
      PROVE  Grew(queue[d].account, Entry("delete", 0))
  BY <1>4, Shapes, Fresh, Growing DEF PushDelete
<1>5. CASE UNCHANGED vars
  BY <1>5 DEF vars
<1>6. CASE Server
  BY <1>1, <1>2, <1>6 DEF Server, Deleting, Creating, Find, Receipt, Flip, Cascade, Resolve, GenerateBegin, GenerateEnd
<1>7. CASE Crash
  BY <1>7 DEF Crash
<1>8. ASSUME NEW d \in Devices, Device(d), ~PushWrite(d), ~PushDelete(d) PROVE UNCHANGED log
  BY <1>8 DEF Device, Edit, Delete, PushRead, PullDelete, PullPut, PullHeld, Pulled, Request
<1>9. QED  BY <1>3, <1>4, <1>5, <1>6, <1>7, <1>8 DEF Next

\* Who writes the row, and what.
LEMMA Writings ==
  ASSUME TypeOK, ReadsHold, [Next]_vars
  PROVE  \/ UNCHANGED row
         \/ Flip /\ Owns(move.from) /\ row' = Entity(move.to, move.version)
         \/ \E d \in Devices : /\ PushWrite(d) /\ Owns(queue[d].account) /\ row.version <= queue[d].version
                               /\ row' = Entity(queue[d].account, queue[d].version)
         \/ \E d \in Devices : PushDelete(d) /\ Owns(queue[d].account) /\ row' = None
<1> USE DEF server, client
<1>1. ASSUME NEW d \in Devices, PushWrite(d)
      PROVE  /\ Owns(queue[d].account)
             /\ UNCHANGED row \/ /\ row.version <= queue[d].version
                                 /\ row' = Entity(queue[d].account, queue[d].version)
  <2>1. Owns(queue[d].account)
    BY <1>1 DEF PushWrite, ReadsHold
  <2>2. QED  BY <1>1, <2>1 DEF PushWrite, Owns
<1>2. ASSUME NEW d \in Devices, PushDelete(d)
      PROVE  UNCHANGED row \/ (Owns(queue[d].account) /\ row' = None)
  BY <1>2 DEF PushDelete
<1>3. CASE UNCHANGED vars
  BY <1>3 DEF vars
<1>4. CASE Server
  BY <1>4 DEF Server, Find, Receipt, Flip, DeleteLeg, CreateLeg, Cascade, Resolve, DeleteAgain, CreateAgain,
     GenerateBegin, GenerateEnd
<1>5. CASE Crash
  BY <1>5 DEF Crash
<1>6. ASSUME NEW d \in Devices, Device(d), ~PushWrite(d), ~PushDelete(d) PROVE UNCHANGED row
  BY <1>6 DEF Device, Edit, Delete, PushRead, PullDelete, PullPut, PullHeld, Pulled, Request
<1>7. QED  BY <1>1, <1>2, <1>3, <1>4, <1>5, <1>6 DEF Next

\* What becomes of a device's copy.
LEMMA Copies ==
  ASSUME TypeOK, [Next]_vars, NEW d \in Devices
  PROVE  \/ copy'[d] = copy[d]
         \/ /\ Edit(d) /\ copy[d] # None /\ queue[d] = None /\ copy'[d] # None /\ now' = now + 1
            /\ copy'[d].owner = copy[d].owner /\ copy'[d].version = now + 1
            /\ queue'[d] # None /\ queue'[d].kind = "put" /\ queue'[d].account = copy[d].owner
            /\ queue'[d].version = now + 1
         \/ /\ Delete(d) /\ copy'[d] = None /\ copy[d] # None
            /\ queue'[d] # None /\ queue'[d].kind = "delete" /\ queue'[d].account = copy[d].owner
         \/ \E a \in Accounts : /\ PullDelete(d, a) /\ copy[d] # None /\ copy[d].owner = a
                                /\ copy'[d] = None
         \/ \E a \in Accounts : PullPut(d, a) /\ copy'[d] = Entity(a, NextOp(d, a).version)
                                /\ (copy[d] # None => copy[d].version <= NextOp(d, a).version)
<1> USE DEF server, client
<1>0. d \in DOMAIN copy /\ d \in DOMAIN queue /\ (copy[d] # None => copy[d] \in Entities)
  BY DEF TypeOK
<1>1. ASSUME NEW e \in Devices, Device(e), e # d PROVE copy'[d] = copy[d]
  BY <1>0, <1>1 DEF Device, Edit, Delete, PushRead, PushWrite, PushDelete, PullDelete, PullPut, PullHeld,
     Pulled, Request
<1>2. CASE Edit(d)
  <2> DEFINE c == [copy[d] EXCEPT !.version = now + 1]
  <2>1. copy'[d] = c /\ copy[d] # None /\ queue[d] = None /\ now' = now + 1
    BY <1>0, <1>2 DEF Edit
  <2>2. c \in Entities /\ c.owner = copy[d].owner /\ c.version = now + 1
    BY <1>0, <2>1, Shapes DEF Entities, Versions
  <2> HIDE DEF c
  <2>3. copy'[d] # None
    BY <2>1, <2>2, NoneAssumption
  <2> DEFINE q == [kind |-> "put", account |-> copy[d].owner, version |-> now + 1, read |-> FALSE]
  <2>4. queue'[d] = q
    BY <1>0, <1>2 DEF Edit
  <2>5. q \in Queued /\ q.kind = "put" /\ q.account = copy[d].owner /\ q.version = now + 1
    BY <2>1, Shapes DEF Queued, Kinds, Versions
  <2> HIDE DEF q
  <2>6. queue'[d] # None
    BY <2>4, <2>5, NoneAssumption
  <2>7. QED  BY <1>2, <2>1, <2>2, <2>3, <2>4, <2>5, <2>6
<1>3. CASE Delete(d)
  <2> DEFINE q == [kind |-> "delete", account |-> copy[d].owner, version |-> 0, read |-> FALSE]
  <2>1. queue'[d] = q /\ copy'[d] = None /\ copy[d] # None
    BY <1>0, <1>3 DEF Delete
  <2>2. q \in Queued /\ q.kind = "delete" /\ q.account = copy[d].owner
    BY <2>1, Shapes DEF Queued, Kinds, Versions
  <2> HIDE DEF q
  <2>3. QED  BY <1>3, <2>1, <2>2, NoneAssumption
<1>4. ASSUME NEW a \in Accounts, PullDelete(d, a)
      PROVE  copy'[d] = copy[d] \/ (copy[d] # None /\ copy[d].owner = a /\ copy'[d] = None)
  BY <1>0, <1>4 DEF PullDelete
<1>5. ASSUME NEW a \in Accounts, PullPut(d, a)
      PROVE  copy'[d] = copy[d] \/ (copy'[d] = Entity(a, NextOp(d, a).version)
                                     /\ (copy[d] # None => copy[d].version <= NextOp(d, a).version))
  <2>1. NextOp(d, a).version \in Nat
    BY <1>5, NextOpType DEF PullPut, Ops, Versions
  <2>2. QED  BY <1>0, <1>5, <2>1, Shapes DEF PullPut
<1>6. CASE UNCHANGED copy
  BY <1>6
<1>7. CASE Server \/ Crash \/ UNCHANGED vars
  BY <1>6, <1>7 DEF Server, Find, Receipt, Flip, DeleteLeg, CreateLeg, Cascade, Resolve, DeleteAgain, CreateAgain,
     GenerateBegin, GenerateEnd, Crash, vars
<1>8. CASE Device(d)
  <2>1. CASE PushRead(d) \/ PushWrite(d) \/ PushDelete(d) \/ \E from, to \in Accounts : Request(d, from, to)
    BY <1>6, <2>1 DEF PushRead, PushWrite, PushDelete, Request
  <2>2. CASE \E a \in Accounts : PullHeld(d, a)
    BY <1>6, <2>2 DEF PullHeld
  <2>3. QED  BY <1>2, <1>3, <1>4, <1>5, <1>8, <2>1, <2>2 DEF Device
<1>9. QED  BY <1>1, <1>7, <1>8 DEF Next

\* What becomes of what a device queues: it is added, read, read anew, or done.
LEMMA Queuing ==
  ASSUME TypeOK, [Next]_vars, NEW d \in Devices
  PROVE  \/ queue'[d] = queue[d]
         \/ /\ queue[d] = None /\ copy[d] # None /\ queue'[d] # None
            /\ queue'[d].account = copy[d].owner /\ ~queue'[d].read
            /\ \/ Edit(d) /\ queue'[d].kind = "put" /\ queue'[d].version = now + 1 /\ now' = now + 1
               \/ Delete(d) /\ queue'[d].kind = "delete" /\ queue'[d].version = 0
         \/ /\ queue[d] # None /\ queue'[d] # None
            /\ queue'[d].kind = queue[d].kind /\ queue'[d].account = queue[d].account
            /\ queue'[d].version = queue[d].version
            /\ \/ PushRead(d) /\ Owns(queue[d].account)
               \/ Crash /\ ~queue'[d].read
         \/ /\ queue[d] # None /\ queue'[d] = None
            /\ (PushRead(d) /\ ~Owns(queue[d].account)) \/ PushWrite(d) \/ PushDelete(d)
<1> USE DEF server, client
<1>0. d \in DOMAIN queue /\ (queue[d] # None => queue[d] \in Queued)
  BY DEF TypeOK
<1>1. ASSUME NEW e \in Devices, Device(e), e # d PROVE queue'[d] = queue[d]
  BY <1>0, <1>1 DEF Device, Edit, Delete, PushRead, PushWrite, PushDelete, PullDelete, PullPut, PullHeld,
     Pulled, Request
<1>2. CASE Edit(d)
  <2> DEFINE q == [kind |-> "put", account |-> copy[d].owner, version |-> now + 1, read |-> FALSE]
  <2>1. queue'[d] = q /\ copy[d] # None /\ queue[d] = None /\ now' = now + 1
    BY <1>0, <1>2 DEF Edit
  <2>2. q \in Queued /\ q.kind = "put" /\ q.account = copy[d].owner /\ q.version = now + 1 /\ ~q.read
    BY <2>1, Shapes DEF Queued, Kinds, Versions
  <2> HIDE DEF q
  <2>3. QED  BY <1>2, <2>1, <2>2, NoneAssumption
<1>3. CASE Delete(d)
  <2> DEFINE q == [kind |-> "delete", account |-> copy[d].owner, version |-> 0, read |-> FALSE]
  <2>1. queue'[d] = q /\ copy[d] # None /\ queue[d] = None
    BY <1>0, <1>3 DEF Delete
  <2>2. q \in Queued /\ q.kind = "delete" /\ q.account = copy[d].owner /\ q.version = 0 /\ ~q.read
    BY <2>1, Shapes DEF Queued, Kinds, Versions
  <2> HIDE DEF q
  <2>3. QED  BY <1>3, <2>1, <2>2, NoneAssumption
<1>4. \A b \in BOOLEAN : queue[d] # None =>
        LET q == [queue[d] EXCEPT !.read = b]
        IN  q # None /\ q.kind = queue[d].kind /\ q.account = queue[d].account
            /\ q.version = queue[d].version /\ q.read = b
  <2> SUFFICES ASSUME NEW b \in BOOLEAN, queue[d] # None
               PROVE  LET q == [queue[d] EXCEPT !.read = b]
                      IN  q # None /\ q.kind = queue[d].kind /\ q.account = queue[d].account
                          /\ q.version = queue[d].version /\ q.read = b
    OBVIOUS
  <2> DEFINE q == [queue[d] EXCEPT !.read = b]
  <2>1. q \in Queued /\ q.kind = queue[d].kind /\ q.account = queue[d].account
        /\ q.version = queue[d].version /\ q.read = b
    BY <1>0 DEF Queued
  <2>2. q # None
    BY <2>1, NoneAssumption
  <2>3. QED  BY <2>1, <2>2
<1>5. CASE PushRead(d)
  <2>1. queue[d] # None
    BY <1>5 DEF PushRead
  <2>2. CASE Owns(queue[d].account)
    <3>1. queue'[d] = [queue[d] EXCEPT !.read = TRUE]
      BY <1>0, <1>5, <2>2 DEF PushRead
    <3>2. /\ queue'[d] # None /\ queue'[d].kind = queue[d].kind /\ queue'[d].account = queue[d].account
          /\ queue'[d].version = queue[d].version
      <4>1. TRUE \in BOOLEAN
        OBVIOUS
      <4>2. QED  BY <1>4, <2>1, <3>1, <4>1
    <3>3. QED  BY <1>5, <2>1, <2>2, <3>2
  <2>3. CASE ~Owns(queue[d].account)
    BY <1>0, <1>5, <2>1, <2>3 DEF PushRead
  <2>4. QED  BY <2>2, <2>3
<1>6. CASE PushWrite(d) \/ PushDelete(d)
  BY <1>0, <1>6 DEF PushWrite, PushDelete
<1>7. CASE Crash
  <2>1. queue'[d] = IF queue[d] = None THEN None ELSE [queue[d] EXCEPT !.read = FALSE]
    BY <1>7 DEF Crash
  <2>2. QED  BY <1>4, <1>7, <2>1
<1>8. CASE Server \/ UNCHANGED vars
  BY <1>8 DEF Server, Find, Receipt, Flip, DeleteLeg, CreateLeg, Cascade, Resolve, DeleteAgain, CreateAgain,
     GenerateBegin, GenerateEnd, vars
<1>9. CASE Device(d)
  <2>1. CASE \E a \in Accounts : PullDelete(d, a) \/ PullPut(d, a) \/ PullHeld(d, a)
    BY <2>1 DEF PullDelete, PullPut, PullHeld, Pulled
  <2>2. CASE \E from, to \in Accounts : Request(d, from, to)
    BY <2>2 DEF Request
  <2>3. QED  BY <1>2, <1>3, <1>5, <1>6, <1>9, <2>1, <2>2 DEF Device
<1>10. QED  BY <1>1, <1>7, <1>8, <1>9 DEF Next

\* What becomes of the move.
LEMMA Moving ==
  ASSUME TypeOK, [Next]_vars
  PROVE  \/ UNCHANGED move
         \/ move' = None
         \/ move = None /\ move'.step = "find"
         \/ /\ move # None /\ move'.from = move.from /\ move'.to = move.to
            /\ \/ Find /\ move'.step = "receipt" /\ move'.version = now + 1 /\ now' = now + 1
               \/ Resolve /\ move'.step = "deleteAgain" /\ move'.version = row.version
               \/ /\ move'.version = move.version
                  /\ \/ Find /\ move'.step = "resolve"
                     \/ Receipt /\ move'.step = "flip"
                     \/ Flip /\ ~Owns(move.from) /\ move'.step = "resolve"
                     \/ Flip /\ Owns(move.from) /\ move'.step = "deleteLeg"
                     \/ DeleteLeg /\ move'.step = "createLeg"
                     \/ DeleteAgain /\ move'.step = "createAgain"
                     \/ Creating /\ move'.step = "cascade"
<1> USE DEF server, client
<1>1. \A s \in Steps : move # None /\ GoTo(s) =>
        /\ move'.step = s /\ move'.from = move.from /\ move'.to = move.to
        /\ move'.version = move.version
  <2> SUFFICES ASSUME NEW s \in Steps, move # None, GoTo(s)
               PROVE  /\ move'.step = s /\ move'.from = move.from /\ move'.to = move.to
                      /\ move'.version = move.version
    OBVIOUS
  <2>1. move \in Moves /\ move' = [move EXCEPT !.step = s]
    BY Shapes DEF GoTo
  <2>2. QED  BY <2>1 DEF Moves
<1>2. \A v, s : move # None => LET m == [move EXCEPT !.step = s, !.version = v] IN
                    m.step = s /\ m.version = v /\ m.from = move.from /\ m.to = move.to
  BY Shapes DEF Moves
<1>3. CASE Find
  <2>1. move # None
    BY <1>3 DEF Find, At
  <2>2. CASE Owns(move.from)
    <3>1. move' = [move EXCEPT !.step = "receipt", !.version = now + 1] /\ now' = now + 1
      BY <1>3, <2>2 DEF Find
    <3>2. QED  BY <1>2, <1>3, <2>1, <3>1
  <2>3. CASE ~Owns(move.from)
    BY <1>1, <1>3, <2>1, <2>3 DEF Find, Steps
  <2>4. QED  BY <2>2, <2>3
<1>4. CASE Resolve
  BY <1>2, <1>4 DEF Resolve, At
<1>5. CASE Receipt \/ Flip
  BY <1>1, <1>5 DEF Receipt, Flip, At, Steps
<1>6. CASE DeleteLeg \/ CreateLeg \/ DeleteAgain \/ CreateAgain
  BY <1>1, <1>6 DEF DeleteLeg, CreateLeg, DeleteAgain, CreateAgain, Creating, At, Steps
<1>7. CASE Cascade \/ GenerateBegin \/ GenerateEnd \/ Crash \/ UNCHANGED vars
  BY <1>7 DEF Cascade, GenerateBegin, GenerateEnd, Crash, vars
<1>8. ASSUME NEW d \in Devices, Device(d) PROVE UNCHANGED move \/ (move = None /\ move'.step = "find")
  BY <1>8 DEF Device, Edit, Delete, PushRead, PushWrite, PushDelete, PullDelete, PullPut, PullHeld, Pulled, Request
<1>9. QED  BY <1>3, <1>4, <1>5, <1>6, <1>7, <1>8 DEF Next, Server

LEMMA Clock == ASSUME TypeOK, [Next]_vars PROVE now \in Nat /\ now' \in Nat /\ now <= now'
<1> USE DEF server, client
<1>1. now \in Nat
  BY Shapes
<1>2. now' = now \/ now' = now + 1
  BY DEF Next, vars, Server, Find, Receipt, Flip, DeleteLeg, CreateLeg, Cascade, Resolve, DeleteAgain, CreateAgain,
     GenerateBegin, GenerateEnd, Crash, Device, Edit, Delete, PushRead, PushWrite, PushDelete, PullDelete,
     PullPut, PullHeld, Pulled, Request
<1>3. QED  BY <1>1, <1>2

-----------------------------------------------------------------------------
(* Versions and reads *)

\* What is put in a log is a version that the row has, or is just given.
LEMMA Logged ==
  ASSUME TypeOK, MoveInv, Calm, [Next]_vars,
         NEW a \in Accounts, NEW i \in DOMAIN log'[a], log'[a][i].kind = "put"
  PROVE  \/ i \in Puts(a) /\ log'[a][i] = log[a][i]
         \/ Creating /\ a = move.to /\ log'[a][i].version = move.version /\ Announcing
         \/ \E d \in Devices : /\ PushWrite(d) /\ a = queue[d].account /\ Owns(a)
                               /\ queue[d] # None /\ log'[a][i].version = queue[d].version
<1>1. CASE UNCHANGED log
  BY <1>1 DEF Puts
<1>2. CASE Deleting /\ Grew(move.from, Entry("delete", 0))
  <2>1. move # None
    BY <1>2 DEF Deleting, DeleteLeg, DeleteAgain, At
  <2>2. QED  BY <1>2, <2>1, OldAndNew, Fresh, Shapes DEF Puts
<1>3. CASE Creating /\ Grew(move.to, Entry("put", move.version))
  <2>1. move # None /\ Announcing
    BY <1>3 DEF Creating, CreateLeg, CreateAgain, At, Announcing
  <2>2. QED  BY <1>3, <2>1, OldAndNew, Fresh, Shapes DEF Puts
<1>4. ASSUME NEW d \in Devices, PushWrite(d) /\ Grew(queue[d].account, Entry("put", queue[d].version))
      PROVE  \/ i \in Puts(a) /\ log'[a][i] = log[a][i]
             \/ /\ PushWrite(d) /\ a = queue[d].account /\ Owns(a)
                /\ queue[d] # None /\ log'[a][i].version = queue[d].version
  <2>1. queue[d] # None /\ Owns(queue[d].account)
    BY <1>4 DEF PushWrite, MoveInv, ServerInv, ReadsHold
  <2>2. QED  BY <1>4, <2>1, OldAndNew, Fresh, Shapes DEF Puts
<1>5. ASSUME NEW d \in Devices, PushDelete(d) /\ Grew(queue[d].account, Entry("delete", 0))
      PROVE  i \in Puts(a) /\ log'[a][i] = log[a][i]
  <2>1. queue[d] # None
    BY <1>5 DEF PushDelete
  <2>2. QED  BY <1>5, <2>1, OldAndNew, Fresh, Shapes DEF Puts
<1>6. QED  BY <1>1, <1>2, <1>3, <1>4, <1>5, Loggings

\* The entry a device pulls.
LEMMA Pulling ==
  ASSUME TypeOK, NEW d \in Devices, NEW a \in Accounts, CanPull(d, a)
  PROVE  /\ cursor[d][a] + 1 \in DOMAIN log[a] /\ cursor[d][a] \in Nat
         /\ NextOp(d, a) = log[a][cursor[d][a] + 1] /\ NextOp(d, a).version \in Nat
<1>1. cursor[d][a] \in Nat /\ cursor[d][a] < Len(log[a])
  BY DEF TypeOK, CanPull
<1>2. QED  BY <1>1, Entries DEF NextOp

LEMMA HandedOutStays ==
  ASSUME TypeOK, MoveInv, Calm, [Next]_vars
  PROVE  HandedOut'
<1>0. HandedOut /\ ReadsHold /\ now \in Nat /\ now' \in Nat /\ now <= now'
  BY Clock DEF MoveInv, ServerInv
<1>1. row' # None => row'.version <= now'
  <2>1. CASE UNCHANGED row
    BY <2>1, <1>0, Shapes DEF HandedOut
  <2>2. CASE Flip /\ row' = Entity(move.to, move.version)
    <3>1. move # None /\ move.version <= now
      BY <2>2 DEF Flip, At, MoveInv, ServerInv, AboutToFlip
    <3>2. QED  BY <2>2, <3>1, <1>0, Shapes, Fresh
  <2>3. ASSUME NEW d \in Devices, PushWrite(d), row' = Entity(queue[d].account, queue[d].version)
        PROVE  row'.version <= now'
    <3>1. queue[d] # None
      BY <2>3 DEF PushWrite
    <3>2. QED  BY <2>3, <3>1, <1>0, Shapes, Fresh DEF HandedOut
  <2>4. QED  BY <2>1, <2>2, <2>3, <1>0, Writings
<1>2. ASSUME NEW a \in Accounts, NEW i \in DOMAIN log'[a], log'[a][i].kind = "put"
      PROVE  log'[a][i].version <= now'
  <2>1. CASE i \in Puts(a) /\ log'[a][i] = log[a][i]
    BY <2>1, <1>0, Entries DEF HandedOut, Puts
  <2>2. CASE Creating /\ log'[a][i].version = move.version /\ Announcing
    <3>1. move # None /\ row # None /\ move.version <= row.version
      BY <2>2 DEF MoveInv, ServerInv, UnderWay, Announcing, Owns
    <3>2. QED  BY <2>2, <3>1, <1>0, Shapes DEF HandedOut
  <2>3. ASSUME NEW d \in Devices, queue[d] # None, log'[a][i].version = queue[d].version
        PROVE  log'[a][i].version <= now'
    BY <2>3, <1>0, Shapes DEF HandedOut
  <2>4. QED  BY <1>2, <2>1, <2>2, <2>3, Logged
<1>3. ASSUME NEW d \in Devices, copy'[d] # None PROVE copy'[d].version <= now'
  <2>1. CASE copy'[d] = copy[d]
    BY <1>3, <2>1, <1>0, Shapes DEF HandedOut
  <2>2. CASE copy'[d].version = now + 1 /\ now' = now + 1
    BY <2>2, <1>0
  <2>3. ASSUME NEW a \in Accounts, PullPut(d, a), copy'[d] = Entity(a, NextOp(d, a).version)
        PROVE  copy'[d].version <= now'
    <3>1. CanPull(d, a) /\ NextOp(d, a).kind = "put"
      BY <2>3 DEF PullPut
    <3>2. NextOp(d, a).version <= now /\ NextOp(d, a).version \in Nat
      BY <3>1, <1>0, Pulling DEF HandedOut, Puts
    <3>3. QED  BY <2>3, <3>2, <1>0, Fresh
  <2>4. QED  BY <1>3, <2>1, <2>2, <2>3, Copies
<1>4. ASSUME NEW d \in Devices, queue'[d] # None PROVE queue'[d].version <= now'
  <2>1. queue[d] # None => queue[d].version <= now /\ queue[d].version \in Nat
    BY <1>0, Shapes DEF HandedOut
  <2>2. \/ queue[d] # None /\ queue'[d].version = queue[d].version
        \/ queue'[d].version = now + 1 /\ now' = now + 1
        \/ queue'[d].version = 0
    BY <1>4, Queuing
  <2>3. QED  BY <2>1, <2>2, <1>0
<1>5. QED  BY <1>1, <1>2, <1>3, <1>4 DEF HandedOut, Puts

\* No step of the move, and no delete, comes between a push's read and its write.
LEMMA ReadsStay ==
  ASSUME TypeOK, MoveInv, Calm, [Next]_vars
  PROVE  ReadsHold'
<1> SUFFICES ASSUME NEW d \in Devices, queue'[d] # None, queue'[d].read
             PROVE  /\ queue'[d].kind = "put" /\ row' # None /\ row'.owner = queue'[d].account
                    /\ ~At("receipt")' /\ ~At("flip")'
  BY DEF ReadsHold, Owns
<1>0. ReadsHold /\ "parallelEdit" \notin Races /\ "deleteBesidePush" \notin Races
  BY DEF MoveInv, ServerInv, Calm
<1>1. \/ PushRead(d) /\ Owns(queue[d].account) /\ queue[d] # None
         /\ queue'[d].kind = queue[d].kind /\ queue'[d].account = queue[d].account
      \/ queue'[d] = queue[d]
  BY Queuing
<1>2. CASE PushRead(d) /\ Owns(queue[d].account) /\ queue[d] # None
           /\ queue'[d].kind = queue[d].kind /\ queue'[d].account = queue[d].account
  <2>1. queue[d].kind = "put" /\ ~At("receipt") /\ ~At("flip") /\ UNCHANGED <<row, move>>
    BY <1>0, <1>2 DEF PushRead, server
  <2>2. QED  BY <1>2, <2>1 DEF Owns, At
<1>3. CASE queue'[d] = queue[d]
  <2>1. /\ queue[d] # None /\ queue[d].read /\ queue[d].kind = "put" /\ Owns(queue[d].account)
        /\ ~At("receipt") /\ ~At("flip") /\ Applying
    BY <1>0, <1>3 DEF ReadsHold, Applying
  <2>2. ~At("receipt")' /\ ~At("flip")'
    <3>1. ~Find /\ ~Receipt
      BY <1>0, <2>1 DEF Find, Receipt
    <3>2. QED  BY <2>1, <3>1, Moving DEF At
  <2>3. row' # None /\ row'.owner = queue[d].account
    <3>1. CASE UNCHANGED row
      BY <2>1, <3>1 DEF Owns
    <3>2. ~Flip
      BY <2>1 DEF Flip
    <3>3. ASSUME NEW e \in Devices, PushWrite(e), Owns(queue[e].account),
                 row' = Entity(queue[e].account, queue[e].version)
          PROVE  row' # None /\ row'.owner = queue[d].account
      <4>1. queue[e] # None /\ queue[e].account = queue[d].account
        BY <2>1, <3>3 DEF PushWrite, Owns
      <4>2. QED  BY <3>3, <4>1, Shapes, Fresh
    <3>4. ASSUME NEW e \in Devices, PushDelete(e), Owns(queue[e].account) PROVE FALSE
      BY <1>0, <2>1, <3>4 DEF PushDelete
    <3>5. QED  BY <1>0, <3>1, <3>2, <3>3, <3>4, Writings
  <2>4. QED  BY <1>3, <2>1, <2>2, <2>3
<1>4. QED  BY <1>1, <1>2, <1>3

LEMMA LatestStays ==
  ASSUME TypeOK, MoveInv, Calm, [Next]_vars
  PROVE  Latest'
<1> SUFFICES ASSUME row' # None, NEW a \in Accounts, NEW i \in DOMAIN log'[a], log'[a][i].kind = "put"
             PROVE  /\ log'[a][i].version <= row'.version
                    /\ a # row'.owner => log'[a][i].version < row'.version
  BY DEF Latest, Puts
<1>0. Latest /\ ReadsHold
  BY DEF MoveInv, ServerInv
<1>1. \A b \in Accounts : \A j \in Puts(b) : log[b][j].version \in Nat
  BY Entries DEF Puts
<1>2. CASE UNCHANGED row
  <2>1. CASE i \in Puts(a) /\ log'[a][i] = log[a][i]
    BY <1>0, <1>2, <2>1 DEF Latest
  <2>2. CASE Creating /\ a = move.to /\ log'[a][i].version = move.version /\ Announcing
    <3>1. move # None /\ Owns(move.to) /\ move.version <= row.version
      BY <2>2 DEF MoveInv, ServerInv, UnderWay, Announcing
    <3>2. QED  BY <1>2, <2>2, <3>1 DEF Owns
  <2>3. ASSUME NEW d \in Devices, PushWrite(d), a = queue[d].account, Owns(a), queue[d] # None,
               log'[a][i].version = queue[d].version
        PROVE  log'[a][i].version <= row'.version /\ a = row'.owner
    <3>1. row' = IF row.version <= queue[d].version THEN Entity(a, queue[d].version) ELSE row
      BY <2>3 DEF PushWrite, Owns
    <3>2. queue[d].version <= row'.version
      BY <3>1, <2>3, Shapes, Fresh DEF Owns
    <3>3. QED  BY <1>2, <2>3, <3>2 DEF Owns
  <2>4. QED  BY <2>1, <2>2, <2>3, Logged
<1>3. CASE Flip /\ Owns(move.from) /\ row' = Entity(move.to, move.version)
  <2>1. move # None /\ UNCHANGED log
    BY <1>3 DEF Flip, At
  <2>2. log[a][i].version < move.version /\ log[a][i].version \in Nat
    BY <1>1, <1>3, <2>1 DEF Flip, MoveInv, ServerInv, AboutToFlip, Puts
  <2>3. QED  BY <1>3, <2>1, <2>2, Shapes, Fresh
<1>4. ASSUME NEW d \in Devices, PushWrite(d), Owns(queue[d].account), row.version <= queue[d].version,
             row' = Entity(queue[d].account, queue[d].version)
      PROVE  /\ log'[a][i].version <= row'.version
             /\ a # row'.owner => log'[a][i].version < row'.version
  <2>1. /\ row' # None /\ row'.owner = queue[d].account /\ row'.version = queue[d].version
        /\ queue[d].version \in Nat /\ row.version \in Nat /\ row # None /\ row.owner = queue[d].account
    BY <1>4, Shapes, Fresh DEF PushWrite, Owns
  <2>2. CASE i \in Puts(a) /\ log'[a][i] = log[a][i]
    <3>1. log[a][i].version <= row.version /\ (a # row.owner => log[a][i].version < row.version)
      BY <1>0, <2>1, <2>2 DEF Latest
    <3>2. log[a][i].version \in Nat
      BY <1>1, <2>2
    <3>3. QED  BY <1>4, <2>1, <2>2, <3>1, <3>2
  <2>3. CASE ~(i \in Puts(a) /\ log'[a][i] = log[a][i])
    <3>1. /\ log' = [log EXCEPT ![queue[d].account] = Append(@, Entry("put", queue[d].version))]
          /\ queue[d] # None
      BY <1>4 DEF PushWrite, Logs
    <3>2. Grew(queue[d].account, Entry("put", queue[d].version))
      BY <3>1, Shapes, Fresh, Growing DEF Logs
    <3>3. a = queue[d].account /\ log'[a][i].version = queue[d].version
      BY <3>1, <3>2, <2>3, OldAndNew, Fresh, Shapes DEF Puts
    <3>4. QED  BY <2>1, <3>3
  <2>4. QED  BY <2>2, <2>3
<1>5. QED  BY <1>0, <1>2, <1>3, <1>4, Writings

-----------------------------------------------------------------------------
(* The move and its announcement *)

\* The steps that change the row, a log, or what is owed; the others change none.
LEMMA Resting ==
  ASSUME TypeOK, [Next]_vars
  PROVE  \/ Flip \/ Deleting \/ Creating \/ Cascade
         \/ \E d \in Devices : PushWrite(d) \/ PushDelete(d)
         \/ UNCHANGED <<row, log, owed>>
<1> USE DEF server, client
<1>1. CASE Server \/ Crash \/ UNCHANGED vars
  BY <1>1 DEF Server, Find, Receipt, Resolve, GenerateBegin, GenerateEnd, Crash, vars, Deleting, Creating
<1>2. ASSUME NEW d \in Devices, Device(d), ~PushWrite(d), ~PushDelete(d) PROVE UNCHANGED <<row, log, owed>>
  BY <1>2 DEF Device, Edit, Delete, PushRead, PullDelete, PullPut, PullHeld, Pulled, Request
<1>3. QED  BY <1>1, <1>2 DEF Next

\* What a push that writes does to the row and the log.
LEMMA WriteEffect ==
  ASSUME TypeOK, MoveInv, NEW d \in Devices, PushWrite(d)
  PROVE  /\ queue[d] # None /\ Owns(queue[d].account) /\ queue[d].account \in Accounts
         /\ row # None /\ row' # None /\ row'.owner = row.owner /\ row.owner = queue[d].account
         /\ row.version <= row'.version /\ row.version \in Nat /\ row'.version \in Nat
         /\ Grew(queue[d].account, Entry("put", queue[d].version))
         /\ UNCHANGED row.version \/ row'.version = queue[d].version
         /\ Entry("put", queue[d].version).kind = "put"
         /\ Entry("put", queue[d].version).version = queue[d].version
         /\ UNCHANGED <<owed, move>>
<1>1. queue[d] # None /\ Owns(queue[d].account) /\ UNCHANGED <<owed, move>>
  BY DEF PushWrite, MoveInv, ServerInv, ReadsHold
<1>2. Grew(queue[d].account, Entry("put", queue[d].version))
  BY <1>1, Shapes, Fresh, Growing DEF PushWrite
<1>3. row' = IF row.version <= queue[d].version THEN Entity(queue[d].account, queue[d].version) ELSE row
  BY <1>1 DEF PushWrite, Owns
<1>4. QED  BY <1>1, <1>2, <1>3, Shapes, Fresh DEF Owns

\* And what a push that deletes does.
LEMMA DeleteEffect ==
  ASSUME TypeOK, NEW d \in Devices, PushDelete(d)
  PROVE  /\ queue[d] # None /\ queue[d].account \in Accounts
         /\ Grew(queue[d].account, Entry("delete", 0)) /\ Entry("delete", 0).kind = "delete"
         /\ row' = IF Owns(queue[d].account) THEN None ELSE row
         /\ UNCHANGED <<owed, move>>
<1>1. queue[d] # None /\ UNCHANGED <<owed, move>>
  BY DEF PushDelete
<1>2. QED  BY <1>1, Shapes, Fresh, Growing DEF PushDelete

LEMMA MoveEffect ==
  ASSUME TypeOK, Deleting \/ Creating
  PROVE  /\ move # None /\ Announcing /\ move.from \in Accounts /\ move.to \in Accounts /\ move.from # move.to
         /\ UNCHANGED <<row, owed>>
         /\ Deleting => Grew(move.from, Entry("delete", 0)) /\ Entry("delete", 0).kind = "delete"
         /\ Creating => /\ Grew(move.to, Entry("put", move.version))
                        /\ Entry("put", move.version).kind = "put"
                        /\ Entry("put", move.version).version = move.version
<1>1. move # None /\ Announcing /\ UNCHANGED <<row, owed>>
  BY DEF Deleting, Creating, DeleteLeg, CreateLeg, DeleteAgain, CreateAgain, At, Announcing
<1>2. Deleting => Logs(move.from, Entry("delete", 0))
  BY DEF Deleting, DeleteLeg, DeleteAgain
<1>3. Creating => Logs(move.to, Entry("put", move.version))
  BY DEF Creating, CreateLeg, CreateAgain
<1>4. QED  BY <1>1, <1>2, <1>3, Shapes, Fresh, Growing

LEMMA AboutToFlipStays ==
  ASSUME TypeOK, MoveInv, Calm, [Next]_vars
  PROVE  AboutToFlip'
<1> SUFFICES ASSUME At("receipt")' \/ At("flip")'
             PROVE  AboutToFlip'
  BY DEF AboutToFlip
<1>0. /\ HandedOut /\ ReadsHold /\ AboutToFlip /\ now \in Nat /\ now' \in Nat /\ now <= now'
      /\ "parallelEdit" \notin Races
  BY Clock DEF MoveInv, ServerInv, Calm
<1>1. CASE Find /\ move'.step = "receipt" /\ move'.version = now + 1 /\ now' = now + 1
  <2>1. UNCHANGED <<row, log, copy>>
    BY <1>1 DEF Find, server, client
  <2>2. row # None => row.version < move'.version
    BY <1>0, <1>1, Shapes DEF HandedOut
  <2>3. \A a \in Accounts : \A i \in Puts(a) : log[a][i].version < move'.version
    <3>1. \A a \in Accounts : \A i \in Puts(a) : log[a][i].version <= now /\ log[a][i].version \in Nat
      BY <1>0, Entries DEF HandedOut, Puts
    <3>2. QED  BY <1>0, <1>1, <3>1
  <2>4. \A d \in Devices : copy[d] # None => ~(copy[d].version > move'.version)
    BY <1>0, <1>1, Shapes DEF HandedOut
  <2>5. move'.version <= now'
    BY <1>0, <1>1
  <2>6. QED  BY <2>1, <2>2, <2>3, <2>4, <2>5 DEF AboutToFlip, Puts
<1>2. CASE (At("receipt") \/ At("flip")) /\ move'.version = move.version /\ move' # None /\ ~Flip
  <2>1. /\ move # None /\ move.version <= now /\ move.version \in Nat
        /\ row # None => row.version < move.version
        /\ \A a \in Accounts : \A i \in Puts(a) : log[a][i].version < move.version
        /\ \A d \in Devices : copy[d] # None /\ copy[d].version > move.version =>
             Queues(d, "put", copy[d].owner) /\ queue[d].version = copy[d].version
    BY <1>0, <1>2, Shapes DEF AboutToFlip, At
  <2>2. \A d \in Devices : ~PushWrite(d) /\ ~PushRead(d)
    BY <1>0, <1>2 DEF ReadsHold, PushWrite, PushRead
  <2>3. row' = row \/ row' = None
    BY <1>0, <1>2, <2>2, Writings
  <2>4. ~Creating /\ ~Crash
    BY <1>2 DEF Creating, CreateLeg, CreateAgain, At, Crash
  <2>5. ASSUME NEW a \in Accounts, NEW i \in DOMAIN log'[a], log'[a][i].kind = "put"
        PROVE  log'[a][i].version < move.version
    BY <2>1, <2>2, <2>4, <2>5, Logged
  <2>6. ASSUME NEW d \in Devices, copy'[d] # None, copy'[d].version > move.version
        PROVE  /\ queue'[d] # None /\ queue'[d].kind = "put" /\ queue'[d].account = copy'[d].owner
               /\ queue'[d].version = copy'[d].version
    <3>1. CASE copy'[d] = copy[d]
      <4>1. /\ queue[d] # None /\ queue[d].kind = "put" /\ queue[d].account = copy[d].owner
            /\ queue[d].version = copy[d].version
        BY <2>1, <2>6, <3>1 DEF Queues
      <4>2. ~PushDelete(d)
        BY <4>1 DEF PushDelete
      <4>3. \/ queue'[d] = queue[d]
            \/ /\ queue'[d] # None /\ queue'[d].kind = queue[d].kind /\ queue'[d].account = queue[d].account
               /\ queue'[d].version = queue[d].version
        BY <2>2, <4>1, <4>2, Queuing
      <4>4. QED  BY <3>1, <4>1, <4>3
    <3>2. ASSUME NEW a \in Accounts, PullPut(d, a), copy'[d] = Entity(a, NextOp(d, a).version)
          PROVE  FALSE
      <4>1. CanPull(d, a) /\ NextOp(d, a).kind = "put"
        BY <3>2 DEF PullPut
      <4>2. NextOp(d, a).version < move.version /\ NextOp(d, a).version \in Nat
        BY <4>1, <2>1, Pulling DEF Puts
      <4>3. QED  BY <2>1, <2>6, <3>2, <4>2, Fresh
    <3>3. QED  BY <2>6, <3>1, <3>2, Copies
  <2>7. move.version <= now'
    BY <1>0, <2>1
  <2>8. QED  BY <1>2, <2>1, <2>3, <2>5, <2>6, <2>7 DEF AboutToFlip, Puts, Queues
<1>3. QED
  <2>1. move' # None /\ move'.step \in {"receipt", "flip"}
    BY DEF At
  <2>2. \/ UNCHANGED move
        \/ Find /\ move'.step = "receipt" /\ move'.version = now + 1 /\ now' = now + 1
        \/ Receipt /\ move'.step = "flip" /\ move'.version = move.version
    BY <2>1, Moving
  <2>3. CASE UNCHANGED move
    <3>1. At("receipt") \/ At("flip")
      BY <2>1, <2>3 DEF At
    <3>2. ~Flip
      <4>1. ASSUME Flip PROVE FALSE
        <5>1. move # None /\ move.step = "flip" /\ move \in Moves
          BY <4>1, Shapes DEF Flip, At
        <5>2. move'.step \in {"deleteLeg", "resolve"}
          BY <4>1, <5>1 DEF Flip, GoTo, Moves
        <5>3. QED  BY <2>3, <5>1, <5>2
      <4>2. QED  BY <4>1
    <3>3. QED  BY <1>2, <2>1, <2>3, <3>1, <3>2
  <2>4. CASE Receipt /\ move'.step = "flip" /\ move'.version = move.version
    BY <1>2, <2>1, <2>4 DEF Receipt, Flip, At
  <2>5. QED  BY <1>1, <2>2, <2>3, <2>4

LEMMA UnderWayStays ==
  ASSUME TypeOK, MoveInv, Calm, [Next]_vars
  PROVE  UnderWay'
<1> SUFFICES ASSUME Announcing'
             PROVE  /\ row' # None /\ row'.owner = move'.to /\ move'.version <= row'.version
                    /\ move'.version = row'.version \/ Told(move.to)'
  BY DEF UnderWay, Owns
<1>0. UnderWay /\ "deleteBesideLegs" \notin Races
  BY DEF MoveInv, ServerInv, Calm
<1>1. move' # None /\ move'.step \in {"deleteLeg", "createLeg", "deleteAgain", "createAgain"}
  BY DEF Announcing
<1>2. CASE Announcing /\ move'.to = move.to /\ move'.version = move.version /\ ~Creating
  <2>1. /\ move # None /\ Owns(move.to) /\ move.to \in Accounts /\ move.version \in Nat
        /\ row # None /\ row.version \in Nat /\ move.version <= row.version
        /\ move.version = row.version \/ Told(move.to)
    BY <1>0, <1>2, Shapes DEF UnderWay, Announcing, Owns
  <2>2. CASE Deleting
    <3>1. PICK b \in Accounts : b = move.to
      BY <2>1
    <3>2. UNCHANGED row /\ (Told(b) => Told(b)')
      BY <2>2, <3>1, MoveEffect, StandsOn
    <3>3. Told(move.to) => Told(move.to)'
      BY <1>2, <3>1, <3>2
    <3>4. QED  BY <1>2, <2>1, <3>2, <3>3 DEF Owns
  <2>3. ASSUME NEW d \in Devices, PushWrite(d)
        PROVE  /\ row' # None /\ row'.owner = move'.to /\ move'.version <= row'.version
               /\ move'.version = row'.version \/ Told(move.to)'
    <3>1. queue[d].account = move.to
      BY <2>1, <2>3, WriteEffect DEF Owns
    <3>2. CASE UNCHANGED row.version
      <4>1. \A b \in Accounts : Told(b) => Told(b)'
        BY <2>3, <3>2, WriteEffect, StandsOn
      <4>2. PICK b \in Accounts : b = move.to
        BY <2>1
      <4>3. Told(move.to) => Told(move.to)'
        BY <2>3, <4>1, <4>2, WriteEffect
      <4>4. QED  BY <1>2, <2>1, <2>3, <3>2, <4>3, WriteEffect DEF Owns
    <3>3. CASE row'.version = queue[d].version
      <4>1. \A b \in Accounts : b = queue[d].account => Told(b)'
        BY <2>3, <3>3, WriteEffect, StandsNew
      <4>2. Told(move.to)'
        BY <2>1, <2>3, <3>1, <4>1, WriteEffect
      <4>3. QED  BY <1>2, <2>1, <2>3, <4>2, WriteEffect DEF Owns
    <3>4. QED  BY <2>3, <3>2, <3>3, WriteEffect
  <2>4. \A d \in Devices : ~PushDelete(d)
    BY <1>0, <1>2 DEF PushDelete
  <2>5. ~Flip /\ ~Cascade
    BY <1>2 DEF Flip, Cascade, At, Announcing
  <2>6. CASE UNCHANGED <<row, log, owed>>
    <3>1. PICK b \in Accounts : b = move.to
      BY <2>1
    <3>2. Told(b) <=> Told(b)'
      BY <2>6, SameLog
    <3>3. Told(move.to) => Told(move.to)'
      BY <1>2, <3>1, <3>2
    <3>4. QED  BY <1>2, <2>1, <2>6, <3>3 DEF Owns
  <2>7. QED  BY <1>2, <2>2, <2>3, <2>4, <2>5, <2>6, Resting
<1>3. CASE Resolve /\ move' # None /\ move'.version = row.version /\ move'.to = move.to
  <2>1. UNCHANGED row /\ Owns(move.to)
    BY <1>3 DEF Resolve, server
  <2>2. QED  BY <1>3, <2>1, Shapes DEF Owns
<1>4. CASE Flip /\ Owns(move.from) /\ move'.version = move.version /\ move'.to = move.to /\ move # None
  <2>1. row' = Entity(move.to, move.version)
    BY <1>4 DEF Flip
  <2>2. QED  BY <1>4, <2>1, Shapes, Fresh
<1>5. QED
  <2>1. CASE UNCHANGED move
    <3>1. Announcing
      BY <1>1, <2>1 DEF Announcing
    <3>2. ~Creating
      <4>1. SUFFICES ASSUME Creating PROVE FALSE
        OBVIOUS
      <4>2. move \in Moves /\ move' = [move EXCEPT !.step = "cascade"]
        BY <4>1, MoveEffect, Shapes DEF Creating, CreateLeg, CreateAgain, GoTo
      <4>3. QED  BY <1>1, <4>2 DEF Moves
    <3>3. QED  BY <1>2, <2>1, <3>1, <3>2
  <2>2. CASE DeleteLeg \/ DeleteAgain
    <3>1. Announcing /\ ~Creating /\ ~Find /\ ~Resolve
      BY <2>2 DEF DeleteLeg, DeleteAgain, CreateLeg, CreateAgain, Creating, Find, Resolve, At, Announcing
    <3>2. move # None /\ (GoTo("createLeg") \/ GoTo("createAgain"))
      BY <2>2 DEF DeleteLeg, DeleteAgain, At
    <3>3. move'.to = move.to /\ move'.version = move.version
      BY <2>2, <3>2, Shapes DEF DeleteLeg, DeleteAgain, At, GoTo, Moves
    <3>4. QED  BY <1>2, <3>1, <3>3
  <2>3. QED  BY <1>1, <1>3, <1>4, <2>1, <2>2, Moving

LEMMA HalfDoneStays ==
  ASSUME TypeOK, MoveInv, Calm, [Next]_vars
  PROVE  HalfDone'
<1> SUFFICES ASSUME move' # None, move'.step \in {"createLeg", "createAgain", "cascade"},
                    NEW b \in Accounts, b = move'.from
             PROVE  ~(row' # None /\ row'.owner = b) /\ EndsWith(b, "delete")'
  <2>1. TypeOK'
    BY TypeStep
  <2>2. move' # None => move'.from \in Accounts
    BY <2>1 DEF TypeOK, Moves
  <2>3. QED  BY <2>2 DEF HalfDone, At, Owns
<1>1. HalfDone /\ UnderWay
  BY DEF MoveInv, ServerInv
<1>2. b = move.from /\ move # None /\ (Deleting \/ Creating \/ UNCHANGED move)
  BY Moving DEF Deleting
<1>3. b = move.from
  BY <1>2
<1>4. CASE Deleting
  BY <1>1, <1>3, <1>4, MoveEffect, Ends DEF UnderWay, Owns
<1>5. CASE Creating
  <2>1. ~Owns(b) /\ EndsWith(b, "delete")
    BY <1>1, <1>3, <1>5 DEF HalfDone, Creating, CreateLeg, CreateAgain
  <2>2. QED  BY <1>3, <1>5, <2>1, MoveEffect, Ends DEF Owns
<1>6. CASE UNCHANGED move /\ ~Deleting /\ ~Creating
  <2>1. ~Owns(b) /\ EndsWith(b, "delete")
    BY <1>1, <1>3, <1>6 DEF HalfDone, At
  <2>2. ~Flip /\ ~Cascade
    BY <1>6 DEF Flip, Cascade, At
  <2>3. ASSUME NEW d \in Devices, PushWrite(d)
        PROVE  ~(row' # None /\ row'.owner = b) /\ EndsWith(b, "delete")'
    BY <2>1, <2>3, WriteEffect, Ends DEF Owns
  <2>4. ASSUME NEW d \in Devices, PushDelete(d)
        PROVE  ~(row' # None /\ row'.owner = b) /\ EndsWith(b, "delete")'
    BY <2>1, <2>4, DeleteEffect, Ends DEF Owns
  <2>5. CASE UNCHANGED <<row, log, owed>>
    BY <2>1, <2>5, SameLog DEF Owns
  <2>6. QED  BY <1>6, <2>2, <2>3, <2>4, <2>5, Resting
<1>7. QED  BY <1>2, <1>4, <1>5, <1>6

LEMMA AllDoneStays ==
  ASSUME TypeOK, MoveInv, Calm, [Next]_vars
  PROVE  AllDone'
<1> SUFFICES ASSUME move' # None, move'.step = "cascade", row' # None, row'.owner = move'.to
             PROVE  Told(move.to)' 
  BY DEF AllDone, At, Owns
<1>1. AllDone /\ UnderWay
  BY DEF MoveInv, ServerInv
<1>2. move'.to = move.to /\ move # None /\ move.to \in Accounts /\ (Creating \/ UNCHANGED move)
  BY Moving, Shapes
<1>3. PICK b \in Accounts : b = move.to
  BY <1>2
<1> SUFFICES Told(b)'
  BY <1>2, <1>3
<1>4. CASE Creating
  <2>1. move.version = row.version \/ Told(b)
    BY <1>1, <1>3, <1>4, MoveEffect DEF UnderWay
  <2>2. CASE move.version = row.version
    BY <1>3, <1>4, <2>2, MoveEffect, StandsNew
  <2>3. CASE Told(b)
    BY <1>3, <1>4, <2>3, MoveEffect, StandsOn
  <2>4. QED  BY <2>1, <2>2, <2>3
<1>5. CASE UNCHANGED move /\ ~Creating
  <2>1. At("cascade") /\ (Owns(b) => Told(b))
    BY <1>1, <1>3, <1>5 DEF AllDone, At
  <2>2. ~Flip /\ ~Cascade /\ ~Deleting
    BY <1>5, <2>1 DEF Flip, Cascade, Deleting, DeleteLeg, DeleteAgain, At
  <2>3. ASSUME NEW d \in Devices, PushWrite(d) PROVE Told(b)'
    <3>1. queue[d].account = b /\ Told(b)
      BY <1>2, <1>3, <2>1, <2>3, WriteEffect DEF Owns
    <3>2. QED  BY <2>3, <3>1, WriteEffect, StandsOn, StandsNew
  <2>4. ASSUME NEW d \in Devices, PushDelete(d) PROVE Told(b)'
    <3>1. UNCHANGED row /\ queue[d].account # b /\ Told(b)
      BY <1>2, <1>3, <2>1, <2>4, DeleteEffect DEF Owns
    <3>2. QED  BY <2>4, <3>1, DeleteEffect, StandsOn
  <2>5. CASE UNCHANGED <<row, log, owed>>
    BY <1>2, <1>3, <2>1, <2>5, SameLog DEF Owns
  <2>6. QED  BY <1>5, <2>2, <2>3, <2>4, <2>5, Resting
<1>6. QED  BY <1>2, <1>4, <1>5

\* What is owed is dropped only at the end of its move.
LEMMA Owing ==
  ASSUME TypeOK, [Next]_vars
  PROVE  \A r \in owed : r \in owed' \/ (Cascade /\ At("cascade") /\ r = <<move.from, move.to>>)
BY Resting, MoveEffect, DeleteEffect DEF Flip, Cascade, PushWrite, Deleting, Creating

LEMMA LosersToldStays ==
  ASSUME TypeOK, MoveInv, Calm, [Next]_vars
  PROVE  LosersTold'
<1> SUFFICES ASSUME NEW a \in Accounts, ~(row' # None /\ row'.owner = a)
             PROVE  log'[a] = <<>> \/ EndsWith(a, "delete")' \/ \E r \in owed' : r[1] = a
  BY DEF LosersTold, Owns
<1>0. LosersTold /\ HalfDone /\ UnderWay
  BY DEF MoveInv, ServerInv
<1>1. ASSUME ~Owns(a), log'[a] = log[a], ~Cascade
      PROVE  log'[a] = <<>> \/ EndsWith(a, "delete")' \/ \E r \in owed' : r[1] = a
  BY <1>0, <1>1, Owing DEF LosersTold, EndsWith
<1>2. CASE Flip
  <2>1. move # None /\ UNCHANGED log
    BY <1>2 DEF Flip, At
  <2>2. CASE Owns(move.from) /\ a = move.from
    <3>1. <<move.from, move.to>> \in owed' /\ <<move.from, move.to>>[1] = a
      BY <1>2, <2>2 DEF Flip
    <3>2. QED  BY <3>1
  <2>3. CASE ~(Owns(move.from) /\ a = move.from)
    <3>1. ~Owns(a)
      BY <1>2, <2>3 DEF Flip, Owns
    <3>2. ~Cascade
      BY <1>2 DEF Flip, Cascade, At
    <3>3. QED  BY <1>1, <2>1, <3>1, <3>2
  <2>4. QED  BY <2>2, <2>3
<1>3. CASE Deleting \/ Creating
  <2>1. ~Owns(a) /\ ~Cascade
    BY <1>3, MoveEffect DEF Owns, Cascade, At, Announcing
  <2>2. CASE Deleting /\ a = move.from
    BY <2>2, MoveEffect, Ends
  <2>3. CASE ~(Deleting /\ a = move.from)
    <3>1. Creating => a # move.to
      BY <1>0, <2>1, MoveEffect DEF UnderWay
    <3>2. log'[a] = log[a]
      BY <1>3, <2>3, <3>1, MoveEffect DEF Grew
    <3>3. QED  BY <1>1, <2>1, <3>2
  <2>4. QED  BY <2>2, <2>3
<1>4. CASE Cascade
  <2>1. UNCHANGED <<row, log>> /\ ~Owns(a)
    BY <1>4 DEF Cascade, Owns
  <2>2. CASE a = move.from
    <3>1. EndsWith(a, "delete")
      BY <1>0, <1>4, <2>2 DEF Cascade, HalfDone
    <3>2. QED  BY <2>1, <3>1, SameLog
  <2>3. CASE a # move.from
    <3>1. \A r \in owed : r[1] = a => r \in owed'
      <4>1. <<move.from, move.to>>[1] # a
        BY <2>3
      <4>2. QED  BY <4>1, Owing
    <3>2. QED  BY <1>0, <2>1, <3>1, SameLog DEF LosersTold
  <2>4. QED  BY <2>2, <2>3
<1>5. ASSUME NEW d \in Devices, PushWrite(d)
      PROVE  log'[a] = <<>> \/ EndsWith(a, "delete")' \/ \E r \in owed' : r[1] = a
  <2>1. ~Owns(a) /\ a # queue[d].account /\ UNCHANGED owed
    BY <1>5, WriteEffect DEF Owns
  <2>2. log'[a] = log[a]
    BY <1>5, <2>1, WriteEffect DEF Grew
  <2>3. QED  BY <1>0, <2>1, <2>2 DEF LosersTold, EndsWith
<1>6. ASSUME NEW d \in Devices, PushDelete(d)
      PROVE  log'[a] = <<>> \/ EndsWith(a, "delete")' \/ \E r \in owed' : r[1] = a
  <2>1. CASE a = queue[d].account
    BY <1>6, <2>1, DeleteEffect, Ends
  <2>2. CASE a # queue[d].account
    <3>1. ~Owns(a) /\ log'[a] = log[a] /\ UNCHANGED owed
      BY <1>6, <2>2, DeleteEffect DEF Owns, Grew
    <3>2. QED  BY <1>0, <3>1 DEF LosersTold, EndsWith
  <2>3. QED  BY <2>1, <2>2
<1>7. CASE UNCHANGED <<row, log, owed>>
  BY <1>0, <1>7 DEF LosersTold, EndsWith, Owns
<1>8. QED  BY <1>2, <1>3, <1>4, <1>5, <1>6, <1>7, Resting

LEMMA OwnerToldStays ==
  ASSUME TypeOK, MoveInv, Calm, [Next]_vars
  PROVE  OwnerTold'
<1> SUFFICES ASSUME row' # None, NEW b \in Accounts, b = row'.owner
             PROVE  Told(b)' \/ \E r \in owed' : r[2] = b
  <2>1. TypeOK'
    BY TypeStep
  <2>2. row' # None => row'.owner \in Accounts
    BY <2>1 DEF TypeOK, Entities
  <2>3. QED  BY <2>2 DEF OwnerTold
<1>0. OwnerTold /\ AllDone /\ UnderWay
  BY DEF MoveInv, ServerInv
<1>1. CASE Flip
  <2>1. move # None /\ UNCHANGED log
    BY <1>1 DEF Flip, At
  <2>2. CASE Owns(move.from)
    <3>1. b = move.to /\ <<move.from, move.to>> \in owed'
      BY <1>1, <2>1, <2>2, Shapes, Fresh DEF Flip
    <3>2. <<move.from, move.to>>[2] = b
      BY <3>1
    <3>3. QED  BY <3>1, <3>2
  <2>3. CASE ~Owns(move.from)
    <3>1. UNCHANGED <<row, owed>>
      BY <1>1, <2>3 DEF Flip
    <3>2. QED  BY <1>0, <2>1, <3>1, SameLog DEF OwnerTold
  <2>4. QED  BY <2>2, <2>3
<1>2. CASE Deleting
  <2>1. b = move.to /\ b # move.from /\ b = row.owner /\ row # None
    BY <1>0, <1>2, MoveEffect DEF UnderWay, Owns
  <2>2. Told(b) => Told(b)'
    BY <1>2, <2>1, MoveEffect, StandsOn
  <2>3. QED  BY <1>0, <1>2, <2>1, <2>2, MoveEffect DEF OwnerTold
<1>3. CASE Creating
  <2>1. b = row.owner /\ row # None
    BY <1>3, MoveEffect
  <2>2. Told(b) => Told(b)'
    BY <1>3, <2>1, MoveEffect, StandsOn
  <2>3. QED  BY <1>0, <1>3, <2>1, <2>2, MoveEffect DEF OwnerTold
<1>4. CASE Cascade
  <2>1. UNCHANGED <<row, log>> /\ b = row.owner /\ row # None /\ At("cascade")
    BY <1>4 DEF Cascade
  <2>2. CASE b = move.to
    BY <1>0, <2>1, <2>2, SameLog DEF AllDone, Owns
  <2>3. CASE b # move.to
    <3>1. <<move.from, move.to>>[2] # b
      BY <2>3
    <3>2. \A r \in owed : r[2] = b => r \in owed'
      BY <3>1, Owing
    <3>3. QED  BY <1>0, <2>1, <3>2, SameLog DEF OwnerTold
  <2>4. QED  BY <2>2, <2>3
<1>5. ASSUME NEW d \in Devices, PushWrite(d)
      PROVE  Told(b)' \/ \E r \in owed' : r[2] = b
  <2>1. b = queue[d].account /\ b = row.owner /\ row # None /\ UNCHANGED owed
    BY <1>5, WriteEffect
  <2>2. CASE UNCHANGED row.version
    <3>1. Told(b) => Told(b)'
      BY <1>5, <2>2, WriteEffect, StandsOn
    <3>2. QED  BY <1>0, <2>1, <3>1 DEF OwnerTold
  <2>3. CASE row'.version = queue[d].version
    BY <1>5, <2>1, <2>3, WriteEffect, StandsNew
  <2>4. QED  BY <1>5, <2>2, <2>3, WriteEffect
<1>6. ASSUME NEW d \in Devices, PushDelete(d)
      PROVE  Told(b)' \/ \E r \in owed' : r[2] = b
  <2>1. UNCHANGED <<row, owed>> /\ queue[d].account # b
    BY <1>6, DeleteEffect DEF Owns
  <2>2. Told(b) => Told(b)'
    BY <1>6, <2>1, DeleteEffect, StandsOn
  <2>3. QED  BY <1>0, <2>1, <2>2 DEF OwnerTold
<1>7. CASE UNCHANGED <<row, log, owed>>
  BY <1>0, <1>7, SameLog DEF OwnerTold
<1>8. QED  BY <1>1, <1>2, <1>3, <1>4, <1>5, <1>6, <1>7, Resting

-----------------------------------------------------------------------------
(* The devices *)

LEMMA OldEntries ==
  ASSUME TypeOK, [Next]_vars, NEW b \in Accounts
  PROVE  /\ \A i \in DOMAIN log[b] : i \in DOMAIN log'[b] /\ log'[b][i] = log[b][i]
         /\ Len(log[b]) \in Nat /\ Len(log'[b]) \in Nat /\ Len(log[b]) <= Len(log'[b])
<1>1. Len(log[b]) \in Nat
  BY Entries
<1>2. ASSUME NEW a \in Accounts, NEW e, Grew(a, e)
      PROVE  /\ \A i \in DOMAIN log[b] : i \in DOMAIN log'[b] /\ log'[b][i] = log[b][i]
             /\ Len(log'[b]) \in Nat /\ Len(log[b]) <= Len(log'[b])
  <2>1. Len(log'[b]) \in Nat /\ Len(log[b]) <= Len(log'[b])
    BY <1>1, <1>2 DEF Grew
  <2>2. QED  BY <1>2, <2>1, OldAndNew
<1>3. CASE UNCHANGED log
  BY <1>1, <1>3
<1>4. CASE Deleting \/ Creating
  BY <1>1, <1>2, <1>3, <1>4, MoveEffect
<1>5. ASSUME NEW d \in Devices, PushDelete(d)
      PROVE  \E e : \E a \in Accounts : Grew(a, e)
  BY <1>5, DeleteEffect
<1>6. ASSUME NEW d \in Devices, PushWrite(d), Grew(queue[d].account, Entry("put", queue[d].version))
      PROVE  \E e : \E a \in Accounts : Grew(a, e)
  <2>1. queue[d].account \in Accounts
    BY <1>6, Shapes DEF PushWrite
  <2>2. QED  BY <1>6, <2>1
<1>7. QED  BY <1>1, <1>2, <1>3, <1>4, <1>5, <1>6, Loggings

Pulls(d, a) == PullDelete(d, a) \/ PullPut(d, a) \/ PullHeld(d, a)

\* How far a device is in a log.
LEMMA Cursors ==
  ASSUME TypeOK, [Next]_vars, NEW d \in Devices, NEW a \in Accounts
  PROVE  /\ cursor[d][a] \in Nat
         /\ \/ cursor'[d][a] = cursor[d][a] /\ ~Pulls(d, a)
            \/ /\ Pulls(d, a) /\ CanPull(d, a) /\ a \in Signed[d] /\ cursor'[d][a] = cursor[d][a] + 1
               /\ cursor[d][a] + 1 \in DOMAIN log[a] /\ NextOp(d, a) = log[a][cursor[d][a] + 1]
               /\ NextOp(d, a).version \in Nat
               /\ UNCHANGED <<row, log, queue>>
<1> USE DEF server, client
<1>1. cursor[d][a] \in Nat /\ d \in DOMAIN cursor /\ a \in DOMAIN cursor[d]
  BY DEF TypeOK
<1>2. CASE Pulls(d, a)
  <2>1. CanPull(d, a) /\ Pulled(d, a)
    BY <1>2 DEF Pulls, PullDelete, PullPut, PullHeld
  <2>2. cursor' = [cursor EXCEPT ![d] = [cursor[d] EXCEPT ![a] = cursor[d][a] + 1]]
    BY <2>1 DEF Pulled
  <2>3. cursor'[d][a] = cursor[d][a] + 1
    BY <1>1, <2>2
  <2>4. QED  BY <1>1, <1>2, <2>1, <2>3, Pulling DEF CanPull, Pulled
<1>3. CASE ~Pulls(d, a)
  <2>1. CASE UNCHANGED cursor
    BY <1>1, <1>3, <2>1
  <2>2. ASSUME NEW e \in Devices, NEW b \in Accounts, Pulls(e, b)
        PROVE  cursor'[d][a] = cursor[d][a]
    <3>1. e # d \/ b # a
      BY <1>3, <2>2
    <3>2. cursor' = [cursor EXCEPT ![e] = [cursor[e] EXCEPT ![b] = cursor[e][b] + 1]]
      BY <2>2 DEF Pulls, PullDelete, PullPut, PullHeld, Pulled
    <3>3. QED  BY <1>1, <3>1, <3>2
  <2>3. CASE Server \/ Crash \/ UNCHANGED vars
    BY <2>1, <2>3 DEF Server, Find, Receipt, Flip, DeleteLeg, CreateLeg, Cascade, Resolve, DeleteAgain, CreateAgain,
       GenerateBegin, GenerateEnd, Crash, vars
  <2>4. ASSUME NEW e \in Devices, Device(e), \A b \in Accounts : ~Pulls(e, b) PROVE UNCHANGED cursor
    BY <2>4 DEF Device, Pulls, Edit, Delete, PushRead, PushWrite, PushDelete, Request
  <2>5. QED  BY <1>1, <1>3, <2>1, <2>2, <2>3, <2>4 DEF Next
<1>4. QED  BY <1>2, <1>3

LEMMA HeardStays ==
  ASSUME TypeOK, MoveInv, Calm, [Next]_vars
  PROVE  Heard'
<1> SUFFICES ASSUME NEW d \in Devices
             PROVE  /\ \A a \in Accounts : cursor'[d][a] <= Len(log'[a])
                    /\ copy'[d] # None => \E b \in Accounts :
                         /\ b = copy'[d].owner /\ b \in Signed[d]
                         /\ cursor'[d][b] \in DOMAIN log'[b] /\ log'[b][cursor'[d][b]].kind = "put"
  BY DEF Heard, Puts
<1>0. Heard
  BY DEF MoveInv, DeviceInv
<1>1. ASSUME NEW a \in Accounts PROVE cursor'[d][a] <= Len(log'[a])
  <2>1. /\ cursor[d][a] \in Nat /\ cursor[d][a] <= Len(log[a])
        /\ Len(log[a]) \in Nat /\ Len(log'[a]) \in Nat /\ Len(log[a]) <= Len(log'[a])
    BY <1>0, Cursors, OldEntries DEF Heard
  <2>2. CASE cursor'[d][a] = cursor[d][a]
    BY <2>1, <2>2
  <2>3. CASE cursor'[d][a] = cursor[d][a] + 1 /\ CanPull(d, a) /\ UNCHANGED log
    BY <2>1, <2>3 DEF CanPull
  <2>4. QED  BY <2>2, <2>3, Cursors
<1>2. ASSUME copy'[d] # None
      PROVE  \E b \in Accounts :
               /\ b = copy'[d].owner /\ b \in Signed[d]
               /\ cursor'[d][b] \in DOMAIN log'[b] /\ log'[b][cursor'[d][b]].kind = "put"
  <2>1. ASSUME copy[d] # None, copy'[d].owner = copy[d].owner,
               ~PullDelete(d, copy[d].owner)
        PROVE  \E b \in Accounts :
               /\ b = copy'[d].owner /\ b \in Signed[d]
               /\ cursor'[d][b] \in DOMAIN log'[b] /\ log'[b][cursor'[d][b]].kind = "put"
    <3>1. PICK b \in Accounts : b = copy[d].owner
      BY <2>1, Shapes
    <3>2. b \in Signed[d] /\ cursor[d][b] \in DOMAIN log[b] /\ log[b][cursor[d][b]].kind = "put"
      BY <1>0, <2>1, <3>1 DEF Heard, Puts
    <3>3. CASE cursor'[d][b] = cursor[d][b]
      BY SMTT(30), <2>1, <3>1, <3>2, <3>3, OldEntries
    <3>4. CASE /\ Pulls(d, b) /\ cursor'[d][b] = cursor[d][b] + 1 /\ cursor[d][b] + 1 \in DOMAIN log[b]
               /\ NextOp(d, b) = log[b][cursor[d][b] + 1] /\ UNCHANGED log
      <4>1. NextOp(d, b).kind = "put"
        BY <2>1, <3>1, <3>4 DEF Pulls, PullPut, PullHeld
      <4>2. QED  BY <2>1, <3>1, <3>2, <3>4, <4>1
    <3>5. QED  BY <3>3, <3>4, Cursors
  <2>2. ASSUME NEW a \in Accounts, PullPut(d, a), copy'[d] = Entity(a, NextOp(d, a).version)
        PROVE  \E b \in Accounts :
               /\ b = copy'[d].owner /\ b \in Signed[d]
               /\ cursor'[d][b] \in DOMAIN log'[b] /\ log'[b][cursor'[d][b]].kind = "put"
    <3>1. /\ cursor'[d][a] = cursor[d][a] + 1 /\ cursor[d][a] + 1 \in DOMAIN log[a] /\ a \in Signed[d]
          /\ NextOp(d, a) = log[a][cursor[d][a] + 1] /\ UNCHANGED log /\ NextOp(d, a).version \in Nat
      BY <2>2, Cursors DEF Pulls
    <3>2. NextOp(d, a).kind = "put"
      BY <2>2 DEF PullPut
    <3>3. copy'[d].owner = a
      BY <2>2, <3>1, Fresh
    <3>4. QED  BY <3>1, <3>2, <3>3
  <2>3. CASE copy'[d] = copy[d]
    <3>1. d \in DOMAIN copy
      BY DEF TypeOK
    <3>2. PullDelete(d, copy[d].owner) => copy'[d] = None
      BY <1>2, <2>3, <3>1 DEF PullDelete
    <3>3. QED  BY <1>2, <2>1, <2>3, <3>2
  <2>4. CASE Edit(d) /\ copy[d] # None /\ queue[d] = None /\ copy'[d].owner = copy[d].owner
             /\ queue'[d] # None
    <3>1. PullDelete(d, copy[d].owner) => UNCHANGED queue
      BY DEF PullDelete, Pulled
    <3>2. QED  BY <2>1, <2>4, <3>1
  <2>5. QED  BY <1>2, <2>2, <2>3, <2>4, Copies
<1>3. QED  BY <1>1, <1>2

\* What becomes of the wait for an echo.
LEMMA Waiting ==
  ASSUME TypeOK, [Next]_vars, NEW d \in Devices
  PROVE  \/ deleted'[d] = deleted[d]
         \/ Delete(d) /\ deleted'[d] = copy[d].owner
         \/ deleted'[d] = None /\ UNCHANGED queue /\ ~(queue[d] # None /\ queue[d].kind = "delete")
<1> USE DEF server, client
<1>1. d \in DOMAIN deleted
  BY DEF TypeOK
<1>2. ASSUME NEW e \in Devices, Device(e), e # d PROVE deleted'[d] = deleted[d]
  BY <1>1, <1>2 DEF Device, Edit, Delete, PushRead, PushWrite, PushDelete, PullDelete, PullPut, PullHeld,
     Pulled, Request
<1>3. CASE Delete(d)
  BY <1>1, <1>3 DEF Delete
<1>4. ASSUME NEW a \in Accounts, PullDelete(d, a)
      PROVE  \/ deleted'[d] = deleted[d]
             \/ deleted'[d] = None /\ UNCHANGED queue /\ ~(queue[d] # None /\ queue[d].kind = "delete")
  BY <1>1, <1>4 DEF PullDelete, Pulled
<1>5. CASE Server \/ Crash \/ UNCHANGED vars
  BY <1>5 DEF Server, Find, Receipt, Flip, DeleteLeg, CreateLeg, Cascade, Resolve, DeleteAgain, CreateAgain,
     GenerateBegin, GenerateEnd, Crash, vars
<1>6. ASSUME Device(d), \A a \in Accounts : ~PullDelete(d, a), ~Delete(d) PROVE deleted'[d] = deleted[d]
  BY <1>6 DEF Device, Edit, PushRead, PushWrite, PushDelete, PullPut, PullHeld, Pulled, Request
<1>7. QED  BY <1>2, <1>3, <1>4, <1>5, <1>6 DEF Next

LEMMA EchoStays ==
  ASSUME TypeOK, MoveInv, Calm, [Next]_vars
  PROVE  EchoComes'
<1> SUFFICES ASSUME NEW d \in Devices
             PROVE  /\ queue'[d] # None /\ queue'[d].kind = "delete" => deleted'[d] = queue'[d].account
                    /\ deleted'[d] # None => \E b \in Accounts :
                         /\ b = deleted'[d]
                         /\ \/ queue'[d] # None /\ queue'[d].kind = "delete" /\ queue'[d].account = b
                            \/ \E j \in DOMAIN log'[b] : j > cursor'[d][b] /\ log'[b][j].kind = "delete"
  BY DEF EchoComes, Queues
<1>0. EchoComes /\ Heard
  BY DEF MoveInv, DeviceInv
<1>1. ASSUME queue'[d] # None, queue'[d].kind = "delete" PROVE deleted'[d] = queue'[d].account
  <2>1. \/ /\ queue[d] # None /\ queue[d].kind = "delete" /\ queue'[d].account = queue[d].account
        \/ /\ Delete(d) /\ queue[d] = None /\ queue'[d].account = copy[d].owner
    BY <1>1, Queuing
  <2>2. CASE queue[d] # None /\ queue[d].kind = "delete" /\ queue'[d].account = queue[d].account
    <3>1. ~Delete(d)
      BY <2>2 DEF Delete
    <3>2. deleted'[d] = deleted[d]
      BY <2>2, <3>1, Waiting
    <3>3. QED  BY <1>0, <2>2, <3>2 DEF EchoComes
  <2>3. CASE Delete(d) /\ queue[d] = None /\ queue'[d].account = copy[d].owner
    <3>1. deleted'[d] = copy[d].owner
      BY <2>3 DEF Delete, TypeOK
    <3>2. QED  BY <2>3, <3>1
  <2>4. QED  BY <2>1, <2>2, <2>3
<1>2. ASSUME deleted'[d] # None
      PROVE  \E b \in Accounts :
               /\ b = deleted'[d]
               /\ \/ queue'[d] # None /\ queue'[d].kind = "delete" /\ queue'[d].account = b
                  \/ \E j \in DOMAIN log'[b] : j > cursor'[d][b] /\ log'[b][j].kind = "delete"
  <2>1. CASE deleted'[d] = deleted[d]
    <3>1. PICK b \in Accounts : b = deleted[d]
      BY <1>2, <2>1 DEF TypeOK
    <3>2. CASE queue[d] # None /\ queue[d].kind = "delete" /\ queue[d].account = b
      <4>1. CASE queue'[d] # None
        <5>1. queue'[d].kind = "delete" /\ queue'[d].account = b
          BY <3>2, <4>1, Queuing
        <5>2. QED  BY <2>1, <3>1, <4>1, <5>1
      <4>2. CASE queue'[d] = None
        <5>1. PushDelete(d)
          BY <3>2, <4>2, Queuing DEF PushRead, PushWrite
        <5>2. Grew(b, Entry("delete", 0)) /\ Entry("delete", 0).kind = "delete"
          BY <3>2, <5>1, DeleteEffect
        <5>3. cursor'[d][b] = cursor[d][b]
          BY <5>1 DEF PushDelete
        <5>4. Len(log[b]) + 1 \in DOMAIN log'[b] /\ log'[b][Len(log[b]) + 1].kind = "delete"
          BY <5>2 DEF Grew
        <5>5. Len(log[b]) + 1 > cursor'[d][b]
          BY <1>0, <5>3, Cursors, OldEntries DEF Heard
        <5>6. QED  BY <2>1, <3>1, <5>4, <5>5
      <4>3. QED  BY <4>1, <4>2
    <3>3. CASE ~(queue[d] # None /\ queue[d].kind = "delete" /\ queue[d].account = b)
      <4>1. PICK j \in DOMAIN log[b] : j > cursor[d][b] /\ log[b][j].kind = "delete"
        BY <1>0, <1>2, <2>1, <3>1, <3>3 DEF EchoComes, Queues
      <4>2. j \in DOMAIN log'[b] /\ log'[b][j].kind = "delete" /\ j \in Nat
        BY <4>1, OldEntries, Entries
      <4>3. CASE cursor'[d][b] = cursor[d][b]
        BY <2>1, <3>1, <4>1, <4>2, <4>3
      <4>4. CASE /\ Pulls(d, b) /\ cursor'[d][b] = cursor[d][b] + 1 /\ cursor[d][b] \in Nat
                 /\ NextOp(d, b) = log[b][cursor[d][b] + 1]
        <5>1. ~PullDelete(d, b)
          <6>1. ASSUME PullDelete(d, b) PROVE FALSE
            <7>1. deleted'[d] = IF queue[d] # None /\ queue[d].kind = "delete" THEN deleted[d] ELSE None
              BY <6>1 DEF PullDelete, TypeOK
            <7>2. queue[d] # None /\ queue[d].kind = "delete"
              BY <1>2, <7>1
            <7>3. queue[d].account = b
              BY <1>0, <3>1, <7>2 DEF EchoComes
            <7>4. QED  BY <3>3, <7>2, <7>3
          <6>2. QED  BY <6>1
        <5>2. log[b][cursor[d][b] + 1].kind = "put"
          BY <4>4, <5>1 DEF Pulls, PullPut, PullHeld
        <5>3. j > cursor[d][b] + 1
          BY <4>1, <4>2, <4>4, <5>2
        <5>4. QED  BY <2>1, <3>1, <4>2, <4>4, <5>3
      <4>5. QED  BY <4>3, <4>4, Cursors
    <3>4. QED  BY <3>2, <3>3
  <2>2. CASE Delete(d) /\ deleted'[d] = copy[d].owner
    <3>1. /\ copy[d] # None /\ copy[d].owner \in Accounts
      BY <2>2, Shapes DEF Delete
    <3>2. queue'[d] # None /\ queue'[d].kind = "delete" /\ queue'[d].account = copy[d].owner
      <4>1. copy'[d] = None /\ copy'[d] # copy[d] /\ queue[d] = None
        BY <2>2, <3>1 DEF Delete, TypeOK
      <4>2. \A a \in Accounts : ~PullDelete(d, a) /\ ~PullPut(d, a)
        <5>1. count' # count
          <6>1. /\ count["edits"] \in Nat /\ "edits" \in DOMAIN count
                /\ count' = [count EXCEPT !["edits"] = count["edits"] + 1]
            BY <2>2, LimitNames DEF Delete, Counted, TypeOK
          <6>2. count'["edits"] = count["edits"] + 1
            BY <6>1
          <6>3. QED  BY <6>1, <6>2
        <5>2. QED  BY <5>1 DEF PullDelete, PullPut, Pulled
      <4>3. QED  BY <4>1, <4>2, Copies
    <3>3. QED  BY <2>2, <3>1, <3>2
  <2>3. QED  BY <1>2, <2>1, <2>2, Waiting
<1>3. QED  BY <1>1, <1>2

\* How the row changes, for the devices: it moves, it goes, or it stays with its
\* owner and grows no older.
LEMMA RowChanges ==
  ASSUME TypeOK, MoveInv, Calm, [Next]_vars, row' # None
  PROVE  \/ Flip /\ Owns(move.from) /\ row' = Entity(move.to, move.version)
         \/ /\ row # None /\ row'.owner = row.owner /\ row.owner \in Accounts
            /\ row.version \in Nat /\ row'.version \in Nat /\ row.version <= row'.version
            /\ \/ UNCHANGED row.version
               \/ \E e \in Devices : PushWrite(e) /\ row'.version = queue[e].version
<1>1. ReadsHold
  BY DEF MoveInv, ServerInv
<1>2. QED  BY <1>1, Writings, Shapes, WriteEffect

\* What a push that writes has queued is no later than the row it leaves.
LEMMA Written ==
  ASSUME TypeOK, MoveInv, NEW d \in Devices, PushWrite(d)
  PROVE  queue[d].version <= row'.version
<1>1. queue[d] # None /\ Owns(queue[d].account)
  BY DEF PushWrite, MoveInv, ServerInv, ReadsHold
<1>2. row' = IF row.version <= queue[d].version THEN Entity(queue[d].account, queue[d].version) ELSE row
  BY <1>1 DEF PushWrite, Owns
<1>3. QED  BY <1>1, <1>2, Shapes, Fresh DEF Owns

\* No log says more than the row of it.
LEMMA PulledVersion ==
  ASSUME TypeOK, MoveInv, row # None, NEW d \in Devices, NEW a \in Accounts, PullPut(d, a)
  PROVE  /\ NextOp(d, a).version \in Nat /\ NextOp(d, a).version <= row.version
         /\ a # row.owner => NextOp(d, a).version < row.version
<1>1. CanPull(d, a) /\ NextOp(d, a).kind = "put"
  BY DEF PullPut
<1>2. cursor[d][a] + 1 \in Puts(a) /\ NextOp(d, a) = log[a][cursor[d][a] + 1] /\ NextOp(d, a).version \in Nat
  BY <1>1, Pulling DEF Puts
<1>3. QED  BY <1>2 DEF MoveInv, ServerInv, Latest

\* The row's version is no new entry of a log that a device has pulled.
LEMMA HeardBefore ==
  ASSUME TypeOK, MoveInv, [Next]_vars, UNCHANGED row.version,
         NEW d \in Devices, NEW b \in Accounts, NEW i \in DOMAIN log'[b],
         Standing(b, i)', i <= cursor'[d][b]
  PROVE  Standing(b, i) /\ i \in DOMAIN log[b] /\ i \in Nat
<1>1. cursor[d][b] \in Nat /\ cursor[d][b] <= Len(log[b]) /\ Len(log[b]) \in Nat
      /\ DOMAIN log[b] = 1..Len(log[b])
  BY Cursors, Entries DEF MoveInv, DeviceInv, Heard
<1>2. CASE UNCHANGED log
  <2>1. Standing(b, i)
    <3>1. \A k : Standing(b, k)' <=> Standing(b, k)
      BY <1>2, SameLog
    <3>2. QED  BY <3>1
  <2>2. i \in DOMAIN log[b]
    BY <1>2
  <2>3. i \in Nat
    BY <1>1, <2>2
  <2>4. QED  BY <2>1, <2>2, <2>3
<1>3. CASE cursor'[d][b] = cursor[d][b]
  <2>1. i \in Nat /\ i >= 1
    <3>1. TypeOK'
      BY TypeStep
    <3>2. log'[b] \in Seq(Ops)
      BY <3>1 DEF TypeOK
    <3>3. DOMAIN log'[b] = 1..Len(log'[b])
      BY <3>2
    <3>4. QED  BY <3>3, OldEntries
  <2>2. i \in DOMAIN log[b]
    BY <1>1, <1>3, <2>1
  <2>3. Standing(b, i)
    <3>1. i \in Puts(b) /\ log[b][i].version = row.version
      BY <2>2, OldEntries DEF Standing, Puts
    <3>2. ASSUME NEW j \in DOMAIN log[b], j > i PROVE log[b][j].kind = "put"
      BY <3>2, OldEntries DEF Standing
    <3>3. QED  BY <3>1, <3>2 DEF Standing
  <2>4. QED  BY <2>1, <2>2, <2>3
<1>4. QED  BY <1>2, <1>3, Cursors

LEMMA HasItStays ==
  ASSUME TypeOK, MoveInv, Calm, [Next]_vars
  PROVE  HasIt'
<1> SUFFICES ASSUME row' # None, NEW d \in Devices, NEW b \in Accounts, b = row'.owner,
                    NEW i \in DOMAIN log'[b], Standing(b, i)', i <= cursor'[d][b]
             PROVE  \/ copy'[d] # None /\ copy'[d].owner = b /\ row'.version <= copy'[d].version
                    \/ queue'[d] # None /\ queue'[d].kind = "delete" /\ queue'[d].account = b
  <2>1. TypeOK'
    BY TypeStep
  <2>2. row' # None => row'.owner \in Accounts
    BY <2>1 DEF TypeOK, Entities
  <2>3. QED  BY <2>2 DEF HasIt, Queues
<1>0. /\ HasIt /\ Latest /\ AboutToFlip /\ HandedOut /\ EchoComes /\ Heard
      /\ "targetFirst" \notin Races /\ "unconfirmedDelete" \notin Races
  BY DEF MoveInv, ServerInv, DeviceInv, Calm
<1>1. i \in Puts(b)' /\ log'[b][i].version = row'.version /\ log'[b][i].kind = "put"
  BY DEF Standing, Puts
<1>2. ASSUME Flip, row' = Entity(move.to, move.version) PROVE FALSE
  <2>1. UNCHANGED log /\ move # None
    BY <1>2 DEF Flip, At
  <2>2. log[b][i].version < move.version
    BY <1>0, <1>1, <1>2, <2>1 DEF Flip, AboutToFlip, Puts
  <2>3. row'.version = move.version /\ move.version \in Nat
    BY <1>2, <2>1, Shapes, Fresh
  <2>4. QED  BY <1>1, <2>1, <2>2, <2>3
<1>3. ASSUME row # None, row'.owner = row.owner, row.version \in Nat,
             NEW e \in Devices, PushWrite(e), row.version < row'.version
      PROVE  FALSE
  <2>1. cursor'[d][b] = cursor[d][b] /\ cursor[d][b] \in Nat
    BY <1>3, Cursors DEF PushWrite
  <2>2. /\ cursor[d][b] <= Len(log[b]) /\ Len(log[b]) \in Nat /\ DOMAIN log[b] = 1..Len(log[b])
    BY <1>0, Entries DEF Heard
  <2>3. i \in 1..Len(log'[b])
    <3>1. TypeOK'
      BY TypeStep
    <3>2. log'[b] \in Seq(Ops)
      BY <3>1 DEF TypeOK
    <3>3. QED  BY <3>2
  <2>4. i \in DOMAIN log[b]
    BY <2>1, <2>2, <2>3, OldEntries
  <2>5. log'[b][i] = log[b][i] /\ log[b][i].version \in Nat
    BY <2>4, OldEntries, Entries
  <2>6. log[b][i].version <= row.version
    BY <1>0, <1>1, <1>3, <2>4, <2>5 DEF Latest, Puts
  <2>7. row'.version \in Nat
    BY <1>1, <2>5
  <2>8. QED  BY <1>1, <1>3, <2>5, <2>6, <2>7
<1>4. CASE row # None /\ row'.owner = row.owner /\ UNCHANGED row.version
  <2>1. b = row.owner /\ row.version \in Nat /\ row # None
    BY <1>4, Shapes
  <2>2. Standing(b, i) /\ i \in DOMAIN log[b] /\ i \in Nat
    BY <1>4, HeardBefore
  <2>3. log[b][i].kind = "put" /\ log[b][i].version = row.version
        /\ \A j \in DOMAIN log[b] : j > i => log[b][j].kind = "put"
    BY <2>2 DEF Standing, Puts
  <2>4. CASE i <= cursor[d][b]
    <3>1. \/ copy[d] # None /\ copy[d].owner = b /\ row.version <= copy[d].version
          \/ queue[d] # None /\ queue[d].kind = "delete" /\ queue[d].account = b
      BY <1>0, <2>1, <2>2, <2>4 DEF HasIt, Queues
    <3>2. CASE queue[d] # None /\ queue[d].kind = "delete" /\ queue[d].account = b
      <4>1. ~PushDelete(d)
        BY <1>4, <2>1, <3>2, DeleteEffect DEF Owns
      <4>2. queue'[d] # None
        BY <3>2, <4>1, Queuing DEF PushRead, PushWrite
      <4>3. QED  BY <3>2, <4>2, Queuing
    <3>3. CASE copy[d] # None /\ copy[d].owner = b /\ row.version <= copy[d].version
      <4>1. copy[d].version \in Nat /\ copy[d].version <= now /\ now \in Nat
        BY <1>0, <3>3, Shapes DEF HandedOut
      <4>2. CASE copy'[d] = copy[d]
        BY <1>4, <3>3, <4>2
      <4>3. CASE copy'[d] # None /\ copy'[d].owner = copy[d].owner /\ copy'[d].version = now + 1
        BY <1>4, <2>1, <3>3, <4>1, <4>3
      <4>4. CASE queue'[d] # None /\ queue'[d].kind = "delete" /\ queue'[d].account = copy[d].owner
        BY <3>3, <4>4
      <4>5. ASSUME NEW a \in Accounts, PullDelete(d, a), copy[d].owner = a PROVE FALSE
        <5>1. cursor[d][b] + 1 \in DOMAIN log[b] /\ log[b][cursor[d][b] + 1].kind = "delete"
              /\ cursor[d][b] \in Nat
          BY ZenonT(30), <3>3, <4>5, Cursors DEF Pulls, PullDelete
        <5>2. cursor[d][b] + 1 > i
          BY <2>2, <2>4, <5>1
        <5>3. QED  BY <2>3, <5>1, <5>2
      <4>6. ASSUME NEW a \in Accounts, PullPut(d, a), copy'[d] = Entity(a, NextOp(d, a).version),
                   copy[d].version <= NextOp(d, a).version
            PROVE  copy'[d] # None /\ copy'[d].owner = b /\ row'.version <= copy'[d].version
        <5>1. /\ NextOp(d, a).version \in Nat
              /\ a # row.owner => NextOp(d, a).version < row.version
          BY <2>1, <4>6, PulledVersion
        <5>2. a = b /\ row.version <= NextOp(d, a).version
          BY <2>1, <3>3, <4>1, <4>6, <5>1
        <5>3. QED  BY <1>4, <4>6, <5>1, <5>2, Fresh
      <4>7. QED  BY <3>3, <4>2, <4>3, <4>4, <4>5, <4>6, Copies
    <3>4. QED  BY <3>1, <3>2, <3>3
  <2>5. CASE ~(i <= cursor[d][b])
    <3>1. /\ Pulls(d, b) /\ i = cursor[d][b] + 1 /\ NextOp(d, b) = log[b][i] /\ UNCHANGED <<row, log, queue>>
      <4>1. cursor[d][b] \in Nat
        BY Cursors
      <4>2. cursor'[d][b] # cursor[d][b]
        BY <2>5
      <4>3. cursor'[d][b] = cursor[d][b] + 1
        BY <4>2, Cursors
      <4>4. i = cursor[d][b] + 1
        BY <2>2, <2>5, <4>1, <4>3
      <4>5. QED  BY <4>2, <4>4, Cursors
    <3>2. CASE PullPut(d, b)
      <4>1. d \in DOMAIN copy
        BY DEF TypeOK
      <4>2. CASE copy[d] # None /\ NextOp(d, b).version < copy[d].version
        <5>1. copy'[d] = copy[d] /\ copy[d].owner = b
          BY <1>0, <3>2, <4>1, <4>2 DEF PullPut
        <5>2. row.version <= copy[d].version
          BY <2>1, <2>3, <3>1, <4>2, Shapes
        <5>3. QED  BY <1>4, <4>2, <5>1, <5>2
      <4>3. CASE ~(copy[d] # None /\ NextOp(d, b).version < copy[d].version)
        <5>1. copy'[d] = Entity(b, row.version)
          BY <2>3, <3>1, <3>2, <4>1, <4>3 DEF PullPut
        <5>2. QED  BY <1>4, <2>1, <5>1, Fresh
      <4>4. QED  BY <4>2, <4>3
    <3>3. CASE PullHeld(d, b)
      <4>1. deleted[d] = b /\ deleted[d] # None
        BY <1>0, <3>3 DEF PullHeld
      <4>2. ~\E j \in DOMAIN log[b] : j > cursor[d][b] /\ log[b][j].kind = "delete"
        <5>1. ASSUME NEW j \in DOMAIN log[b], j > cursor[d][b], log[b][j].kind = "delete" PROVE FALSE
          <6>1. j \in Nat /\ cursor[d][b] \in Nat
            BY <5>1, Entries, Cursors
          <6>2. j > i \/ j = i
            BY <3>1, <5>1, <6>1
          <6>3. QED  BY <2>3, <5>1, <6>2
        <5>2. QED  BY <5>1
      <4>3. queue[d] # None /\ queue[d].kind = "delete" /\ queue[d].account = b
        BY <1>0, <4>1, <4>2 DEF EchoComes, Queues
      <4>4. QED  BY <3>1, <4>3
    <3>4. CASE PullDelete(d, b)
      BY <2>3, <3>1, <3>4 DEF PullDelete
    <3>5. QED  BY <3>1, <3>2, <3>3, <3>4 DEF Pulls
  <2>6. QED  BY <2>4, <2>5
<1>5. QED
  <2>1. CASE /\ row # None /\ row'.owner = row.owner /\ row.version \in Nat /\ row'.version \in Nat
             /\ row.version <= row'.version
             /\ \E e \in Devices : PushWrite(e) /\ row'.version = queue[e].version
    <3>1. UNCHANGED row.version \/ row.version < row'.version
      BY <2>1
    <3>2. QED  BY <1>3, <1>4, <2>1, <3>1
  <2>2. QED  BY <1>2, <1>4, <2>1, RowChanges

LEMMA NewerStays ==
  ASSUME TypeOK, MoveInv, Calm, [Next]_vars
  PROVE  NewerQueued'
<1> SUFFICES ASSUME NEW d \in Devices, copy'[d] # None, row' # None, row'.owner = copy'[d].owner,
                    copy'[d].version > row'.version
             PROVE  /\ queue'[d] # None /\ queue'[d].kind = "put" /\ queue'[d].account = copy'[d].owner
                    /\ queue'[d].version = copy'[d].version
  BY DEF NewerQueued, Queues, Owns
<1>0. NewerQueued /\ AboutToFlip
  BY DEF MoveInv, ServerInv, DeviceInv
<1>1. CASE Flip /\ row' = Entity(move.to, move.version)
  <2>1. UNCHANGED <<copy, queue>> /\ move # None /\ At("flip")
    BY <1>1 DEF Flip, client, At
  <2>2. row'.version = move.version
    BY <1>1, <2>1, Shapes, Fresh
  <2>3. QED  BY <1>0, <2>1, <2>2 DEF AboutToFlip, Queues
<1>2. CASE /\ row # None /\ row'.owner = row.owner /\ row.owner \in Accounts
           /\ row.version \in Nat /\ row'.version \in Nat /\ row.version <= row'.version
  <2>1. CASE copy'[d] = copy[d]
    <3>1. copy[d] # None /\ copy[d].version \in Nat /\ copy[d].version > row.version /\ Owns(copy[d].owner)
      <4>1. copy[d] # None /\ copy[d].version > row'.version /\ row'.owner = copy[d].owner
        BY <2>1
      <4>2. copy[d].version \in Nat
        BY <4>1, Shapes
      <4>3. copy[d].version > row.version
        BY <1>2, <4>1, <4>2
      <4>4. Owns(copy[d].owner)
        BY <1>2, <4>1 DEF Owns
      <4>5. QED  BY <4>1, <4>2, <4>3, <4>4
    <3>2. /\ queue[d] # None /\ queue[d].kind = "put" /\ queue[d].account = copy[d].owner
          /\ queue[d].version = copy[d].version
      BY <1>0, <3>1 DEF NewerQueued, Queues
    <3>3. ~PushDelete(d)
      BY <3>2 DEF PushDelete
    <3>4. ~PushWrite(d)
      <4>1. PushWrite(d) => queue[d].version <= row'.version
        BY Written
      <4>2. QED  BY <1>2, <2>1, <3>1, <3>2, <4>1
    <3>5. \/ queue'[d] = queue[d]
          \/ /\ queue'[d] # None /\ queue'[d].kind = queue[d].kind /\ queue'[d].account = queue[d].account
             /\ queue'[d].version = queue[d].version
      BY <3>1, <3>2, <3>3, <3>4, Queuing
    <3>6. QED  BY <2>1, <3>2, <3>5
  <2>2. ASSUME NEW a \in Accounts, PullPut(d, a), copy'[d] = Entity(a, NextOp(d, a).version) PROVE FALSE
    <3>1. NextOp(d, a).version \in Nat /\ NextOp(d, a).version <= row.version
      BY <1>2, <2>2, PulledVersion
    <3>2. copy'[d].version = NextOp(d, a).version
      BY <2>2, <3>1, Fresh
    <3>3. QED  BY <1>2, <3>1, <3>2
  <2>3. QED  BY <2>1, <2>2, Copies
<1>3. QED  BY <1>1, <1>2, RowChanges

-----------------------------------------------------------------------------
(* Convergence *)

LEMMA MoveInit == Init => MoveInv
<1> SUFFICES ASSUME Init PROVE MoveInv
  OBVIOUS
<1>1. /\ row = Entity(Home, 0) /\ row # None /\ row.owner = Home /\ row.version = 0
      /\ owed = {} /\ move = None /\ now = 0
  BY HomeAssumption, Fresh DEF Init
<1>2. /\ Entry("put", 0).kind = "put" /\ Entry("put", 0).version = 0
  BY HomeAssumption, Fresh
<1>3. \A a \in Accounts : log[a] = IF a = Home THEN <<Entry("put", 0)>> ELSE <<>>
  BY DEF Init
<1>4. /\ Len(log[Home]) = 1 /\ DOMAIN log[Home] = {1} /\ log[Home][1] = Entry("put", 0)
      /\ \A a \in Accounts : a # Home => log[a] = <<>> /\ DOMAIN log[a] = {} /\ Len(log[a]) = 0
  BY <1>3, HomeAssumption
<1>5. \A d \in Devices : /\ queue[d] = None /\ deleted[d] = None
                         /\ copy[d] = IF Home \in Signed[d] THEN row ELSE None
                         /\ \A a \in Accounts : cursor[d][a] = IF a = Home /\ Home \in Signed[d] THEN 1 ELSE 0
  BY DEF Init
<1>6. \A a \in Accounts : \A i \in Puts(a) : a = Home /\ i = 1 /\ log[a][i].version = 0
  BY <1>2, <1>4 DEF Puts
<1>7. HandedOut
  BY <1>1, <1>5, <1>6 DEF HandedOut
<1>8. ReadsHold
  BY <1>5 DEF ReadsHold
<1>9. Latest
  BY <1>1, <1>6 DEF Latest
<1>10. AboutToFlip /\ UnderWay /\ HalfDone /\ AllDone
  BY <1>1 DEF AboutToFlip, UnderWay, HalfDone, AllDone, At, Announcing
<1>11. LosersTold
  BY <1>1, <1>4 DEF LosersTold, Owns
<1>12. OwnerTold
  <2>1. Standing(Home, 1)
    BY <1>1, <1>2, <1>4 DEF Standing, Puts
  <2>2. QED  BY <1>1, <1>4, <2>1 DEF OwnerTold, Told
<1>13. Heard
  <2>1. 1 \in Puts(Home)
    BY <1>2, <1>4 DEF Puts
  <2>2. QED  BY <1>1, <1>4, <1>5, <2>1, HomeAssumption DEF Heard
<1>14. EchoComes
  BY <1>5 DEF EchoComes
<1>15. HasIt
  <2>1. ASSUME NEW d \in Devices, NEW i \in DOMAIN log[Home], i <= cursor[d][Home]
        PROVE  copy[d] = row
    BY <1>4, <1>5, <2>1, HomeAssumption
  <2>2. QED  BY <1>1, <2>1 DEF HasIt
<1>16. NewerQueued
  BY <1>1, <1>5 DEF NewerQueued
<1>17. QED
  BY <1>7, <1>8, <1>9, <1>10, <1>11, <1>12, <1>13, <1>14, <1>15, <1>16 DEF MoveInv, ServerInv, DeviceInv

\* Every step keeps the invariant.
LEMMA MoveStep == ASSUME Calm PROVE TypeOK /\ MoveInv /\ [Next]_vars => MoveInv'
<1> SUFFICES ASSUME TypeOK, MoveInv, [Next]_vars PROVE MoveInv'
  OBVIOUS
<1>1. ServerInv'
  BY HandedOutStays, ReadsStay, LatestStays, AboutToFlipStays, UnderWayStays, HalfDoneStays, AllDoneStays,
     LosersToldStays, OwnerToldStays DEF ServerInv
<1>2. DeviceInv'
  BY HeardStays, EchoStays, HasItStays, NewerStays DEF DeviceInv
<1>3. QED  BY <1>1, <1>2 DEF MoveInv

\* Once all is announced and heard, a copy is of the account that has the row,
\* and of its version.
LEMMA QuietAgrees == ASSUME TypeOK, MoveInv PROVE Converged
<1> SUFFICES ASSUME Quiet, NEW d \in Devices
             PROVE  copy[d] = IF row # None /\ row.owner \in Signed[d] THEN row ELSE None
  BY DEF Converged
<1>1. /\ LosersTold /\ OwnerTold /\ Heard /\ HasIt /\ NewerQueued
      /\ owed = {} /\ queue[d] = None /\ \A a \in Signed[d] : cursor[d][a] = Len(log[a])
  BY DEF MoveInv, ServerInv, DeviceInv, Quiet
<1>2. ASSUME copy[d] # None PROVE Owns(copy[d].owner) /\ copy[d].owner \in Signed[d]
  <2>1. PICK b \in Accounts : b = copy[d].owner
    BY <1>2, Shapes
  <2>2. b \in Signed[d] /\ cursor[d][b] \in DOMAIN log[b] /\ log[b][cursor[d][b]].kind = "put"
    BY <1>1, <1>2, <2>1 DEF Heard, Puts
  <2>3. ~EndsWith(b, "delete") /\ log[b] # <<>>
    BY <1>1, <2>2 DEF EndsWith
  <2>4. QED  BY <1>1, <2>1, <2>2, <2>3 DEF LosersTold
<1>3. CASE ~(row # None /\ row.owner \in Signed[d])
  BY <1>2, <1>3 DEF Owns
<1>4. CASE row # None /\ row.owner \in Signed[d]
  <2>1. PICK b \in Accounts : b = row.owner
    BY <1>4, Shapes
  <2>2. PICK i \in DOMAIN log[b] : Standing(b, i)
    BY <1>1, <1>4, <2>1 DEF OwnerTold, Told
  <2>3. i <= cursor[d][b]
    BY <1>1, <1>4, <2>1, Entries
  <2>4. copy[d] # None /\ copy[d].owner = row.owner /\ row.version <= copy[d].version
    BY <1>1, <1>4, <2>1, <2>2, <2>3 DEF HasIt, Queues
  <2>5. ~(copy[d].version > row.version)
    BY <1>1, <1>4, <2>4 DEF NewerQueued, Queues, Owns
  <2>6. /\ row \in Entities /\ copy[d] \in Entities /\ row.version \in Nat /\ copy[d].version \in Nat
    BY <1>4, <2>4, Shapes
  <2>7. copy[d].version = row.version
    BY <2>4, <2>5, <2>6
  <2>8. copy[d] = row
    BY <2>4, <2>6, <2>7 DEF Entities
  <2>9. QED  BY <1>4, <2>8
<1>5. QED  BY <1>3, <1>4

\* However many moves, edits, deletes and crashes there are, and in whatever
\* order a device pulls the logs of its accounts: once every flip is announced
\* and heard, each device shows the entity where the server has it, in the
\* server's version, and nowhere else (reassignEntity.ts, applyEntityOp), unless
\* one of the five named races happens.  A race of the briefs does not matter.
THEOREM DevicesConverge == Races \subseteq {"briefMeanwhile"} => (Spec => []Converged)
<1> SUFFICES ASSUME Races \subseteq {"briefMeanwhile"} PROVE Spec => []Converged
  OBVIOUS
<1>1. TypeOK /\ MoveInv /\ [Next]_vars => MoveInv'
  BY MoveStep DEF Calm
<1>2. TypeOK /\ MoveInv => Converged
  BY QuietAgrees
<1>3. QED  BY <1>1, <1>2, TypeInit, TypeStep, MoveInit, PTL DEF Spec
=============================================================================
