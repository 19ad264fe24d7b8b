----------------------------- MODULE OwnerMove ------------------------------
(***************************************************************************)
(* One entity moves from account to account.  The server flips the owner   *)
(* of its one row and then tells the devices of both accounts in two log   *)
(* entries; meanwhile devices edit and delete the entity, and pull the     *)
(* logs of their accounts in any order.  A version stands for the whole    *)
(* content written with that updatedTs.  Delivery of one account's log, in *)
(* order and without gaps, is the subject of OpLog.                        *)
(***************************************************************************)
EXTENDS Naturals, Sequences

CONSTANTS
  Accounts, Home,      \* the entity starts in Home
  Devices, Signed,     \* the accounts each device is signed in to
  None,
  Races,               \* which of AllRaces may happen
  MaxMoves, MaxEdits, MaxCrashes   \* bounds of the state space

AllRaces == {"targetFirst", "parallelEdit", "unconfirmedDelete", "deleteBesideLegs",
             "deleteBesidePush", "briefMeanwhile"}

ASSUME HomeAssumption == Home \in Accounts
ASSUME SignedAssumption == Signed \in [Devices -> SUBSET Accounts]
ASSUME RaceAssumption == Races \subseteq AllRaces
ASSUME BoundAssumption == MaxMoves \in Nat /\ MaxEdits \in Nat /\ MaxCrashes \in Nat

VARIABLES
  row,       \* the entity on the server: its owner and version, or None
  brief,     \* the account its brief row belongs to, or None
  receipts,  \* entityMoves: the moves somebody began, <<from, to>>
  log,       \* what each account's devices are to apply, in order
  move,      \* the reassign under way; reassignMutex lets one at a time run
  generating,\* the account a brief is being written for, or None
  copy,      \* the entity on each device
  cursor,    \* how much of each account's log a device has applied
  queue,     \* the one operation a device has not had acknowledged, or None
  deleted,   \* the account whose echo of its delete a device waits for
  now,       \* the last version handed out
  held,      \* the accounts that ever held the entity
  owed,      \* flips not yet announced in full
  count      \* how often each bounded thing happened

server == <<row, brief, receipts, log, held, owed>>
client == <<copy, cursor, queue, deleted>>
vars == <<server, client, move, generating, now, count>>

Versions == Nat
Entities == [owner : Accounts, version : Versions]
Steps == {"find", "receipt", "flip", "deleteLeg", "createLeg", "cascade",
          "resolve", "deleteAgain", "createAgain"}
Kinds == {"put", "delete"}
Ops == [kind : Kinds, version : Versions]
Moves == [step : Steps, from : Accounts, to : Accounts, version : Versions]
Queued == [kind : Kinds, account : Accounts, version : Versions, read : BOOLEAN]
ASSUME NoneAssumption == None \notin Accounts \cup Entities \cup Moves \cup Queued
Limits == [moves |-> MaxMoves, edits |-> MaxEdits, crashes |-> MaxCrashes]

TypeOK ==
  /\ row \in Entities \cup {None}
  /\ brief \in Accounts \cup {None}
  /\ receipts \subseteq Accounts \X Accounts
  /\ log \in [Accounts -> Seq(Ops)]
  /\ move \in Moves \cup {None} /\ (move # None => move.from # move.to)
  /\ generating \in Accounts \cup {None}
  /\ copy \in [Devices -> Entities \cup {None}]
  /\ cursor \in [Devices -> [Accounts -> Nat]]
  /\ queue \in [Devices -> Queued \cup {None}]
  /\ deleted \in [Devices -> Accounts \cup {None}]
  /\ now \in Nat
  /\ held \subseteq Accounts
  /\ owed \subseteq Accounts \X Accounts
  /\ count \in [DOMAIN Limits -> Nat]

Entry(kind, version) == [kind |-> kind, version |-> version]
Entity(owner, version) == [owner |-> owner, version |-> version]

Init ==
  /\ row = Entity(Home, 0)
  /\ brief = Home
  /\ receipts = {} /\ owed = {} /\ held = {Home}
  /\ log = [a \in Accounts |-> IF a = Home THEN <<Entry("put", 0)>> ELSE <<>>]
  /\ move = None /\ generating = None
  /\ copy = [d \in Devices |-> IF Home \in Signed[d] THEN row ELSE None]
  /\ cursor = [d \in Devices |-> [a \in Accounts |->
                 IF a = Home /\ Home \in Signed[d] THEN 1 ELSE 0]]
  /\ queue = [d \in Devices |-> None]
  /\ deleted = [d \in Devices |-> None]
  /\ now = 0
  /\ count = [k \in DOMAIN Limits |-> 0]

Counted(k) == count[k] < Limits[k] /\ count' = [count EXCEPT ![k] = @ + 1]

Owns(a) == row # None /\ row.owner = a

Logs(a, entry) == log' = [log EXCEPT ![a] = Append(@, entry)]

-----------------------------------------------------------------------------
(* The move, on the server: reassignEntity *)

At(step) == move # None /\ move.step = step
GoTo(step) == move' = [move EXCEPT !.step = step]

\* Fault: the two accounts need not differ.
RequestAny(d, from, to) ==
  /\ move = None /\ {from, to} \subseteq Signed[d] /\ Counted("moves")
  /\ move' = [step |-> "find", from |-> from, to |-> to, version |-> 0]
  /\ UNCHANGED <<server, client, generating, now>>

\* validateReassignSessions: the device is signed in to both accounts.
Request(d, from, to) ==
  /\ move = None /\ from # to /\ {from, to} \subseteq Signed[d] /\ Counted("moves")
  /\ move' = [step |-> "find", from |-> from, to |-> to, version |-> 0]
  /\ UNCHANGED <<server, client, generating, now>>

\* Between the flip, or the read of a retry, and the entry made from it.
Announcing == move # None /\ move.step \in {"deleteLeg", "createLeg", "deleteAgain", "createAgain"}

\* The apply pipeline of a push, under way.
Applying == \E d \in Devices : queue[d] # None /\ queue[d].read

\* findByOwnerAndId; the target's row is made from what it returns.
Find ==
  /\ At("find") /\ (Applying => "parallelEdit" \in Races)
  /\ IF Owns(move.from)
     THEN /\ now' = now + 1
          /\ move' = [move EXCEPT !.step = "receipt", !.version = now + 1]
     ELSE GoTo("resolve") /\ UNCHANGED now
  /\ UNCHANGED <<server, client, generating, count>>

\* The receipt comes before the flip.
Receipt ==
  /\ At("receipt")
  /\ receipts' = receipts \cup {<<move.from, move.to>>}
  /\ GoTo("flip")
  /\ UNCHANGED <<row, brief, log, held, owed, client, generating, now, count>>

\* replaceByOwner: only while the source still owns the row.
Flip ==
  /\ At("flip") /\ (generating # None => "briefMeanwhile" \in Races)
  /\ IF Owns(move.from)
     THEN /\ row' = Entity(move.to, move.version)
          /\ held' = held \cup {move.to}
          /\ owed' = owed \cup {<<move.from, move.to>>}
          /\ GoTo("deleteLeg")
     ELSE GoTo("resolve") /\ UNCHANGED <<row, held, owed>>
  /\ UNCHANGED <<brief, receipts, log, client, generating, now, count>>

\* Fault: the entity's new account hears of it first.
CreateLegOnly ==
  /\ At("deleteLeg")
  /\ Logs(move.to, Entry("put", move.version))
  /\ GoTo("cascade")
  /\ UNCHANGED <<row, brief, receipts, held, owed, client, generating, now, count>>

DeleteLeg ==
  /\ At("deleteLeg")
  /\ Logs(move.from, Entry("delete", 0))
  /\ GoTo("createLeg")
  /\ UNCHANGED <<row, brief, receipts, held, owed, client, generating, now, count>>

CreateLeg ==
  /\ At("createLeg")
  /\ Logs(move.to, Entry("put", move.version))
  /\ GoTo("cascade")
  /\ UNCHANGED <<row, brief, receipts, held, owed, client, generating, now, count>>

\* Fault: the brief is left where it is.
CascadeNothing ==
  /\ At("cascade")
  /\ owed' = owed \ {<<move.from, move.to>>}
  /\ move' = None
  /\ UNCHANGED <<row, brief, receipts, log, held, client, generating, now, count>>

\* cascadeItemBriefRemoval ends the move, and its retry.
Cascade ==
  /\ At("cascade")
  /\ brief' = IF brief = move.from THEN None ELSE brief
  /\ owed' = owed \ {<<move.from, move.to>>}
  /\ move' = None
  /\ UNCHANGED <<row, receipts, log, held, client, generating, now, count>>

\* Fault: whatever is under the target counts as moved.
ResolveUngated ==
  /\ At("resolve")
  /\ move' = IF Owns(move.to)
             THEN [move EXCEPT !.step = "deleteAgain", !.version = row.version] ELSE None
  /\ UNCHANGED <<server, client, generating, now, count>>

\* resolveAlreadyMoved: under the target, and somebody began this very move.
Resolve ==
  /\ At("resolve")
  /\ move' = IF Owns(move.to) /\ <<move.from, move.to>> \in receipts
             THEN [move EXCEPT !.step = "deleteAgain", !.version = row.version] ELSE None
  /\ UNCHANGED <<server, client, generating, now, count>>

\* republishOwnerMoveOps: the same two entries, the second of the present row.
DeleteAgain ==
  /\ At("deleteAgain")
  /\ Logs(move.from, Entry("delete", 0))
  /\ GoTo("createAgain")
  /\ UNCHANGED <<row, brief, receipts, held, owed, client, generating, now, count>>

CreateAgain ==
  /\ At("createAgain")
  /\ Logs(move.to, Entry("put", move.version))
  /\ GoTo("cascade")
  /\ UNCHANGED <<row, brief, receipts, held, owed, client, generating, now, count>>

\* The process stops: whatever it was doing stays half done.
Crash ==
  /\ Counted("crashes")
  /\ move' = None /\ generating' = None
  /\ queue' = [d \in Devices |->
                 IF queue[d] = None THEN None ELSE [queue[d] EXCEPT !.read = FALSE]]
  /\ UNCHANGED <<server, copy, cursor, deleted, now>>

-----------------------------------------------------------------------------
(* Briefs: read under an account, written some time later *)

GenerateBegin ==
  /\ generating = None /\ row # None /\ brief # row.owner
  /\ generating' = row.owner
  /\ UNCHANGED <<server, client, move, now, count>>

GenerateEnd ==
  /\ generating # None
  /\ brief' = generating /\ generating' = None
  /\ UNCHANGED <<row, receipts, log, held, owed, client, move, now, count>>

-----------------------------------------------------------------------------
(* Devices: local changes, and their push *)

Edit(d) ==
  /\ copy[d] # None /\ queue[d] = None /\ Counted("edits")
  /\ now' = now + 1
  /\ copy' = [copy EXCEPT ![d].version = now + 1]
  /\ queue' = [queue EXCEPT ![d] = [kind |-> "put", account |-> copy[d].owner,
                                    version |-> now + 1, read |-> FALSE]]
  /\ UNCHANGED <<server, move, generating, cursor, deleted>>

Delete(d) ==
  /\ copy[d] # None /\ queue[d] = None /\ Counted("edits")
  /\ copy' = [copy EXCEPT ![d] = None]
  /\ queue' = [queue EXCEPT ![d] = [kind |-> "delete", account |-> copy[d].owner,
                                    version |-> 0, read |-> FALSE]]
  /\ deleted' = [deleted EXCEPT ![d] = copy[d].owner]
  /\ UNCHANGED <<server, move, generating, cursor, now>>

\* An update is compared with the row its account owns; of a row that is not
\* there it is quarantined, and no device ever sees it.
PushRead(d) ==
  /\ queue[d] # None /\ queue[d].kind = "put" /\ ~queue[d].read
  /\ At("receipt") \/ At("flip") => "parallelEdit" \in Races
  /\ queue' = IF Owns(queue[d].account)
              THEN [queue EXCEPT ![d].read = TRUE] ELSE [queue EXCEPT ![d] = None]
  /\ UNCHANGED <<server, move, generating, copy, cursor, deleted, now, count>>

\* replaceById, by identity alone; then the log entry, stale or not.
PushWrite(d) ==
  LET op == queue[d] IN
  /\ op # None /\ op.kind = "put" /\ op.read
  /\ row' = IF row = None \/ row.owner # op.account \/ row.version <= op.version
            THEN Entity(op.account, op.version) ELSE row
  /\ Logs(op.account, Entry("put", op.version))
  /\ queue' = [queue EXCEPT ![d] = None]
  /\ UNCHANGED <<brief, receipts, held, owed, move, generating, copy, cursor, deleted, now, count>>

\* deleteByOwner, with the brief; the entry is logged whatever was there.
PushDelete(d) ==
  LET op == queue[d] IN
  /\ op # None /\ op.kind = "delete"
  /\ generating = op.account => "briefMeanwhile" \in Races
  /\ Announcing => "deleteBesideLegs" \in Races
  /\ Applying /\ Owns(op.account) => "deleteBesidePush" \in Races
  /\ row' = IF Owns(op.account) THEN None ELSE row
  /\ brief' = IF brief = op.account THEN None ELSE brief
  /\ Logs(op.account, Entry("delete", 0))
  /\ queue' = [queue EXCEPT ![d] = None]
  /\ UNCHANGED <<receipts, held, owed, move, generating, copy, cursor, deleted, now, count>>

-----------------------------------------------------------------------------
(* Devices: pulls, an entry at a time, of any account *)

NextOp(d, a) == log[a][cursor[d][a] + 1]

CanPull(d, a) == a \in Signed[d] /\ cursor[d][a] < Len(log[a])

Pulled(d, a) ==
  /\ cursor' = [cursor EXCEPT ![d][a] = @ + 1]
  /\ UNCHANGED <<server, move, generating, queue, now, count>>

\* Fault: a delete takes the row whoever owns it.
PullDeleteUnscoped(d, a) ==
  /\ CanPull(d, a) /\ NextOp(d, a).kind = "delete"
  /\ copy' = [copy EXCEPT ![d] = None]
  /\ deleted' = [deleted EXCEPT ![d] = None]
  /\ Pulled(d, a)

\* A delete takes the row only from the account it is pulled for.
PullDelete(d, a) ==
  /\ CanPull(d, a) /\ NextOp(d, a).kind = "delete"
  /\ copy' = IF copy[d] # None /\ copy[d].owner = a THEN [copy EXCEPT ![d] = None] ELSE copy
  /\ deleted' = [deleted EXCEPT ![d] = IF queue[d] # None /\ queue[d].kind = "delete" THEN @ ELSE None]
  /\ Pulled(d, a)

\* A put that finds a newer row is passed over.
PullPut(d, a) ==
  LET op == NextOp(d, a)
      older == copy[d] # None /\ op.version < copy[d].version
  IN  /\ CanPull(d, a) /\ op.kind = "put" /\ deleted[d] = None
      /\ older /\ copy[d].owner # a => "targetFirst" \in Races
      /\ copy' = IF older THEN copy ELSE [copy EXCEPT ![d] = Entity(a, op.version)]
      /\ UNCHANGED deleted
      /\ Pulled(d, a)

\* Nothing is put back that the device has just deleted.
PullHeld(d, a) ==
  /\ CanPull(d, a) /\ NextOp(d, a).kind = "put" /\ deleted[d] # None
  /\ deleted[d] = a \/ "unconfirmedDelete" \in Races
  /\ UNCHANGED <<copy, deleted>>
  /\ Pulled(d, a)

-----------------------------------------------------------------------------

Server ==
  \/ Find \/ Receipt \/ Flip \/ DeleteLeg \/ CreateLeg \/ Cascade
  \/ Resolve \/ DeleteAgain \/ CreateAgain
  \/ GenerateBegin \/ GenerateEnd

Device(d) ==
  \/ Edit(d) \/ Delete(d) \/ PushRead(d) \/ PushWrite(d) \/ PushDelete(d)
  \/ \E a \in Accounts : PullDelete(d, a) \/ PullPut(d, a) \/ PullHeld(d, a)
  \/ \E from, to \in Accounts : Request(d, from, to)

Next ==
  \/ Server \/ Crash
  \/ \E d \in Devices : Device(d)

Spec == Init /\ [][Next]_vars

-----------------------------------------------------------------------------
(* The inductive invariants of the proofs *)

Announced == {"deleteLeg", "createLeg", "cascade", "deleteAgain", "createAgain"}

\* Whatever names an account names one that held the entity.
HeldInv ==
  /\ row # None => row.owner \in held
  /\ \A r \in receipts : r[1] \in held
  /\ move # None /\ move.step \notin {"find", "resolve"} => move.from \in held
  /\ move # None /\ move.step \in Announced => move.to \in held
  /\ \A d \in Devices : copy[d] # None => copy[d].owner \in held
  /\ \A d \in Devices : queue[d] # None => queue[d].account \in held
  /\ \A a \in Accounts : log[a] # <<>> => a \in held

\* The brief is the owner's, or of an account whose move is still to end.
BriefInv ==
  /\ brief # None => Owns(brief) \/ \E r \in owed : r[1] = brief
  /\ generating # None => Owns(generating)
  /\ \A d \in Devices : queue[d] # None /\ queue[d].read =>
       /\ queue[d].kind = "put"
       /\ ~At("receipt") /\ ~At("flip")
       /\ row # None => Owns(queue[d].account)
       /\ \A e \in Devices : queue[e] # None /\ queue[e].read => queue[e].account = queue[d].account

-----------------------------------------------------------------------------

\* Every flip has been announced, and every device has heard everything.
Quiet ==
  /\ move = None /\ owed = {}
  /\ \A d \in Devices :
       /\ queue[d] = None
       /\ \A a \in Signed[d] : cursor[d][a] = Len(log[a])

\* Then every device shows the entity where the server has it, and only there
\* (syncHelpers.ts, applyEntityOp: the two legs of a move may come in either
\* order, beside edits and deletes of the device's own).
Converged ==
  Quiet => \A d \in Devices :
    copy[d] = IF row # None /\ row.owner \in Signed[d] THEN row ELSE None

\* Nobody hears of an entity that was never theirs (reassignEntity.ts,
\* resolveAlreadyMoved: the receipt gate is load-bearing).
NothingForged == \A a \in Accounts : log[a] # <<>> => a \in held

\* A brief does not stay behind in an account the entity has left
\* (itemBriefCascade.ts; resolveItemAlreadyMoved heals it after a crash).
BriefFollows ==
  move = None /\ owed = {} /\ brief # None => row # None /\ row.owner = brief
=============================================================================
