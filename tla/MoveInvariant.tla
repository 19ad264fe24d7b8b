--------------------------- MODULE MoveInvariant ----------------------------
(***************************************************************************)
(* What holds in every state of OwnerMove when none of its races happens,  *)
(* and why the devices end up with what the server has: an account that    *)
(* lost the entity is told so last, the versions of the owner's log are    *)
(* the latest there are, and a device that has heard of the row's version  *)
(* has it, or is about to push something newer or a delete.                *)
(***************************************************************************)
EXTENDS OwnerMove

\* A version of the entity that a log tells of.
Puts(a) == {i \in DOMAIN log[a] : log[a][i].kind = "put"}

\* The last thing an account's log says.
EndsWith(a, kind) == log[a] # <<>> /\ log[a][Len(log[a])].kind = kind

\* An entry brings the row as it is, and no later entry takes it away again.
Standing(a, i) ==
  /\ i \in Puts(a) /\ log[a][i].version = row.version
  /\ \A j \in DOMAIN log[a] : j > i => log[a][j].kind = "put"
Told(a) == \E i \in DOMAIN log[a] : Standing(a, i)

Queues(d, kind, account) == queue[d] # None /\ queue[d].kind = kind /\ queue[d].account = account

-----------------------------------------------------------------------------
(* Versions, logs and the move *)

\* No version is later than the last one handed out.
HandedOut ==
  /\ row # None => row.version <= now
  /\ \A a \in Accounts : \A i \in Puts(a) : log[a][i].version <= now
  /\ \A d \in Devices : /\ copy[d] # None => copy[d].version <= now
                        /\ queue[d] # None => queue[d].version <= now

\* A push that has read the row writes the row it has read, or a newer one.
ReadsHold ==
  \A d \in Devices : queue[d] # None /\ queue[d].read =>
    queue[d].kind = "put" /\ Owns(queue[d].account) /\ ~At("receipt") /\ ~At("flip")

\* No log is ahead of the row, and only the owner's is level with it.
Latest ==
  row # None => \A a \in Accounts : \A i \in Puts(a) :
    log[a][i].version <= row.version /\ (a # row.owner => log[a][i].version < row.version)

\* The row a move is about to write is newer than all there is; what a device
\* has made since is still to be pushed.
AboutToFlip ==
  At("receipt") \/ At("flip") =>
    /\ move.version <= now
    /\ row # None => row.version < move.version
    /\ \A a \in Accounts : \A i \in Puts(a) : log[a][i].version < move.version
    /\ \A d \in Devices : copy[d] # None /\ copy[d].version > move.version =>
         Queues(d, "put", copy[d].owner) /\ queue[d].version = copy[d].version

\* The row stays where it is while it is announced, and the second entry is of
\* its version, unless a push has told of a newer one.
UnderWay ==
  Announcing => /\ Owns(move.to) /\ move.version <= row.version
                /\ move.version = row.version \/ Told(move.to)

\* Between the two entries, and after them.
HalfDone ==
  At("createLeg") \/ At("createAgain") \/ At("cascade") => ~Owns(move.from) /\ EndsWith(move.from, "delete")
AllDone == At("cascade") /\ Owns(move.to) => Told(move.to)

\* An account that does not have the entity has been told so last, and the one
\* that has it has been told of its version, or a flip is still to be announced.
LosersTold ==
  \A a \in Accounts : ~Owns(a) =>
    log[a] = <<>> \/ EndsWith(a, "delete") \/ \E r \in owed : r[1] = a
OwnerTold == row # None => Told(row.owner) \/ \E r \in owed : r[2] = row.owner

ServerInv ==
  /\ HandedOut /\ ReadsHold /\ Latest
  /\ AboutToFlip /\ UnderWay /\ HalfDone /\ AllDone
  /\ LosersTold /\ OwnerTold

-----------------------------------------------------------------------------
(* The devices *)

\* No device is ahead of a log; the last that it heard from the account its copy
\* is of was not a delete.
Heard ==
  \A d \in Devices :
    /\ \A a \in Accounts : cursor[d][a] <= Len(log[a])
    /\ copy[d] # None => /\ copy[d].owner \in Signed[d]
                         /\ cursor[d][copy[d].owner] \in Puts(copy[d].owner)

\* The echo a device waits for is of the delete it queues, or still to be pulled.
EchoComes ==
  \A d \in Devices :
    /\ queue[d] # None /\ queue[d].kind = "delete" => deleted[d] = queue[d].account
    /\ deleted[d] # None =>
         \/ Queues(d, "delete", deleted[d])
         \/ \E j \in DOMAIN log[deleted[d]] :
              j > cursor[d][deleted[d]] /\ log[deleted[d]][j].kind = "delete"

\* A device that was told of the row has it, or something newer, or deletes it.
HasIt ==
  row # None => \A d \in Devices : \A i \in DOMAIN log[row.owner] :
    Standing(row.owner, i) /\ i <= cursor[d][row.owner] =>
      \/ copy[d] # None /\ copy[d].owner = row.owner /\ row.version <= copy[d].version
      \/ Queues(d, "delete", row.owner)

\* What a device has that is newer than the row is still to be pushed.
NewerQueued ==
  \A d \in Devices : copy[d] # None /\ Owns(copy[d].owner) /\ copy[d].version > row.version =>
    Queues(d, "put", copy[d].owner) /\ queue[d].version = copy[d].version

DeviceInv == Heard /\ EchoComes /\ HasIt /\ NewerQueued

MoveInv == ServerInv /\ DeviceInv
=============================================================================
