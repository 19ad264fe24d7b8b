--------------------------- MODULE ReplicatedLog ---------------------------
(***************************************************************************)
(* What the delivery of an operation log promises, without saying how:     *)
(* operations become visible, never behind the back of a replica that has  *)
(* moved past them, and a replica moves past an operation only by holding  *)
(* it.  No clock, no request, no purge.  OpLog implements it.              *)
(***************************************************************************)
EXTENDS CursorOrder

CONSTANTS Devices, None

VARIABLES
  visible,  \* the operations a reader of the server may come across
  replica,  \* those whose outcome each device holds
  cursor    \* how far each device claims to have got, or None

vars == <<visible, replica, cursor>>

Complete(d) ==
  cursor[d] # None => \A o \in visible : ~After(o, cursor[d]) => o \in replica[d]

Init ==
  /\ visible = {}
  /\ replica = [d \in Devices |-> {}]
  /\ cursor = [d \in Devices |-> None]

\* Operations appear above every cursor, in any number and order.
Publish ==
  /\ visible \subseteq visible'
  /\ \A o \in visible' \ visible : \A d \in Devices :
       cursor[d] # None => After(o, cursor[d])
  /\ UNCHANGED <<replica, cursor>>

\* Only d changes, holds nothing that was never there, and all it claims.
Moves(d) ==
  /\ UNCHANGED visible
  /\ \A e \in Devices \ {d} : replica'[e] = replica[e] /\ cursor'[e] = cursor[e]
  /\ replica'[d] \subseteq visible
  /\ Complete(d)'

\* A replica learns more; its cursor does not move back.
Advance(d) ==
  /\ Moves(d)
  /\ cursor[d] # None
  /\ cursor'[d] # None /\ ~After(cursor[d], cursor'[d])
  /\ replica[d] \subseteq replica'[d]

\* A replica starts over from a snapshot, however far it had got.
StartOver(d) == Moves(d) /\ cursor'[d] # None

\* The account leaves the device.
Leave(d) == Moves(d) /\ cursor'[d] = None /\ replica'[d] = {}

Next == Publish \/ \E d \in Devices : Advance(d) \/ StartOver(d) \/ Leave(d)

Spec == Init /\ [][Next]_vars
=============================================================================
