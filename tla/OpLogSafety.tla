---------------------------- MODULE OpLogSafety ----------------------------
(***************************************************************************)
(* Type correctness of OpLog, for every value of the constants, and its    *)
(* delivery guarantees for any number of devices, processes and            *)
(* operations: in a Deployment, where a device has one context, and in a   *)
(* PromptDeployment, where it has any number of them and the replies of    *)
(* bootstraps do not outlast the holdback either.                          *)
(*                                                                         *)
(* The argument.  A position is final once the held-back boundary has      *)
(* passed it, and an operation still on its way to the collections is      *)
(* always after every final position (Recent, InFlight).  All cursors,     *)
(* rows and floors are final.  What remains is that a scan and a snapshot  *)
(* miss nothing but such operations in the time they take (Elapsed), which *)
(* is what Deployment relates to the holdback.                             *)
(*                                                                         *)
(* With several contexts the cursor may move between what a pull asked and *)
(* what it is told, forward by another pull or back by a bootstrap, and    *)
(* rows come back between a scan and its record.  A bootstrap that is      *)
(* still in time mends all of it: its snapshot has whatever is final.      *)
(***************************************************************************)
EXTENDS OpLogInvariant, TLAPS

-----------------------------------------------------------------------------
(* Positions *)

LEMMA BoundaryType ==
  ASSUME NEW ms \in Nat
  PROVE  Boundary(ms) \in Positions
BY DEF Boundary, Positions

LEMMA WallType ==
  ASSUME now \in Nat, now >= Origin, NEW wall \in Walls
  PROVE  /\ wall \in Nat /\ wall <= now /\ wall >= now - Skew
         /\ wall - Holdback \in Nat
         /\ Boundary(wall - Holdback) \in Positions
BY ClockAssumption DEF Walls, Boundary, Positions

\* What a pull advertises is a position, and one of four kinds.
LEMMA AdvertisedType ==
  ASSUME NEW ops \in SUBSET Positions, NEW since \in Positions,
         NEW wall \in Int, wall - Holdback \in Nat,
         NEW bound \in Advertised(ops, since, wall)
  PROVE  /\ bound \in Positions
         /\ bound = since \/ ~After(bound, Boundary(wall - Holdback))
<1> DEFINE hb == Boundary(wall - Holdback)
<1>1. hb \in Positions /\ ~After(hb, hb)
  BY DEF Boundary, Positions, After
<1>2. PICK h \in Positions : /\ ~After(h, hb)
                             /\ bound = Later(h, since)
  BY <1>1 DEF Advertised
<1>3. QED
  BY <1>2 DEF Later

-----------------------------------------------------------------------------
(* Type correctness *)

LEMMA AllocateFresh ==
  ASSUME TypeInv, NEW i \in Instances, NEW wall \in Walls, Allocate(i, wall)
  PROVE  \E o \in Positions :
           /\ o \notin issued /\ o[3] = i /\ o[2] >= 1 /\ o[1] >= wall
           /\ issued' = issued \cup {o}
           /\ inserting' = inserting \cup {o} /\ applying' = applying \cup {o}
           /\ alloc' \in [Instances -> [ms : Nat, seq : Nat]]
           /\ FreshIds'
<1> DEFINE id == NextIdentity(alloc[i], wall)
           o  == <<id.ms, id.seq + 1, i>>
<1> USE InstanceAssumption, ClockAssumption
<1>1. wall \in Nat /\ alloc[i] \in [ms : Nat, seq : Nat] /\ i \in Nat
  BY WallType DEF TypeInv, TypeOK, Started
<1>2. /\ id \in [ms : Nat, seq : Nat] /\ id.ms >= wall
      /\ \/ id.ms > alloc[i].ms
         \/ id.ms = alloc[i].ms /\ id.seq = alloc[i].seq + 1
  BY <1>1 DEF NextIdentity
<1>3. o \in Positions /\ o[1] = id.ms /\ o[2] = id.seq + 1 /\ o[3] = i
  BY <1>1, <1>2 DEF Positions
<1>4. o \notin issued
  <2>1. SUFFICES ASSUME o \in issued PROVE FALSE
    OBVIOUS
  <2>2. o[1] < alloc[i].ms \/ (o[1] = alloc[i].ms /\ o[2] <= alloc[i].seq + 1)
    BY <2>1, <1>3 DEF TypeInv, FreshIds
  <2>3. QED
    BY <2>2, <1>1, <1>2, <1>3
<1>5. /\ issued' = issued \cup {o} /\ inserting' = inserting \cup {o}
      /\ applying' = applying \cup {o} /\ alloc' = [alloc EXCEPT ![i] = id]
  BY DEF Allocate
<1>6. alloc' \in [Instances -> [ms : Nat, seq : Nat]]
  BY <1>2, <1>5 DEF TypeInv, TypeOK
<1>7. FreshIds'
  <2>1. SUFFICES ASSUME NEW p \in issued'
                 PROVE  /\ p[3] \in Instances /\ p[2] >= 1
                        /\ \/ p[1] < alloc'[p[3]].ms
                           \/ p[1] = alloc'[p[3]].ms /\ p[2] <= alloc'[p[3]].seq + 1
    BY DEF FreshIds
  <2>2. CASE p = o
    BY <2>2, <1>1, <1>2, <1>3, <1>5 DEF TypeInv, TypeOK
  <2>3. CASE p \in issued /\ p[3] = i
    <3>1. alloc'[i] = id
      BY <1>5 DEF TypeInv, TypeOK
    <3>2. p \in Positions /\ p[1] \in Nat /\ p[2] \in Nat
      BY <2>3 DEF TypeInv, TypeOK, Positions
    <3>3. QED
      BY <2>3, <3>1, <3>2, <1>1, <1>2 DEF TypeInv, FreshIds
  <2>4. CASE p \in issued /\ p[3] # i
    BY <2>4, <1>5 DEF TypeInv, TypeOK, FreshIds
  <2>5. QED
    BY <2>2, <2>3, <2>4, <1>5
<1>8. QED
  BY <1>2, <1>3, <1>4, <1>5, <1>6, <1>7

LEMMA IdleType == Idle \in Requests
BY BoundaryType DEF Idle, Requests, Phases, Epoch

\* The requests a context starts.
LEMMA FreshRequestType ==
  ASSUME NEW p \in Positions, NEW n \in Nat
  PROVE  /\ [Idle EXCEPT !.phase = "recover"] \in Requests
         /\ [Idle EXCEPT !.phase = "pullChecked", !.since = p] \in Requests
         /\ [Idle EXCEPT !.phase = "bootBegun", !.at = n, !.bound = p] \in Requests
<1>1. \A r \in Requests :
        /\ [r EXCEPT !.phase = "recover"] \in Requests
        /\ [r EXCEPT !.phase = "pullChecked", !.since = p] \in Requests
        /\ [r EXCEPT !.phase = "bootBegun", !.at = n, !.bound = p] \in Requests
  BY DEF Requests, Phases
<1>2. QED
  BY <1>1, IdleType

LEMMA InitType == Init => TypeInv
BY IdleType, ClockAssumption DEF Init, TypeInv, TypeOK, Started, FreshIds, Requests

LEMMA TypeStep ==
  ASSUME TypeInv, [Next]_vars
  PROVE  TypeInv'
<1> USE ClockAssumption, NoneAssumption DEF TypeInv, TypeOK, Started, FreshIds
<1>1. CASE Tick
  BY <1>1 DEF Tick, Requests
<1>2. ASSUME NEW i \in Instances, NEW wall \in Walls, Allocate(i, wall)
      PROVE  TypeInv'
  <2>1. PICK o \in Positions :
          /\ issued' = issued \cup {o} /\ inserting' = inserting \cup {o}
          /\ applying' = applying \cup {o} /\ o \notin issued
          /\ alloc' \in [Instances -> [ms : Nat, seq : Nat]] /\ FreshIds'
    BY <1>2, AllocateFresh DEF FreshIds
  <2>2. UNCHANGED <<now, log, row, cursor, delivered, req, floors>>
    BY <1>2 DEF Allocate
  <2>3. delivered' \in [Devices -> SUBSET issued']
    BY <2>1, <2>2
  <2>4. req' \in [Contexts -> Requests']
    BY <2>1, <2>2 DEF Requests
  <2>5. QED
    BY <2>1, <2>2, <2>3, <2>4
<1>3. ASSUME NEW o \in inserting, CommitToLog(o) PROVE TypeInv'
  BY <1>3 DEF CommitToLog, Requests
<1>4. ASSUME NEW o \in applying, CommitToEntities(o) PROVE TypeInv'
  BY <1>4 DEF CommitToEntities, Requests
<1>5. ASSUME NEW c \in Contexts, PullStep(c) PROVE TypeInv'
  <2> USE DeviceAssumption DEF serverVars
  <2>1. CASE PullCheck(c)
    <3>0. CursorOr(DeviceOf[c]) \in Positions
      BY BoundaryType DEF CursorOr, Epoch
    <3>1. /\ [Idle EXCEPT !.phase = "recover"] \in Requests
          /\ [Idle EXCEPT !.phase = "pullChecked", !.since = CursorOr(DeviceOf[c])] \in Requests
      BY <3>0, FreshRequestType
    <3>2. req' \in [Contexts -> Requests] /\ Requests' = Requests
      BY <2>1, <3>1 DEF PullCheck, Requests
    <3>3. QED
      BY <2>1, <3>2 DEF PullCheck
  <2>2. CASE PullRead(c)
    <3>0. req[c] \in Requests /\ {o \in log : After(o, req[c].since)} \in SUBSET issued
      OBVIOUS
    <3>1. [req[c] EXCEPT !.phase = "pullRead", !.at = now,
                         !.ops = {o \in log : After(o, req[c].since)}] \in Requests
      BY <3>0 DEF Phases, Requests
    <3>2. req' \in [Contexts -> Requests] /\ Requests' = Requests
      BY <2>2, <3>1 DEF PullRead, Requests
    <3>3. QED
      BY <2>2, <3>2 DEF PullRead
  <2>3. CASE PullRefused(c)
    <3>1. req' \in [Contexts -> Requests] /\ Requests' = Requests
      BY <2>3, FreshRequestType DEF PullRefused, Requests
    <3>2. QED
      BY <2>3, <3>1 DEF PullRefused
  <2>4. CASE PullApply(c)
    <3>1. req' \in [Contexts -> Requests] /\ Requests' = Requests
      BY <2>4, IdleType DEF PullApply, Requests
    <3>2. req[c] \in Requests /\ req[c].ops \subseteq issued /\ req[c].bound \in Positions
      BY DEF Requests
    <3>3. QED
      BY <2>4, <3>1, <3>2 DEF PullApply
  <2>5. ASSUME NEW wall \in Walls, PullRecord(c, wall) PROVE TypeInv'
    <3>1. req[c] \in Requests /\ req[c].ops \subseteq Positions /\ req[c].since \in Positions
      BY DEF Requests
    <3>2. \A bound \in Advertised(req[c].ops, req[c].since, wall) : bound \in Positions
      BY <3>1, WallType, AdvertisedType
    <3>3. \A bound \in Positions :
            [req[c] EXCEPT !.phase = "pullReply", !.bound = bound, !.at = 0] \in Requests
      BY <3>1 DEF Phases, Requests
    <3>a. PICK bound \in Positions :
            req' = [req EXCEPT ![c] = [@ EXCEPT !.phase = "pullReply", !.bound = bound, !.at = 0]]
      BY <2>5, <3>2 DEF PullRecord
    <3>4. req' \in [Contexts -> Requests] /\ Requests' = Requests
      BY <2>5, <3>3, <3>a DEF PullRecord, Requests
    <3>5. QED
      BY <2>5, <3>1, <3>4 DEF PullRecord
  <2>6. QED
    BY <1>5, <2>1, <2>2, <2>3, <2>4, <2>5 DEF PullStep
<1>6. ASSUME NEW c \in Contexts, BootStep(c) PROVE TypeInv'
  <2> USE DeviceAssumption DEF serverVars
  <2>1. ASSUME NEW wall \in Walls, BootBegin(c, wall) PROVE TypeInv'
    <3>1. \A p \in Positions :
            [Idle EXCEPT !.phase = "bootBegun", !.at = now, !.bound = p] \in Requests
      BY FreshRequestType
    <3>2. req' \in [Contexts -> Requests] /\ Requests' = Requests
      BY ZenonT(30), <2>1, <3>1, WallType DEF BootBegin, Later, Requests
    <3>3. QED
      BY <2>1, <3>2 DEF BootBegin
  <2>2. CASE BootRead(c)
    <3>0. req[c] \in Requests /\ issued \ applying \in SUBSET issued
      OBVIOUS
    <3>1. [req[c] EXCEPT !.phase = "bootRead", !.ops = issued \ applying] \in Requests
      BY <3>0 DEF Phases, Requests
    <3>2. req' \in [Contexts -> Requests] /\ Requests' = Requests
      BY <2>2, <3>1 DEF BootRead, Requests
    <3>3. QED
      BY <2>2, <3>2 DEF BootRead
  <2>3. CASE BootRegister(c)
    <3>1. [req[c] EXCEPT !.phase = "bootReply"] \in Requests /\ req[c].bound \in Positions
      BY DEF Phases, Requests
    <3>2. req' \in [Contexts -> Requests] /\ Requests' = Requests
      BY <2>3, <3>1 DEF BootRegister, Requests
    <3>3. QED
      BY <2>3, <3>1, <3>2 DEF BootRegister
  <2>4. CASE BootApply(c)
    <3>1. req' \in [Contexts -> Requests] /\ Requests' = Requests
      BY <2>4, IdleType DEF BootApply, Requests
    <3>2. req[c] \in Requests /\ req[c].ops \subseteq issued /\ req[c].bound \in Positions
      BY DEF Requests
    <3>3. QED
      BY <2>4, <3>1, <3>2 DEF BootApply
  <2>5. QED
    BY <1>6, <2>1, <2>2, <2>3, <2>4 DEF BootStep
<1>7. ASSUME NEW c \in Contexts, PullLost(c) \/ BootLost(c) PROVE TypeInv'
  BY <1>7, IdleType DEF PullLost, BootLost, serverVars, Requests
<1>8. ASSUME NEW d \in Devices, DropRow(d) \/ Wipe(d) \/ ReadFloor(d) PROVE TypeInv'
  BY SMTT(30), <1>8, IdleType DEF DropRow, Wipe, ReadFloor, Registered, serverVars, Requests
<1>9. ASSUME NEW f \in floors, Purge(f) PROVE TypeInv'
  BY <1>9 DEF Purge, Requests
<1>10. CASE UNCHANGED vars
  BY <1>10 DEF vars, serverVars, Requests
<1>11. QED
  BY <1>1, <1>2, <1>3, <1>4, <1>5, <1>6, <1>7, <1>8, <1>9, <1>10 DEF Next

\* The state stays of its type whatever the constants and the anomalies: no
\* operation is in the log before its insert, none is issued twice, and a
\* device holds nothing that was never issued.
THEOREM TypeCorrect == Spec => []TypeOK
<1>1. TypeInv => TypeOK
  BY DEF TypeInv
<1>2. QED
  BY <1>1, InitType, TypeStep, PTL DEF Spec

-----------------------------------------------------------------------------
(* Positions and time *)

LEMMA AfterOrder ==
  ASSUME NEW a \in Positions, NEW b \in Positions, NEW c \in Positions
  PROVE  /\ ~After(a, a)
         /\ After(a, b) /\ ~After(c, b) => After(a, c)
         /\ ~After(a, b) /\ ~After(b, c) => ~After(a, c)
BY DEF After, Positions

\* A cursor that moves forward leaves nothing new above it.
LEMMA AfterAdvance ==
  ASSUME NEW a \in Positions, NEW b \in Positions, NEW o \in Positions, After(o, IF After(b, a) THEN b ELSE a)
  PROVE  After(o, a)
<1>1. CASE After(b, a)
  BY <1>1 DEF After, Positions
<1>2. CASE ~After(b, a)
  BY <1>2
<1>3. QED  BY <1>1, <1>2

LEMMA FinalPosition ==
  ASSUME TypeInv, NEW p \in Positions, Final(p)
  PROVE  p[1] < now - Holdback \/ (p[1] = now - Holdback /\ p[2] = 0 /\ p[3] = 0)
<1>1. now \in Nat /\ Holdback \in Nat /\ p[1] \in Nat /\ p[2] \in Nat /\ p[3] \in Nat
  BY ClockAssumption DEF TypeInv, TypeOK, Positions
<1>2. ~(p[1] > now - Holdback) /\ ~(p[1] = now - Holdback /\ p[2] > 0)
      /\ ~(p[1] = now - Holdback /\ p[2] = 0 /\ p[3] > 0)
  BY DEF Final, After, Boundary
<1>3. QED
  BY <1>1, <1>2

LEMMA PastIsFinal ==
  ASSUME TypeInv, NEW n \in Nat, n <= now - Holdback
  PROVE  Boundary(n) \in Positions /\ Final(Boundary(n))
BY ClockAssumption DEF TypeInv, TypeOK, Started, Final, After, Boundary, Positions

LEMMA EpochFinal ==
  ASSUME TypeInv
  PROVE  Epoch \in Positions /\ Final(Epoch)
BY PastIsFinal, ClockAssumption DEF TypeInv, TypeOK, Started, Epoch

\* An operation young enough to be on its way is after whatever is final.
LEMMA Recent ==
  ASSUME TypeInv, Deployment \/ PromptDeployment, NEW o \in Positions, o[2] >= 1, now <= o[1] + MaxLag,
         NEW p \in Positions, Final(p)
  PROVE  After(o, p)
<1>1. o[1] >= now - Holdback
  BY ClockAssumption DEF Deployment, PromptDeployment, Positions, TypeInv, TypeOK
<1>2. QED
  BY <1>1, FinalPosition, ClockAssumption DEF After, Positions, TypeInv, TypeOK

LEMMA InFlight ==
  ASSUME TypeInv, ClockInv, Deployment \/ PromptDeployment,
         NEW o \in inserting \cup applying, NEW p \in Positions, Final(p)
  PROVE  After(o, p) /\ now <= o[1] + MaxLag
<1>1. o \in issued /\ o \in Positions /\ o[2] >= 1 /\ now <= o[1] + MaxLag
  BY DEF TypeInv, TypeOK, FreshIds, ClockInv
<1>2. QED
  BY <1>1, Recent

\* An operation younger than a request is not behind what is final when the
\* request has lasted no longer than allowed.
LEMMA Elapsed ==
  ASSUME TypeInv, NEW o \in issued, NEW at \in Nat, NEW limit \in Nat,
         limit + MaxLag <= Holdback, now <= at + limit, o[1] + MaxLag >= at,
         NEW p \in Positions, Final(p)
  PROVE  After(o, p)
<1>1. o \in Positions /\ o[2] >= 1 /\ now \in Nat
  BY DEF TypeInv, TypeOK, FreshIds
<1>2. o[1] >= now - Holdback
  BY <1>1, ClockAssumption DEF Positions
<1>3. QED
  BY <1>1, <1>2, FinalPosition, ClockAssumption DEF After, Positions

-----------------------------------------------------------------------------
(* Requests *)

LEMMA RequestFields ==
  ASSUME TypeInv, NEW c \in Contexts
  PROVE  /\ req[c] \in Requests /\ req[c].ops \subseteq issued
         /\ req[c].since \in Positions /\ req[c].bound \in Positions
         /\ req[c].at \in Nat
         /\ DeviceOf[c] \in Devices
BY DeviceAssumption DEF TypeInv, TypeOK, Requests

\* A device has one context: its bootstrap is that context's.
LEMMA OneContext ==
  ASSUME Deployment, NEW c \in Contexts
  PROVE  /\ BootUnderWay(DeviceOf[c]) <=> req[c].phase = "bootReply"
         /\ \A e \in Contexts : e # c => DeviceOf[e] # DeviceOf[c]
BY DEF Deployment, BootUnderWay

\* A step that changes one request and neither starts nor ends the wait for a
\* bootstrap reply leaves every device as settled as it was.
LEMMA SameSettled ==
  ASSUME NEW c \in Contexts, cursor' = cursor,
         \A e \in Contexts \ {c} : req'[e] = req[e],
         req[c].phase = "bootReply" <=> req'[c].phase = "bootReply"
  PROVE  \A d \in Devices : Settled(d)' <=> Settled(d)
BY DEF Settled, BootUnderWay

Core ==
  /\ ClockInv /\ FinalInv /\ LoggedInv /\ SkipInv
  /\ AckedIsDelivered /\ NoPurgeGap /\ FloorInv /\ PullInv /\ BootInv

LEMMA IInvCore == IInv <=> TypeInv /\ Core
BY DEF IInv, Core

LEMMA InitSafe ==
  ASSUME Init
  PROVE  IInv
<1>1. TypeInv
  BY InitType
<1>2. Final(Epoch)
  BY <1>1, EpochFinal
<1>3. ClockInv /\ FinalInv
  BY <1>2, ClockAssumption DEF Init, ClockInv, FinalInv, Idle
<1>4. LoggedInv /\ SkipInv /\ AckedIsDelivered /\ NoPurgeGap /\ FloorInv
  BY DEF Init, LoggedInv, SkipInv, AckedIsDelivered, NoPurgeGap, FloorInv, Settled
<1>5. PullInv /\ BootInv
  BY DEF Init, PullInv, BootInv, Idle
<1>6. QED
  BY <1>1, <1>3, <1>4, <1>5 DEF IInv

-----------------------------------------------------------------------------
(* Time and writes *)

LEMMA SafeTick ==
  ASSUME Deployment, IInv, Tick
  PROVE  Core'
<1> USE DEF IInv
<1>1. /\ now' = now + 1 /\ now \in Nat
      /\ UNCHANGED <<alloc, issued, inserting, applying, log, row,
                     cursor, delivered, req, floors>>
  BY DEF Tick, TypeInv, TypeOK
<1>2. ClockInv'
  <2>1. \A o \in inserting \cup applying : o \in Positions
    BY DEF TypeInv, TypeOK
  <2>2. \A o \in inserting \cup applying : now + 1 <= o[1] + MaxLag
    BY <1>1, <2>1, ClockAssumption DEF Tick, Positions
  <2>3. ASSUME NEW c \in Contexts
        PROVE  /\ req[c].phase = "pullRead" => now + 1 <= req[c].at + MaxRead
               /\ req[c].phase \in {"bootBegun", "bootRead"} => now + 1 <= req[c].at + MaxServe
               /\ req[c].at <= now + 1
    <3>1. ~Overdue(c) /\ req[c].at \in Nat /\ req[c].at <= now
      BY RequestFields DEF Tick, ClockInv
    <3>2. QED
      BY <1>1, <3>1, ClockAssumption DEF Overdue
  <2>4. QED
    BY <1>1, <2>2, <2>3 DEF ClockInv
<1>3. \A p \in Positions : Final(p) => Final(p)'
  BY <1>1, ClockAssumption DEF Final, After, Boundary, Positions
<1>4. FinalInv'
  <2>1. \A d \in Devices : /\ row[d] # None => row[d] \in Positions
                           /\ cursor[d] # None => cursor[d] \in Positions
    BY DEF TypeInv, TypeOK
  <2>2. \A f \in floors : f \in Positions
    BY DEF TypeInv, TypeOK
  <2>3. \A d \in Devices : /\ row[d] # None => Final(row[d])'
                           /\ cursor[d] # None => Final(cursor[d])'
    BY <1>1, <1>3, <2>1 DEF FinalInv
  <2>4. \A c \in Contexts : Final(req[c].since)' /\ Final(req[c].bound)'
    BY <1>1, <1>3, RequestFields DEF FinalInv
  <2>5. \A f \in floors : Final(f)'
    BY <1>1, <1>3, <2>2 DEF FinalInv
  <2>6. QED
    BY <1>1, <2>3, <2>4, <2>5 DEF FinalInv, Final, After, Boundary
<1>5. LoggedInv' /\ SkipInv' /\ AckedIsDelivered' /\ NoPurgeGap' /\ FloorInv'
  BY <1>1 DEF LoggedInv, SkipInv, AckedIsDelivered, NoPurgeGap, FloorInv, Settled, BootUnderWay
<1>6. PullInv' /\ BootInv'
  BY <1>1 DEF PullInv, BootInv
<1>7. QED
  BY <1>2, <1>4, <1>5, <1>6 DEF Core

\* The operation stamped is after every position in use, whoever stamps it.
LEMMA SafeAllocate ==
  ASSUME Deployment, IInv, NEW i \in Instances, NEW wall \in Walls, Allocate(i, wall)
  PROVE  Core'
<1> USE DEF IInv
<1>1. PICK o \in Positions :
        /\ o[2] >= 1 /\ o[1] >= wall
        /\ issued' = issued \cup {o} /\ o \notin issued
        /\ inserting' = inserting \cup {o} /\ applying' = applying \cup {o}
  BY AllocateFresh
<1>2. UNCHANGED <<now, log, row, cursor, delivered, req, floors>>
  BY DEF Allocate
<1>3. now <= o[1] + MaxLag
  BY <1>1, WallType, ClockAssumption DEF TypeInv, TypeOK, Started, Positions
<1>4. \A p \in Positions : Final(p) => After(o, p)
  BY <1>1, <1>3, Recent
<1>5. ClockInv'
  BY <1>1, <1>2, <1>3 DEF ClockInv
<1>6. FinalInv'
  BY <1>2 DEF FinalInv, Final
<1>7. LoggedInv'
  BY <1>1, <1>2 DEF LoggedInv
<1>8. \A d \in Devices : /\ cursor[d] # None => After(o, cursor[d])
                         /\ row[d] # None => After(o, row[d])
  BY <1>4 DEF TypeInv, TypeOK, FinalInv
<1>9. \A f \in floors : After(o, f)
  BY <1>4 DEF TypeInv, TypeOK, FinalInv
<1>10. SkipInv'
  BY <1>1, <1>2, <1>8 DEF SkipInv
<1>11. AckedIsDelivered'
  BY <1>1, <1>2, <1>8 DEF AckedIsDelivered, Settled, BootUnderWay
<1>12. issued' \ inserting' \subseteq issued \ inserting
  BY <1>1
<1>13. NoPurgeGap'
  BY <1>2, <1>12 DEF NoPurgeGap, Settled, BootUnderWay
<1>14. FloorInv'
  BY <1>1, <1>2, <1>9 DEF FloorInv, Settled, BootUnderWay
<1>15. \A c \in Contexts : /\ After(o, req[c].bound)
                           /\ req[c].at <= o[1] + MaxLag
  BY <1>1, <1>3, <1>4, RequestFields, ClockAssumption
     DEF TypeInv, TypeOK, FinalInv, ClockInv, Positions
<1>16. PullInv'
  BY <1>1, <1>2, <1>15, RequestFields, ClockAssumption DEF PullInv, Positions
<1>17. BootInv'
  BY <1>1, <1>2, <1>9, <1>12, <1>15, RequestFields, ClockAssumption DEF BootInv, Positions
<1>18. QED
  BY <1>5, <1>6, <1>7, <1>10, <1>11, <1>13, <1>14, <1>16, <1>17 DEF Core

LEMMA SafeCommit ==
  ASSUME Deployment, IInv,
         NEW o, CommitToLog(o) \/ CommitToEntities(o)
  PROVE  Core'
<1> USE DEF IInv
<1>1. /\ UNCHANGED <<now, issued, row, cursor, delivered, req, floors>>
      /\ inserting' \subseteq inserting /\ applying' \subseteq applying
      /\ log \subseteq log' /\ inserting \ inserting' \subseteq log'
  BY DEF CommitToLog, CommitToEntities
<1>2. ClockInv' /\ FinalInv'
  BY <1>1 DEF ClockInv, FinalInv, Final
<1>3. LoggedInv'
  BY <1>1 DEF LoggedInv
<1>4. SkipInv' /\ AckedIsDelivered' /\ FloorInv'
  BY <1>1 DEF SkipInv, AckedIsDelivered, FloorInv, Settled, BootUnderWay
<1>5. issued' \ inserting' \subseteq (issued \ inserting) \cup log'
  BY <1>1
<1>6. NoPurgeGap'
  BY <1>1, <1>5 DEF NoPurgeGap, Settled, BootUnderWay
<1>7. PullInv'
  BY <1>1 DEF PullInv
<1>8. BootInv'
  BY <1>1, <1>5 DEF BootInv
<1>9. QED
  BY <1>2, <1>3, <1>4, <1>6, <1>7, <1>8 DEF Core

-----------------------------------------------------------------------------
(* The requests that only read *)

\* A step that replaces one request, outside bootReply before and after, and
\* changes nothing else: what must be shown is about the new request alone.
LEMMA OneRequest ==
  ASSUME Deployment, IInv, NEW c \in Contexts,
         UNCHANGED <<serverVars, row, cursor, delivered, floors>>,
         \A e \in Contexts \ {c} : req'[e] = req[e],
         req[c].phase # "bootReply", req'[c].phase # "bootReply",
         /\ req'[c].phase = "pullRead" => now <= req'[c].at + MaxRead
         /\ req'[c].phase \in {"bootBegun", "bootRead"} => now <= req'[c].at + MaxServe
         /\ req'[c].at <= now,
         Final(req'[c].since) /\ Final(req'[c].bound)
  PROVE  /\ ClockInv' /\ FinalInv' /\ LoggedInv' /\ SkipInv'
         /\ AckedIsDelivered' /\ NoPurgeGap' /\ FloorInv'
<1> USE DEF IInv, serverVars
<1>1. \A d \in Devices : Settled(d)' <=> Settled(d)
  BY SameSettled
<1>2. ClockInv'
  BY DEF ClockInv
<1>3. FinalInv'
  BY DEF FinalInv, Final
<1>4. LoggedInv' /\ SkipInv'
  BY DEF LoggedInv, SkipInv
<1>5. AckedIsDelivered' /\ NoPurgeGap' /\ FloorInv'
  BY <1>1 DEF AckedIsDelivered, NoPurgeGap, FloorInv
<1>6. QED
  BY <1>2, <1>3, <1>4, <1>5

\* The request is given up, refused or not yet served.
LEMMA SafeIdle ==
  ASSUME Deployment, IInv, NEW c \in Contexts,
         UNCHANGED <<serverVars, row, cursor, delivered, floors>>,
         \A e \in Contexts \ {c} : req'[e] = req[e],
         req[c].phase # "bootReply",
         req'[c].phase \in {"idle", "recover"},
         req'[c].since = Epoch, req'[c].bound = Epoch, req'[c].at = 0
  PROVE  Core'
<1> USE DEF IInv
<1>1. Final(Epoch) /\ now \in Nat
  BY EpochFinal DEF TypeInv, TypeOK
<1>2. /\ ClockInv' /\ FinalInv' /\ LoggedInv' /\ SkipInv'
      /\ AckedIsDelivered' /\ NoPurgeGap' /\ FloorInv'
  BY <1>1, OneRequest
<1>3. PullInv' /\ BootInv'
  BY DEF PullInv, BootInv, serverVars
<1>4. QED
  BY <1>2, <1>3 DEF Core

LEMMA SafePullCheck ==
  ASSUME Deployment, IInv, NEW c \in Contexts, PullCheck(c)
  PROVE  Core'
<1> DEFINE d == DeviceOf[c]
<1> USE DEF IInv
<1>1. /\ UNCHANGED <<serverVars, row, cursor, delivered, floors>>
      /\ \A e \in Contexts \ {c} : req'[e] = req[e]
      /\ req[c].phase = "idle"
      /\ cursor[d] # None
  BY DEF PullCheck, Deployment, TypeInv, TypeOK
<1>2. CASE row[d] = None
  <2>1. /\ req'[c].phase = "recover" /\ req'[c].since = Epoch
        /\ req'[c].bound = Epoch /\ req'[c].at = 0
    BY <1>2 DEF PullCheck, Idle, TypeInv, TypeOK
  <2>2. QED
    BY <1>1, <2>1, SafeIdle
<1>3. CASE row[d] # None
  <2>1. /\ req'[c].phase = "pullChecked" /\ req'[c].since = cursor[d]
        /\ req'[c].bound = Epoch /\ req'[c].at = 0
    BY <1>1, <1>3 DEF PullCheck, CursorOr, Idle, TypeInv, TypeOK
  <2>2. Final(cursor[d]) /\ Final(Epoch) /\ now \in Nat
    BY <1>1, EpochFinal, RequestFields DEF FinalInv, TypeInv, TypeOK
  <2>3. /\ ClockInv' /\ FinalInv' /\ LoggedInv' /\ SkipInv'
        /\ AckedIsDelivered' /\ NoPurgeGap' /\ FloorInv'
    BY <1>1, <2>1, <2>2, OneRequest
  <2>4. PullInv' /\ BootInv'
    BY <1>1, <2>1 DEF PullInv, BootInv, serverVars
  <2>5. QED
    BY <2>3, <2>4 DEF Core
<1>4. QED
  BY <1>2, <1>3

\* The scan misses what is still to be inserted, and nothing else: a purge has
\* not taken it, for the row exists.
LEMMA SafePullRead ==
  ASSUME Deployment, IInv, NEW c \in Contexts, PullRead(c)
  PROVE  Core'
<1> DEFINE d == DeviceOf[c]
<1> USE DEF IInv
<1>1. /\ UNCHANGED <<serverVars, row, cursor, delivered, floors>>
      /\ \A e \in Contexts \ {c} : req'[e] = req[e]
      /\ req[c].phase = "pullChecked"
      /\ req'[c].phase = "pullRead" /\ req'[c].at = now
      /\ req'[c].since = req[c].since /\ req'[c].bound = req[c].bound
      /\ req'[c].ops = {o \in log : After(o, req[c].since)}
  BY RequestFields DEF PullRead, TypeInv, TypeOK, Requests
<1>2. now \in Nat /\ d \in Devices
  BY RequestFields DEF TypeInv, TypeOK
<1>3. cursor[d] # None /\ req[c].since = cursor[d]
  BY <1>1 DEF PullInv
<1>4. /\ ClockInv' /\ FinalInv' /\ LoggedInv' /\ SkipInv'
      /\ AckedIsDelivered' /\ NoPurgeGap' /\ FloorInv'
  BY <1>1, <1>2, OneRequest, ClockAssumption DEF FinalInv
<1>5. ASSUME row[d] # None, NEW o \in issued, After(o, req[c].since)
      PROVE  o \in req'[c].ops \cup delivered[d] \/ o[1] + MaxLag >= now
  <2>1. CASE o \in inserting
    BY <2>1, InFlight, EpochFinal DEF TypeInv, TypeOK, Positions
  <2>2. CASE o \notin inserting
    <3>1. Settled(d)
      BY <1>1, <1>3, OneContext DEF Settled
    <3>2. o \in log \cup delivered[d]
      BY <1>2, <1>3, <1>5, <2>2, <3>1 DEF NoPurgeGap
    <3>3. QED
      BY <1>1, <1>5, <3>2
  <2>3. QED
    BY <2>1, <2>2
<1>6. PullInv'
  BY <1>1, <1>3, <1>5 DEF PullInv, serverVars
<1>7. BootInv'
  BY <1>1 DEF BootInv, serverVars
<1>8. QED
  BY <1>4, <1>6, <1>7 DEF Core

LEMMA SafeBootBegin ==
  ASSUME Deployment, IInv, NEW c \in Contexts, NEW wall \in Walls, BootBegin(c, wall)
  PROVE  Core'
<1> DEFINE d == DeviceOf[c]
           heldBack == Boundary(wall - Holdback)
           bound == IF row[d] = None THEN heldBack ELSE Later(row[d], heldBack)
<1> USE DEF IInv
<1>1. /\ UNCHANGED <<serverVars, row, cursor, delivered, floors>>
      /\ \A e \in Contexts \ {c} : req'[e] = req[e]
      /\ req[c].phase \in {"recover", "idle"}
      /\ req'[c].phase = "bootBegun" /\ req'[c].at = now
      /\ req'[c].since = Epoch /\ req'[c].bound = bound
  BY DEF BootBegin, Idle, TypeInv, TypeOK
<1>2. now \in Nat /\ d \in Devices
  BY RequestFields DEF TypeInv, TypeOK
<1>3. Final(Epoch) /\ Final(heldBack)
  BY EpochFinal, PastIsFinal, WallType, ClockAssumption DEF TypeInv, TypeOK, Started
<1>4. Final(bound)
  BY <1>2, <1>3 DEF Later, FinalInv
<1>5. /\ ClockInv' /\ FinalInv' /\ LoggedInv' /\ SkipInv'
      /\ AckedIsDelivered' /\ NoPurgeGap' /\ FloorInv'
  BY <1>1, <1>2, <1>3, <1>4, OneRequest, ClockAssumption
<1>6. PullInv' /\ BootInv'
  BY <1>1 DEF PullInv, BootInv, serverVars
<1>7. QED
  BY <1>5, <1>6 DEF Core

\* The snapshot misses what has still to reach the entities, and that is
\* after the cursor fixed before it.
LEMMA SafeBootRead ==
  ASSUME Deployment, IInv, NEW c \in Contexts, BootRead(c)
  PROVE  Core'
<1> USE DEF IInv
<1>1. /\ UNCHANGED <<serverVars, row, cursor, delivered, floors>>
      /\ \A e \in Contexts \ {c} : req'[e] = req[e]
      /\ req[c].phase = "bootBegun" /\ req'[c].phase = "bootRead"
      /\ req'[c].at = req[c].at /\ req'[c].since = req[c].since
      /\ req'[c].bound = req[c].bound /\ req'[c].ops = issued \ applying
  BY RequestFields DEF BootRead, TypeInv, TypeOK, Requests
<1>2. /\ req[c].at <= now /\ now <= req[c].at + MaxServe
      /\ Final(req[c].since) /\ Final(req[c].bound)
  BY <1>1 DEF ClockInv, FinalInv
<1>3. /\ ClockInv' /\ FinalInv' /\ LoggedInv' /\ SkipInv'
      /\ AckedIsDelivered' /\ NoPurgeGap' /\ FloorInv'
  BY <1>1, <1>2, OneRequest
<1>4. PullInv'
  BY <1>1 DEF PullInv, serverVars
<1>5. \A o \in issued \ req'[c].ops : After(o, req[c].bound) /\ o[1] + MaxLag >= req[c].at
  <2>1. ASSUME NEW o \in applying
        PROVE  After(o, req[c].bound) /\ o[1] + MaxLag >= req[c].at
    <3>1. After(o, req[c].bound) /\ now <= o[1] + MaxLag
      BY <1>2, RequestFields, InFlight
    <3>2. o[1] \in Nat /\ req[c].at \in Nat /\ now \in Nat
      BY RequestFields DEF TypeInv, TypeOK, Positions
    <3>3. QED
      BY <1>2, <3>1, <3>2, ClockAssumption
  <2>2. QED
    BY <1>1, <2>1
<1>6. issued \ inserting \subseteq log \cup req'[c].ops
  BY <1>1 DEF LoggedInv
<1>7. BootInv'
  BY <1>1, <1>5, <1>6 DEF BootInv, serverVars
<1>8. QED
  BY <1>3, <1>4, <1>7 DEF Core

-----------------------------------------------------------------------------
(* The pull's answer *)

\* What the scan missed is after the boundary computed when it was over.
LEMMA SafePullRecord ==
  ASSUME Deployment, IInv, NEW c \in Contexts, NEW wall \in Walls, PullRecord(c, wall)
  PROVE  Core'
<1> DEFINE d == DeviceOf[c]
<1> USE DEF IInv
<1>1. PICK bound \in Advertised(req[c].ops, req[c].since, wall) :
        req' = [req EXCEPT ![c] = [@ EXCEPT !.phase = "pullReply", !.bound = bound, !.at = 0]]
  BY DEF PullRecord
<1>2. /\ UNCHANGED <<serverVars, cursor, delivered, floors>>
      /\ row[d] # None /\ req[c].phase = "pullRead"
      /\ row' = [row EXCEPT ![d] = req[c].since]
      /\ \A e \in Contexts \ {c} : req'[e] = req[e]
      /\ req'[c].phase = "pullReply" /\ req'[c].at = 0 /\ req'[c].bound = bound
      /\ req'[c].since = req[c].since /\ req'[c].ops = req[c].ops
  BY ZenonT(30), <1>1, RequestFields DEF PullRecord, TypeInv, TypeOK, Requests
<1>3. now \in Nat /\ d \in Devices /\ wall - Holdback \in Nat /\ wall <= now
  BY RequestFields, WallType DEF TypeInv, TypeOK, Started
<1>4. cursor[d] # None /\ req[c].since = cursor[d] /\ Final(cursor[d])
  BY <1>2, <1>3 DEF PullInv, FinalInv
<1>5. /\ bound \in Positions
      /\ bound = req[c].since \/ ~After(bound, Boundary(wall - Holdback))
  <2>1. req[c].ops \subseteq Positions /\ req[c].since \in Positions /\ wall \in Int
    BY RequestFields, WallType DEF TypeInv, TypeOK, Started
  <2>2. QED
    BY <1>3, <2>1, AdvertisedType
<1>6. Final(bound)
  <2>1. CASE bound = req[c].since
    BY <2>1, <1>4
  <2>2. CASE ~After(bound, Boundary(wall - Holdback))
    <3>1. now - Holdback \in Nat /\ wall \in Nat /\ wall - Holdback <= now - Holdback
      BY <1>3, WallType, ClockAssumption DEF TypeInv, Started
    <3>2. Boundary(wall - Holdback) \in Positions /\ Final(Boundary(wall - Holdback))
      BY <1>3, <3>1, PastIsFinal
    <3>3. Boundary(now - Holdback) \in Positions
      BY <3>1, BoundaryType
    <3>4. QED
      BY <1>5, <2>2, <3>2, <3>3, AfterOrder DEF Final
  <2>3. QED
    BY <1>5, <2>1, <2>2
<1>7. \A e \in Devices : Settled(e)' <=> Settled(e)
  BY <1>2, SameSettled
<1>8. \A e \in Devices : row'[e] = IF e = d THEN cursor[d] ELSE row[e]
  BY <1>2, <1>4 DEF TypeInv, TypeOK
<1>9. ClockInv'
  BY <1>2, <1>3 DEF ClockInv, serverVars
<1>10. FinalInv'
  BY <1>2, <1>4, <1>6, <1>8 DEF FinalInv, Final, serverVars
<1>11. LoggedInv' /\ SkipInv'
  BY <1>2 DEF LoggedInv, SkipInv, serverVars
<1>12. AckedIsDelivered'
  BY <1>2, <1>4, <1>7, <1>8 DEF AckedIsDelivered, SkipInv, serverVars
<1>13. NoPurgeGap' /\ FloorInv'
  BY <1>2, <1>7, <1>8 DEF NoPurgeGap, FloorInv, serverVars
<1>14. ASSUME NEW o \in issued, After(o, req[c].since), ~After(o, bound)
       PROVE  o \in req[c].ops \cup delivered[d]
  <2>1. SUFFICES ASSUME o \notin req[c].ops \cup delivered[d] PROVE FALSE
    OBVIOUS
  <2>2. o[1] + MaxLag >= req[c].at /\ now <= req[c].at + MaxRead
    BY <1>2, <1>14, <2>1 DEF PullInv, ClockInv
  <2>3. MaxRead + MaxLag <= Holdback /\ MaxRead \in Nat /\ req[c].at \in Nat
    BY RequestFields, ClockAssumption DEF Deployment
  <2>4. After(o, bound)
    BY <1>5, <1>6, <2>2, <2>3, Elapsed
  <2>5. QED
    BY <2>4, <1>14
<1>15. PullInv'
  BY <1>2, <1>4, <1>8, <1>14, OneContext, RequestFields DEF PullInv, serverVars
<1>16. BootInv'
  BY <1>2, <1>8, OneContext, RequestFields DEF BootInv, serverVars
<1>17. QED
  BY <1>9, <1>10, <1>11, <1>12, <1>13, <1>15, <1>16 DEF Core

LEMMA SafePullApply ==
  ASSUME Deployment, IInv, NEW c \in Contexts, PullApply(c)
  PROVE  Core'
<1> DEFINE d == DeviceOf[c]
           r == req[c]
<1> USE DEF IInv
<1>1. /\ UNCHANGED <<serverVars, row, floors>>
      /\ r.phase = "pullReply" /\ req'[c] = Idle
      /\ \A e \in Contexts \ {c} : req'[e] = req[e]
      /\ delivered' = [delivered EXCEPT ![d] = @ \cup r.ops]
      /\ cursor' = [cursor EXCEPT ![d] = IF After(r.bound, CursorOr(d)) THEN r.bound ELSE @]
  BY DEF PullApply, TypeInv, TypeOK
<1>2. /\ d \in Devices /\ r.ops \subseteq issued /\ r.bound \in Positions
      /\ Final(Epoch) /\ Final(r.bound) /\ now \in Nat
  BY RequestFields, EpochFinal DEF FinalInv, TypeInv, TypeOK
<1>3. /\ cursor[d] # None /\ r.since = cursor[d] /\ CursorOr(d) = cursor[d]
      /\ cursor[d] \in Positions /\ Settled(d)
  BY <1>1, <1>2, OneContext DEF PullInv, CursorOr, Settled, TypeInv, TypeOK
<1>4. /\ \A e \in Devices : delivered'[e] = IF e = d THEN delivered[d] \cup r.ops ELSE delivered[e]
      /\ \A e \in Devices \ {d} : cursor'[e] = cursor[e]
      /\ cursor'[d] = IF After(r.bound, cursor[d]) THEN r.bound ELSE cursor[d]
  BY <1>1, <1>2, <1>3 DEF TypeInv, TypeOK
<1>5. cursor'[d] # None /\ cursor'[d] \in Positions /\ Final(cursor'[d])
  BY <1>2, <1>3, <1>4, NoneAssumption DEF FinalInv
<1>6. \A e \in Devices : Settled(e)' => Settled(e)
  BY <1>1, <1>3, <1>4 DEF Settled, BootUnderWay, Idle
<1>7. ClockInv'
  BY <1>1, <1>2 DEF ClockInv, Idle, serverVars
<1>8. FinalInv'
  BY <1>1, <1>2, <1>4, <1>5 DEF FinalInv, Final, Idle, serverVars
<1>9. LoggedInv'
  BY <1>1 DEF LoggedInv, serverVars
<1>10. \A o \in issued : ~After(o, cursor'[d]) => o \in delivered'[d]
  BY <1>1, <1>2, <1>3, <1>4 DEF PullInv, SkipInv
<1>11. SkipInv'
  BY <1>1, <1>4, <1>10 DEF SkipInv, serverVars
<1>12. AckedIsDelivered' /\ FloorInv'
  BY <1>1, <1>4, <1>6 DEF AckedIsDelivered, FloorInv, serverVars
<1>13. \A o \in issued : After(o, cursor'[d]) => After(o, cursor[d])
  <2>1. issued \subseteq Positions
    BY DEF TypeInv, TypeOK
  <2>2. QED  BY <1>2, <1>3, <1>4, <2>1, AfterAdvance
<1>14. NoPurgeGap'
  BY <1>1, <1>4, <1>6, <1>13 DEF NoPurgeGap, serverVars
<1>15. PullInv'
  BY <1>1, <1>4, OneContext, RequestFields DEF PullInv, Idle, serverVars
<1>16. BootInv'
  BY <1>1 DEF BootInv, Idle, serverVars
<1>17. QED
  BY <1>7, <1>8, <1>9, <1>11, <1>12, <1>14, <1>15, <1>16 DEF Core

-----------------------------------------------------------------------------
(* The bootstrap's answer, and rows, purges and wipes *)

\* Whatever a bootstrap's snapshot lacks is after what is final while the
\* request is on the server.
LEMMA SnapshotGap ==
  ASSUME Deployment, IInv, NEW c \in Contexts, req[c].phase = "bootRead",
         NEW p \in Positions, Final(p), NEW o \in issued, ~After(o, p)
  PROVE  o \in req[c].ops
<1> USE DEF IInv
<1>1. SUFFICES ASSUME o \notin req[c].ops PROVE FALSE
  OBVIOUS
<1>2. o[1] + MaxLag >= req[c].at /\ now <= req[c].at + MaxServe
  BY <1>1 DEF BootInv, ClockInv
<1>3. MaxServe + MaxLag <= Holdback /\ MaxServe \in Nat /\ req[c].at \in Nat
  BY RequestFields, ClockAssumption DEF Deployment
<1>4. After(o, p)
  BY <1>2, <1>3, Elapsed
<1>5. QED
  BY <1>4

LEMMA SafeBootRegister ==
  ASSUME Deployment, IInv, NEW c \in Contexts, BootRegister(c)
  PROVE  Core'
<1> DEFINE d == DeviceOf[c]
           r == req[c]
<1> USE DEF IInv
<1>1. /\ UNCHANGED <<serverVars, cursor, delivered, floors>>
      /\ r.phase = "bootRead" /\ req'[c].phase = "bootReply"
      /\ req'[c].at = r.at /\ req'[c].since = r.since
      /\ req'[c].bound = r.bound /\ req'[c].ops = r.ops
      /\ \A e \in Contexts \ {c} : req'[e] = req[e]
      /\ row' = [row EXCEPT ![d] = r.bound]
  BY RequestFields DEF BootRegister, TypeInv, TypeOK, Requests
<1>2. d \in Devices /\ Final(r.bound) /\ Final(r.since) /\ r.at <= now
  BY RequestFields DEF FinalInv, ClockInv
<1>3. \A e \in Devices : row'[e] = IF e = d THEN r.bound ELSE row[e]
  BY <1>1, <1>2 DEF TypeInv, TypeOK
<1>4. ~Settled(d)' /\ \A e \in Devices \ {d} : Settled(e)' => Settled(e)
  BY <1>1 DEF Settled, BootUnderWay
<1>5. ClockInv'
  BY <1>1, <1>2 DEF ClockInv, serverVars
<1>6. FinalInv'
  BY <1>1, <1>2, <1>3 DEF FinalInv, Final, serverVars
<1>7. LoggedInv' /\ SkipInv'
  BY <1>1 DEF LoggedInv, SkipInv, serverVars
<1>8. AckedIsDelivered' /\ NoPurgeGap' /\ FloorInv'
  BY <1>1, <1>3, <1>4 DEF AckedIsDelivered, NoPurgeGap, FloorInv, serverVars
<1>9. PullInv'
  BY <1>1, <1>3, OneContext, RequestFields DEF PullInv, serverVars
<1>10. ASSUME NEW f \in floors, NEW o \in issued, ~After(o, f)
       PROVE  o \in r.ops
  BY <1>1, <1>10, SnapshotGap DEF FinalInv, TypeInv, TypeOK
<1>11. BootInv'
  <2>1. /\ \A o \in issued \ r.ops : After(o, r.bound) /\ o[1] + MaxLag >= r.at
        /\ issued \ inserting \subseteq log \cup r.ops
    BY <1>1 DEF BootInv
  <2>2. QED
    BY <1>1, <1>2, <1>3, <1>10, <2>1, OneContext, RequestFields DEF BootInv, serverVars
<1>12. QED
  BY <1>5, <1>6, <1>7, <1>8, <1>9, <1>11 DEF Core

LEMMA SafeBootApply ==
  ASSUME Deployment, IInv, NEW c \in Contexts, BootApply(c)
  PROVE  Core'
<1> DEFINE d == DeviceOf[c]
           r == req[c]
<1> USE DEF IInv
<1>1. /\ UNCHANGED <<serverVars, row, floors>>
      /\ r.phase = "bootReply" /\ req'[c] = Idle
      /\ \A e \in Contexts \ {c} : req'[e] = req[e]
      /\ delivered' = [delivered EXCEPT ![d] = r.ops]
      /\ cursor' = [cursor EXCEPT ![d] = r.bound]
  BY DEF BootApply, TypeInv, TypeOK
<1>2. /\ d \in Devices /\ Final(Epoch) /\ Final(r.bound) /\ now \in Nat
      /\ r.ops \subseteq issued
  BY RequestFields, EpochFinal DEF FinalInv, TypeInv, TypeOK
<1>3. /\ \A e \in Devices : delivered'[e] = IF e = d THEN r.ops ELSE delivered[e]
      /\ \A e \in Devices : cursor'[e] = IF e = d THEN r.bound ELSE cursor[e]
  BY <1>1, <1>2 DEF TypeInv, TypeOK
<1>4. \A e \in Devices \ {d} : Settled(e)' <=> Settled(e)
  BY <1>1, <1>3 DEF Settled, BootUnderWay
<1>5. /\ \A o \in issued : ~After(o, r.bound) => o \in r.ops
      /\ row[d] # None =>
           /\ row[d] = r.bound
           /\ issued \ inserting \subseteq log \cup r.ops
           /\ \A f \in floors : \A o \in issued : ~After(o, f) => o \in r.ops
  BY <1>1 DEF BootInv
<1>6. ClockInv'
  BY <1>1, <1>2 DEF ClockInv, Idle, serverVars
<1>7. FinalInv'
  BY <1>1, <1>2, <1>3 DEF FinalInv, Final, Idle, serverVars
<1>8. LoggedInv'
  BY <1>1 DEF LoggedInv, serverVars
<1>9. SkipInv'
  BY <1>1, <1>3, <1>5 DEF SkipInv, serverVars
<1>10. AckedIsDelivered'
  BY <1>1, <1>3, <1>4, <1>5 DEF AckedIsDelivered, serverVars
<1>11. NoPurgeGap'
  BY <1>1, <1>3, <1>4, <1>5 DEF NoPurgeGap, serverVars
<1>12. FloorInv'
  BY <1>1, <1>3, <1>4, <1>5 DEF FloorInv, serverVars
<1>13. PullInv' /\ BootInv'
  BY <1>1, <1>3, OneContext, RequestFields DEF PullInv, BootInv, Idle, serverVars
<1>14. QED
  BY <1>6, <1>7, <1>8, <1>9, <1>10, <1>11, <1>12, <1>13 DEF Core

\* Without anomalies a bootstrap is lost only where there is no cursor yet.
LEMMA SafeBootLost ==
  ASSUME Deployment, IInv, NEW c \in Contexts, BootLost(c)
  PROVE  Core'
<1> DEFINE d == DeviceOf[c]
<1> USE DEF IInv
<1>1. /\ UNCHANGED <<serverVars, row, cursor, delivered, floors>>
      /\ req'[c] = Idle /\ cursor[d] = None
      /\ \A e \in Contexts \ {c} : req'[e] = req[e]
  BY DEF BootLost, Deployment, TypeInv, TypeOK
<1>2. /\ ~Settled(d) /\ ~Settled(d)'
      /\ \A e \in Devices \ {d} : Settled(e)' <=> Settled(e)
  BY <1>1 DEF Settled, BootUnderWay, Idle
<1>3. Final(Epoch) /\ now \in Nat
  BY EpochFinal DEF TypeInv, TypeOK
<1>4. ClockInv' /\ FinalInv' /\ LoggedInv' /\ SkipInv'
  BY <1>1, <1>3 DEF ClockInv, FinalInv, LoggedInv, SkipInv, Final, Idle, serverVars
<1>5. AckedIsDelivered' /\ NoPurgeGap' /\ FloorInv'
  BY <1>1, <1>2 DEF AckedIsDelivered, NoPurgeGap, FloorInv, serverVars
<1>6. PullInv' /\ BootInv'
  BY <1>1 DEF PullInv, BootInv, Idle, serverVars
<1>7. QED
  BY <1>4, <1>5, <1>6 DEF Core

LEMMA SafeDropRow ==
  ASSUME Deployment, IInv, NEW d \in Devices, DropRow(d)
  PROVE  Core'
<1> USE DEF IInv
<1>1. /\ UNCHANGED <<serverVars, cursor, delivered, req, floors>>
      /\ \A e \in Devices : row'[e] = row[e] \/ row'[e] = None
  BY DEF DropRow, TypeInv, TypeOK
<1>2. \A e \in Devices : Settled(e)' <=> Settled(e)
  BY <1>1 DEF Settled, BootUnderWay
<1>3. ClockInv' /\ FinalInv' /\ LoggedInv' /\ SkipInv'
  BY <1>1 DEF ClockInv, FinalInv, LoggedInv, SkipInv, Final, serverVars
<1>4. AckedIsDelivered' /\ NoPurgeGap' /\ FloorInv'
  BY <1>1, <1>2 DEF AckedIsDelivered, NoPurgeGap, FloorInv, serverVars
<1>5. PullInv' /\ BootInv'
  BY <1>1, RequestFields DEF PullInv, BootInv, serverVars
<1>6. QED
  BY <1>3, <1>4, <1>5 DEF Core

LEMMA SafeWipe ==
  ASSUME Deployment, IInv, NEW d \in Devices, Wipe(d)
  PROVE  Core'
<1> USE DEF IInv
<1>1. /\ UNCHANGED <<serverVars, row, floors>>
      /\ \A e \in Devices : cursor'[e] = IF e = d THEN None ELSE cursor[e]
      /\ \A e \in Devices \ {d} : delivered'[e] = delivered[e]
      /\ \A c \in Contexts : req'[c] = IF DeviceOf[c] = d THEN Idle ELSE req[c]
  BY DEF Wipe, TypeInv, TypeOK
<1>2. ~Settled(d)' /\ \A e \in Devices \ {d} : Settled(e)' <=> Settled(e)
  BY <1>1 DEF Settled, BootUnderWay
<1>3. Final(Epoch) /\ now \in Nat
  BY EpochFinal DEF TypeInv, TypeOK
<1>4. ClockInv' /\ FinalInv'
  BY <1>1, <1>3 DEF ClockInv, FinalInv, Final, Idle, serverVars
<1>5. LoggedInv' /\ SkipInv'
  BY <1>1 DEF LoggedInv, SkipInv, serverVars
<1>6. AckedIsDelivered' /\ NoPurgeGap' /\ FloorInv'
  BY <1>1, <1>2 DEF AckedIsDelivered, NoPurgeGap, FloorInv, serverVars
<1>7. PullInv' /\ BootInv'
  BY <1>1, RequestFields DEF PullInv, BootInv, Idle, serverVars
<1>8. QED
  BY <1>4, <1>5, <1>6, <1>7 DEF Core

\* The floor is the slowest row: every settled device holds all up to it, and
\* so does every snapshot under way to a registered device.
LEMMA SafeReadFloor ==
  ASSUME Deployment, IInv, NEW d \in Devices, ReadFloor(d)
  PROVE  Core'
<1> USE DEF IInv
<1>1. /\ UNCHANGED <<serverVars, row, cursor, delivered, req>>
      /\ row[d] # None /\ floors' = floors \cup {row[d]}
      /\ \A e \in Devices : row[e] # None => ~After(row[d], row[e])
  BY DEF ReadFloor, Registered
<1>2. \A e \in Devices : Settled(e)' <=> Settled(e)
  BY <1>1 DEF Settled, BootUnderWay
<1>3. \A e \in Devices : row[e] # None =>
        \A o \in issued : ~After(o, row[d]) => ~After(o, row[e])
  <2>1. /\ \A e \in Devices : row[e] # None => row[e] \in Positions
        /\ \A o \in issued : o \in Positions
    BY DEF TypeInv, TypeOK
  <2>2. QED
    BY <1>1, <2>1, AfterOrder
<1>4. ClockInv' /\ FinalInv' /\ LoggedInv' /\ SkipInv'
  BY <1>1 DEF ClockInv, FinalInv, LoggedInv, SkipInv, Final, serverVars
<1>5. AckedIsDelivered' /\ NoPurgeGap'
  BY <1>1, <1>2 DEF AckedIsDelivered, NoPurgeGap, serverVars
<1>6. FloorInv'
  BY <1>1, <1>2, <1>3 DEF FloorInv, AckedIsDelivered, serverVars
<1>7. PullInv'
  BY <1>1 DEF PullInv, serverVars
<1>8. \A c \in Contexts : req[c].phase = "bootReply" /\ row[DeviceOf[c]] # None =>
        \A o \in issued : ~After(o, row[d]) => o \in req[c].ops
  BY <1>3, RequestFields DEF BootInv
<1>9. BootInv'
  BY <1>1, <1>8 DEF BootInv, serverVars
<1>10. QED
  BY <1>4, <1>5, <1>6, <1>7, <1>9 DEF Core

\* A purge takes nothing a registered device, or a snapshot on its way to one,
\* does not hold.
LEMMA SafePurge ==
  ASSUME Deployment, IInv, NEW f \in floors, Purge(f)
  PROVE  Core'
<1> USE DEF IInv
<1>1. /\ UNCHANGED <<now, alloc, issued, inserting, applying, row, cursor, delivered, req>>
      /\ log' = {o \in log : After(o, f)} /\ floors' \subseteq floors
      /\ f \in Positions /\ Final(f)
  BY DEF Purge, FinalInv, TypeInv, TypeOK
<1>2. \A e \in Devices : Settled(e)' <=> Settled(e)
  BY <1>1 DEF Settled, BootUnderWay
<1>3. ClockInv' /\ FinalInv' /\ SkipInv'
  BY <1>1 DEF ClockInv, FinalInv, SkipInv, Final
<1>4. LoggedInv'
  BY <1>1, InFlight DEF LoggedInv
<1>5. AckedIsDelivered' /\ FloorInv'
  BY <1>1, <1>2 DEF AckedIsDelivered, FloorInv
<1>6. NoPurgeGap'
  <2>1. ASSUME NEW e \in Devices, Settled(e), row[e] # None,
               NEW o \in issued \ inserting, After(o, cursor[e])
        PROVE  o \in log' \cup delivered[e]
    BY <1>1, <2>1 DEF NoPurgeGap, FloorInv
  <2>2. QED
    BY <1>1, <1>2, <2>1 DEF NoPurgeGap
<1>7. PullInv'
  BY <1>1 DEF PullInv
<1>8. ASSUME NEW c \in Contexts,
             req[c].phase = "bootRead" \/ (req[c].phase = "bootReply" /\ row[DeviceOf[c]] # None),
             NEW o \in issued, ~After(o, f)
      PROVE  o \in req[c].ops
  BY <1>1, <1>8, SnapshotGap DEF BootInv
<1>9. BootInv'
  BY <1>1, <1>8 DEF BootInv
<1>10. QED
  BY <1>3, <1>4, <1>5, <1>6, <1>7, <1>9 DEF Core

-----------------------------------------------------------------------------
(* The theorems *)

LEMMA SafeStep ==
  ASSUME Deployment, IInv, [Next]_vars
  PROVE  IInv'
<1>1. TypeInv'
  BY TypeStep DEF IInv
<1>2. ASSUME NEW c \in Contexts, PullStep(c) \/ BootStep(c) \/ PullLost(c) \/ BootLost(c)
      PROVE  Core'
  <2>1. CASE PullRefused(c) \/ PullLost(c)
    <3>1. /\ UNCHANGED <<serverVars, row, cursor, delivered, floors>>
          /\ \A e \in Contexts \ {c} : req'[e] = req[e]
          /\ req[c].phase # "bootReply" /\ req'[c].phase \in {"idle", "recover"}
          /\ req'[c].since = Epoch /\ req'[c].bound = Epoch /\ req'[c].at = 0
      BY <2>1 DEF PullRefused, PullLost, Idle, IInv, TypeInv, TypeOK
    <3>2. QED
      BY <3>1, SafeIdle
  <2>2. QED
    BY <1>2, <2>1, SafePullCheck, SafePullRead, SafePullRecord, SafePullApply,
       SafeBootBegin, SafeBootRead, SafeBootRegister, SafeBootApply, SafeBootLost
       DEF PullStep, BootStep
<1>3. ASSUME UNCHANGED vars
      PROVE  Core'
  <2> USE DEF IInv
  <2>1. UNCHANGED <<serverVars, row, cursor, delivered, req, floors>>
    BY <1>3 DEF vars
  <2>2. \A d \in Devices : Settled(d)' <=> Settled(d)
    BY <2>1 DEF Settled, BootUnderWay
  <2>3. ClockInv' /\ FinalInv' /\ LoggedInv' /\ SkipInv'
    BY <2>1 DEF ClockInv, FinalInv, LoggedInv, SkipInv, Final, serverVars
  <2>4. AckedIsDelivered' /\ NoPurgeGap' /\ FloorInv'
    BY <2>1, <2>2 DEF AckedIsDelivered, NoPurgeGap, FloorInv, serverVars
  <2>5. PullInv' /\ BootInv'
    BY <2>1 DEF PullInv, BootInv, serverVars
  <2>6. QED
    BY <2>3, <2>4, <2>5 DEF Core
<1>4. Core'
  <2>1. CASE Tick
    BY <2>1, SafeTick
  <2>2. CASE \E i \in Instances : \E wall \in Walls : Allocate(i, wall)
    BY <2>2, SafeAllocate
  <2>3. CASE \/ \E o \in inserting : CommitToLog(o)
             \/ \E o \in applying : CommitToEntities(o)
    <3>1. PICK o : CommitToLog(o) \/ CommitToEntities(o)
      BY <2>3, Zenon
    <3>2. QED
      BY <3>1, SafeCommit
  <2>4. CASE \E c \in Contexts : PullStep(c) \/ BootStep(c) \/ PullLost(c) \/ BootLost(c)
    BY <2>4, <1>2
  <2>5. CASE \E d \in Devices : DropRow(d) \/ Wipe(d) \/ ReadFloor(d)
    BY <2>5, SafeDropRow, SafeWipe, SafeReadFloor
  <2>6. CASE \E f \in floors : Purge(f)
    BY <2>6, SafePurge
  <2>7. QED
    BY <1>3, <2>1, <2>2, <2>3, <2>4, <2>5, <2>6 DEF Next
<1>5. QED
  BY <1>1, <1>4 DEF IInv, Core

\* Every state of a deployment satisfies the inductive invariant.
THEOREM Invariance == Deployment => (Spec => []IInv)
<1>1. Deployment /\ IInv /\ [Next]_vars => IInv'
  BY SafeStep
<1>2. Init => IInv
  BY InitSafe
<1>3. ASSUME Deployment
      PROVE  Spec => []IInv
  <2>1. IInv /\ [Next]_vars => IInv'
    BY <1>1, <1>3
  <2>2. QED
    BY <1>2, <2>1, PTL DEF Spec
<1>4. QED
  BY <1>3

\* No device ever skips an operation: whatever commits, however late within the
\* lag the holdback allows for, commits after every cursor.
THEOREM NothingSkipped == Deployment => (Spec => []NoSkippedOperation)
<1>1. IInv => NoSkippedOperation
  BY DEF IInv, SkipInv, NoSkippedOperation, Settled
<1>2. ASSUME Deployment
      PROVE  Spec => []NoSkippedOperation
  <2>1. Spec => []IInv
    BY <1>2, Invariance
  <2>2. QED
    BY <1>1, <2>1, PTL
<1>3. QED
  BY <1>2

\* The row of a device never claims more than the device holds.
THEOREM AckedDelivered == Deployment => (Spec => []AckedIsDelivered)
<1>1. IInv => AckedIsDelivered
  BY DEF IInv
<1>2. ASSUME Deployment
      PROVE  Spec => []AckedIsDelivered
  <2>1. Spec => []IInv
    BY <1>2, Invariance
  <2>2. QED
    BY <1>1, <2>1, PTL
<1>3. QED
  BY <1>2

\* The purge never opens a gap under a registered device.
THEOREM PurgeSafe == Deployment => (Spec => []NoPurgeGap)
<1>1. IInv => NoPurgeGap
  BY DEF IInv
<1>2. ASSUME Deployment
      PROVE  Spec => []NoPurgeGap
  <2>1. Spec => []IInv
    BY <1>2, Invariance
  <2>2. QED
    BY <1>1, <2>1, PTL
<1>3. QED
  BY <1>2

-----------------------------------------------------------------------------
(* Several contexts over one cursor *)

Shared ==
  /\ ClockInv /\ ReplyInv /\ FinalInv /\ LoggedInv
  /\ NoSkippedOperation /\ AckedIsDelivered /\ NoPurgeGap /\ FloorInv
  /\ ScanInv /\ SnapshotInv /\ ShareInv

\* Whatever a snapshot lacks is after what is final, until it is applied.
LEMMA PromptSnapshot ==
  ASSUME PromptDeployment, TabsInv, NEW c \in Contexts, req[c].phase \in {"bootRead", "bootReply"},
         NEW p \in Positions, Final(p), NEW o \in issued, ~After(o, p)
  PROVE  o \in req[c].ops
<1> USE DEF TabsInv
<1>1. SUFFICES ASSUME o \notin req[c].ops PROVE FALSE
  OBVIOUS
<1>2. /\ MaxServe + MaxReply \in Nat /\ MaxServe \in Nat /\ MaxReply \in Nat /\ now \in Nat
      /\ MaxServe + MaxReply + MaxLag <= Holdback /\ req[c].at \in Nat
  BY RequestFields, ClockAssumption DEF PromptDeployment, TypeInv, TypeOK
<1>3. o[1] + MaxLag >= req[c].at
  BY <1>1 DEF SnapshotInv
<1>4. now <= req[c].at + (MaxServe + MaxReply)
  BY <1>2 DEF ClockInv, ReplyInv
<1>5. After(o, p)
  BY <1>2, <1>3, <1>4, Elapsed
<1>6. QED
  BY <1>5

LEMMA InitShared ==
  ASSUME Init
  PROVE  TabsInv
<1>1. TypeInv /\ ClockInv /\ FinalInv /\ LoggedInv /\ AckedIsDelivered /\ NoPurgeGap /\ FloorInv
  BY InitSafe DEF IInv
<1>2. NoSkippedOperation
  BY DEF Init, NoSkippedOperation, Settled
<1>3. ReplyInv /\ ScanInv /\ SnapshotInv /\ ShareInv
  BY DEF Init, ReplyInv, ScanInv, SnapshotInv, ShareInv, Idle
<1>4. QED
  BY <1>1, <1>2, <1>3 DEF TabsInv

\* A step that replaces one request, outside bootReply before and after, and
\* changes nothing else: what must be shown is about the new request alone.
LEMMA SharedRequest ==
  ASSUME PromptDeployment, TabsInv, NEW c \in Contexts,
         UNCHANGED <<serverVars, row, cursor, delivered, floors>>,
         \A e \in Contexts \ {c} : req'[e] = req[e],
         req[c].phase # "bootReply", req'[c].phase # "bootReply",
         /\ req'[c].phase = "pullRead" => now <= req'[c].at + MaxRead
         /\ req'[c].phase \in {"bootBegun", "bootRead"} => now <= req'[c].at + MaxServe
         /\ req'[c].at <= now,
         Final(req'[c].since) /\ Final(req'[c].bound)
  PROVE  /\ ClockInv' /\ ReplyInv' /\ FinalInv' /\ LoggedInv' /\ NoSkippedOperation'
         /\ AckedIsDelivered' /\ NoPurgeGap' /\ FloorInv'
         /\ \A d \in Devices : BootUnderWay(d)' <=> BootUnderWay(d)
<1> USE DEF TabsInv, serverVars
<1>1. \A d \in Devices : Settled(d)' <=> Settled(d)
  BY SameSettled
<1>2. ClockInv' /\ ReplyInv'
  BY DEF ClockInv, ReplyInv
<1>3. FinalInv'
  BY DEF FinalInv, Final
<1>4. LoggedInv'
  BY DEF LoggedInv
<1>5. NoSkippedOperation' /\ AckedIsDelivered' /\ NoPurgeGap' /\ FloorInv'
  BY <1>1 DEF NoSkippedOperation, AckedIsDelivered, NoPurgeGap, FloorInv
<1>6. \A d \in Devices : BootUnderWay(d)' <=> BootUnderWay(d)
  BY DEF BootUnderWay
<1>7. QED
  BY <1>2, <1>3, <1>4, <1>5, <1>6

\* The request is given up, refused or not yet served.
LEMMA SharedIdle ==
  ASSUME PromptDeployment, TabsInv, NEW c \in Contexts,
         UNCHANGED <<serverVars, row, cursor, delivered, floors>>,
         \A e \in Contexts \ {c} : req'[e] = req[e],
         req[c].phase # "bootReply",
         req'[c].phase \in {"idle", "recover"},
         req'[c].since = Epoch, req'[c].bound = Epoch, req'[c].at = 0
  PROVE  Shared'
<1> USE DEF TabsInv
<1>1. Final(Epoch) /\ now \in Nat
  BY EpochFinal DEF TypeInv, TypeOK
<1>2. /\ ClockInv' /\ ReplyInv' /\ FinalInv' /\ LoggedInv' /\ NoSkippedOperation'
      /\ AckedIsDelivered' /\ NoPurgeGap' /\ FloorInv'
      /\ \A d \in Devices : BootUnderWay(d)' <=> BootUnderWay(d)
  BY <1>1, SharedRequest
<1>3. ScanInv' /\ SnapshotInv'
  BY DEF ScanInv, SnapshotInv, serverVars
<1>4. ShareInv'
  BY <1>2, DeviceAssumption DEF ShareInv, serverVars
<1>5. QED
  BY <1>2, <1>3, <1>4 DEF Shared

LEMMA SharedTick ==
  ASSUME PromptDeployment, TabsInv, Tick
  PROVE  Shared'
<1> USE DEF TabsInv
<1>1. /\ now' = now + 1 /\ now \in Nat
      /\ UNCHANGED <<alloc, issued, inserting, applying, log, row,
                     cursor, delivered, req, floors>>
  BY DEF Tick, TypeInv, TypeOK
<1>2. ClockInv'
  <2>1. \A o \in inserting \cup applying : o \in Positions
    BY DEF TypeInv, TypeOK
  <2>2. \A o \in inserting \cup applying : now + 1 <= o[1] + MaxLag
    BY <1>1, <2>1, ClockAssumption DEF Tick, Positions
  <2>3. ASSUME NEW c \in Contexts
        PROVE  /\ req[c].phase = "pullRead" => now + 1 <= req[c].at + MaxRead
               /\ req[c].phase \in {"bootBegun", "bootRead"} => now + 1 <= req[c].at + MaxServe
               /\ req[c].at <= now + 1
    <3>1. ~Overdue(c) /\ req[c].at \in Nat /\ req[c].at <= now
      BY RequestFields DEF Tick, ClockInv
    <3>2. QED
      BY <1>1, <3>1, ClockAssumption DEF Overdue
  <2>4. QED
    BY <1>1, <2>2, <2>3 DEF ClockInv
<1>3. ReplyInv'
  <2>1. ASSUME NEW c \in Contexts, req[c].phase = "bootReply"
        PROVE  now + 1 <= req[c].at + MaxServe + MaxReply
    <3>1. ~Overdue(c) /\ req[c].at \in Nat
      BY RequestFields DEF Tick
    <3>2. QED
      BY <1>1, <2>1, <3>1, ClockAssumption DEF Overdue
  <2>2. QED
    BY <1>1, <2>1 DEF ReplyInv
<1>4. \A p \in Positions : Final(p) => Final(p)'
  BY <1>1, ClockAssumption DEF Final, After, Boundary, Positions
<1>5. FinalInv'
  <2>1. \A d \in Devices : /\ row[d] # None => row[d] \in Positions
                           /\ cursor[d] # None => cursor[d] \in Positions
    BY DEF TypeInv, TypeOK
  <2>2. \A f \in floors : f \in Positions
    BY DEF TypeInv, TypeOK
  <2>3. \A d \in Devices : /\ row[d] # None => Final(row[d])'
                           /\ cursor[d] # None => Final(cursor[d])'
    BY <1>1, <1>4, <2>1 DEF FinalInv
  <2>4. \A c \in Contexts : Final(req[c].since)' /\ Final(req[c].bound)'
    BY <1>1, <1>4, RequestFields DEF FinalInv
  <2>5. \A f \in floors : Final(f)'
    BY <1>1, <1>4, <2>2 DEF FinalInv
  <2>6. QED
    BY <1>1, <2>3, <2>4, <2>5 DEF FinalInv, Final, After, Boundary
<1>6. LoggedInv' /\ NoSkippedOperation' /\ AckedIsDelivered' /\ NoPurgeGap' /\ FloorInv'
  BY <1>1 DEF LoggedInv, NoSkippedOperation, AckedIsDelivered, NoPurgeGap, FloorInv, Settled, BootUnderWay
<1>7. ScanInv' /\ SnapshotInv' /\ ShareInv'
  BY <1>1 DEF ScanInv, SnapshotInv, ShareInv, BootUnderWay
<1>8. QED
  BY <1>2, <1>3, <1>5, <1>6, <1>7 DEF Shared

LEMMA SharedAllocate ==
  ASSUME PromptDeployment, TabsInv, NEW i \in Instances, NEW wall \in Walls, Allocate(i, wall)
  PROVE  Shared'
<1> USE DEF TabsInv
<1>1. PICK o \in Positions :
        /\ o[2] >= 1 /\ o[1] >= wall
        /\ issued' = issued \cup {o} /\ o \notin issued
        /\ inserting' = inserting \cup {o} /\ applying' = applying \cup {o}
  BY AllocateFresh
<1>2. UNCHANGED <<now, log, row, cursor, delivered, req, floors>>
  BY DEF Allocate
<1>3. now <= o[1] + MaxLag
  BY <1>1, WallType, ClockAssumption DEF TypeInv, TypeOK, Started, Positions
<1>4. \A p \in Positions : Final(p) => After(o, p)
  BY <1>1, <1>3, Recent
<1>5. ClockInv' /\ ReplyInv'
  BY <1>1, <1>2, <1>3 DEF ClockInv, ReplyInv
<1>6. FinalInv'
  BY <1>2 DEF FinalInv, Final
<1>7. LoggedInv'
  BY <1>1, <1>2 DEF LoggedInv
<1>8. \A d \in Devices : /\ cursor[d] # None => After(o, cursor[d])
                         /\ row[d] # None => After(o, row[d])
  BY <1>4 DEF TypeInv, TypeOK, FinalInv
<1>9. \A f \in floors : After(o, f)
  BY <1>4 DEF TypeInv, TypeOK, FinalInv
<1>10. NoSkippedOperation' /\ AckedIsDelivered'
  BY <1>1, <1>2, <1>8 DEF NoSkippedOperation, AckedIsDelivered, Settled, BootUnderWay
<1>11. issued' \ inserting' \subseteq issued \ inserting
  BY <1>1
<1>12. NoPurgeGap'
  BY <1>2, <1>11 DEF NoPurgeGap, Settled, BootUnderWay
<1>13. FloorInv'
  BY <1>1, <1>2, <1>9 DEF FloorInv, Settled, BootUnderWay
<1>14. \A c \in Contexts : /\ After(o, req[c].since) /\ After(o, req[c].bound)
                           /\ o[1] + MaxLag >= req[c].at
  BY <1>1, <1>3, <1>4, RequestFields, ClockAssumption
     DEF TypeInv, TypeOK, FinalInv, ClockInv, Positions
<1>15. ScanInv'
  BY <1>1, <1>2, <1>14 DEF ScanInv
<1>16. SnapshotInv'
  BY <1>1, <1>2, <1>11, <1>14 DEF SnapshotInv
<1>17. ShareInv'
  BY <1>1, <1>2, <1>14 DEF ShareInv, BootUnderWay
<1>18. QED
  BY <1>5, <1>6, <1>7, <1>10, <1>12, <1>13, <1>15, <1>16, <1>17 DEF Shared

LEMMA SharedCommit ==
  ASSUME PromptDeployment, TabsInv,
         NEW o, (o \in inserting /\ CommitToLog(o)) \/ CommitToEntities(o)
  PROVE  Shared'
<1> USE DEF TabsInv
<1>1. /\ UNCHANGED <<now, issued, row, cursor, delivered, req, floors>>
      /\ inserting' \subseteq inserting /\ applying' \subseteq applying
      /\ log \subseteq log' /\ inserting \ inserting' \subseteq log'
      /\ log' \cup inserting' \subseteq log \cup inserting
  BY DEF CommitToLog, CommitToEntities
<1>2. ClockInv' /\ ReplyInv' /\ FinalInv'
  BY <1>1 DEF ClockInv, ReplyInv, FinalInv, Final
<1>3. LoggedInv'
  BY <1>1 DEF LoggedInv
<1>4. NoSkippedOperation' /\ AckedIsDelivered' /\ FloorInv'
  BY <1>1 DEF NoSkippedOperation, AckedIsDelivered, FloorInv, Settled, BootUnderWay
<1>5. issued' \ inserting' \subseteq (issued \ inserting) \cup log'
  BY <1>1
<1>6. NoPurgeGap'
  BY <1>1, <1>5 DEF NoPurgeGap, Settled, BootUnderWay
<1>7. ScanInv'
  BY <1>1 DEF ScanInv
<1>8. SnapshotInv'
  BY <1>1, <1>5 DEF SnapshotInv
<1>9. ShareInv'
  BY <1>1 DEF ShareInv, BootUnderWay
<1>10. QED
  BY <1>2, <1>3, <1>4, <1>6, <1>7, <1>8, <1>9 DEF Shared

LEMMA SharedPullCheck ==
  ASSUME PromptDeployment, TabsInv, NEW c \in Contexts, PullCheck(c)
  PROVE  Shared'
<1> DEFINE d == DeviceOf[c]
<1> USE DEF TabsInv
<1>1. /\ UNCHANGED <<serverVars, row, cursor, delivered, floors>>
      /\ \A e \in Contexts \ {c} : req'[e] = req[e]
      /\ req[c].phase = "idle"
      /\ cursor[d] # None
  BY DEF PullCheck, PromptDeployment, TypeInv, TypeOK
<1>2. CASE row[d] = None
  <2>1. /\ req'[c].phase = "recover" /\ req'[c].since = Epoch
        /\ req'[c].bound = Epoch /\ req'[c].at = 0
    BY <1>2 DEF PullCheck, Idle, TypeInv, TypeOK
  <2>2. QED
    BY <1>1, <2>1, SharedIdle
<1>3. CASE row[d] # None
  <2>1. /\ req'[c].phase = "pullChecked" /\ req'[c].since = cursor[d]
        /\ req'[c].bound = Epoch /\ req'[c].at = 0
    BY <1>1, <1>3 DEF PullCheck, CursorOr, Idle, TypeInv, TypeOK
  <2>2. Final(cursor[d]) /\ Final(Epoch) /\ now \in Nat /\ d \in Devices
    BY <1>1, EpochFinal, RequestFields DEF FinalInv, TypeInv, TypeOK
  <2>3. /\ ClockInv' /\ ReplyInv' /\ FinalInv' /\ LoggedInv' /\ NoSkippedOperation'
        /\ AckedIsDelivered' /\ NoPurgeGap' /\ FloorInv'
        /\ \A e \in Devices : BootUnderWay(e)' <=> BootUnderWay(e)
    BY <1>1, <2>1, <2>2, SharedRequest
  <2>4. ScanInv' /\ SnapshotInv'
    BY <1>1, <2>1 DEF ScanInv, SnapshotInv, serverVars
  <2>5. ~BootUnderWay(d) => \A o \in issued : ~After(o, cursor[d]) => o \in delivered[d]
    BY <1>1, <2>2 DEF NoSkippedOperation, Settled
  <2>6. ShareInv'
    BY <1>1, <2>1, <2>3, <2>5, DeviceAssumption DEF ShareInv, serverVars
  <2>7. QED
    BY <2>3, <2>4, <2>6 DEF Shared
<1>4. QED
  BY <1>2, <1>3

\* The scan misses what is still to be inserted, and what was purged: while the
\* row exists the device holds that.
LEMMA SharedPullRead ==
  ASSUME PromptDeployment, TabsInv, NEW c \in Contexts, PullRead(c)
  PROVE  Shared'
<1> DEFINE d == DeviceOf[c]
<1> USE DEF TabsInv
<1>1. /\ UNCHANGED <<serverVars, row, cursor, delivered, floors>>
      /\ \A e \in Contexts \ {c} : req'[e] = req[e]
      /\ req[c].phase = "pullChecked"
      /\ req'[c].phase = "pullRead" /\ req'[c].at = now
      /\ req'[c].since = req[c].since /\ req'[c].bound = req[c].bound
      /\ req'[c].ops = {o \in log : After(o, req[c].since)}
  BY RequestFields DEF PullRead, TypeInv, TypeOK, Requests
<1>2. now \in Nat /\ d \in Devices
  BY RequestFields DEF TypeInv, TypeOK
<1>3. /\ cursor[d] # None
      /\ ~BootUnderWay(d) => \A o \in issued : ~After(o, req[c].since) => o \in delivered[d]
  BY <1>1 DEF ShareInv
<1>4. /\ ClockInv' /\ ReplyInv' /\ FinalInv' /\ LoggedInv' /\ NoSkippedOperation'
      /\ AckedIsDelivered' /\ NoPurgeGap' /\ FloorInv'
      /\ \A e \in Devices : BootUnderWay(e)' <=> BootUnderWay(e)
  BY <1>1, <1>2, SharedRequest, ClockAssumption DEF FinalInv
<1>5. ASSUME NEW o \in inserting
      PROVE  o[1] + MaxLag >= now
  BY <1>5, InFlight, EpochFinal DEF TypeInv, TypeOK, Positions
<1>6. ASSUME row[d] # None, ~BootUnderWay(d), NEW o \in issued, After(o, req[c].since)
      PROVE  o \in req'[c].ops \cup delivered[d] \/ o[1] + MaxLag >= now
  <2>1. CASE o \in inserting
    BY <1>5, <2>1
  <2>2. CASE o \notin inserting
    <3>1. Settled(d)
      BY <1>3, <1>6 DEF Settled
    <3>2. o \in log \cup delivered[d]
      BY <1>2, <1>6, <2>2, <3>1 DEF NoPurgeGap, NoSkippedOperation
    <3>3. QED
      BY <1>1, <1>6, <3>2
  <2>3. QED
    BY <2>1, <2>2
<1>7. ScanInv'
  BY <1>1, <1>5 DEF ScanInv, serverVars
<1>8. SnapshotInv'
  BY <1>1 DEF SnapshotInv, serverVars
<1>9. ShareInv'
  BY <1>1, <1>3, <1>4, <1>6, DeviceAssumption DEF ShareInv, serverVars
<1>10. QED
  BY <1>4, <1>7, <1>8, <1>9 DEF Shared

LEMMA SharedBootBegin ==
  ASSUME PromptDeployment, TabsInv, NEW c \in Contexts, NEW wall \in Walls, BootBegin(c, wall)
  PROVE  Shared'
<1> DEFINE d == DeviceOf[c]
           heldBack == Boundary(wall - Holdback)
           bound == IF row[d] = None THEN heldBack ELSE Later(row[d], heldBack)
<1> USE DEF TabsInv
<1>1. /\ UNCHANGED <<serverVars, row, cursor, delivered, floors>>
      /\ \A e \in Contexts \ {c} : req'[e] = req[e]
      /\ req[c].phase \in {"recover", "idle"}
      /\ req'[c].phase = "bootBegun" /\ req'[c].at = now
      /\ req'[c].since = Epoch /\ req'[c].bound = bound
  BY DEF BootBegin, Idle, TypeInv, TypeOK
<1>2. now \in Nat /\ d \in Devices
  BY RequestFields DEF TypeInv, TypeOK
<1>3. Final(Epoch) /\ Final(heldBack)
  BY EpochFinal, PastIsFinal, WallType, ClockAssumption DEF TypeInv, TypeOK, Started
<1>4. Final(bound)
  BY <1>2, <1>3 DEF Later, FinalInv
<1>5. /\ ClockInv' /\ ReplyInv' /\ FinalInv' /\ LoggedInv' /\ NoSkippedOperation'
      /\ AckedIsDelivered' /\ NoPurgeGap' /\ FloorInv'
      /\ \A e \in Devices : BootUnderWay(e)' <=> BootUnderWay(e)
  BY <1>1, <1>2, <1>3, <1>4, SharedRequest, ClockAssumption
<1>6. ScanInv' /\ SnapshotInv'
  BY <1>1 DEF ScanInv, SnapshotInv, serverVars
<1>7. ShareInv'
  BY <1>1, <1>5, DeviceAssumption DEF ShareInv, serverVars
<1>8. QED
  BY <1>5, <1>6, <1>7 DEF Shared

\* The snapshot misses what has still to reach the entities.
LEMMA SharedBootRead ==
  ASSUME PromptDeployment, TabsInv, NEW c \in Contexts, BootRead(c)
  PROVE  Shared'
<1> USE DEF TabsInv
<1>1. /\ UNCHANGED <<serverVars, row, cursor, delivered, floors>>
      /\ \A e \in Contexts \ {c} : req'[e] = req[e]
      /\ req[c].phase = "bootBegun" /\ req'[c].phase = "bootRead"
      /\ req'[c].at = req[c].at /\ req'[c].since = req[c].since
      /\ req'[c].bound = req[c].bound /\ req'[c].ops = issued \ applying
  BY RequestFields DEF BootRead, TypeInv, TypeOK, Requests
<1>2. /\ req[c].at <= now /\ now <= req[c].at + MaxServe
      /\ Final(req[c].since) /\ Final(req[c].bound)
  BY <1>1 DEF ClockInv, FinalInv
<1>3. /\ ClockInv' /\ ReplyInv' /\ FinalInv' /\ LoggedInv' /\ NoSkippedOperation'
      /\ AckedIsDelivered' /\ NoPurgeGap' /\ FloorInv'
      /\ \A e \in Devices : BootUnderWay(e)' <=> BootUnderWay(e)
  BY <1>1, <1>2, SharedRequest
<1>4. ASSUME NEW o \in issued \ req'[c].ops
      PROVE  o[1] + MaxLag >= req[c].at
  <2>1. o \in applying /\ o \in Positions /\ now <= o[1] + MaxLag
    BY <1>1, <1>4 DEF ClockInv, TypeInv, TypeOK
  <2>2. o[1] \in Nat /\ req[c].at \in Nat /\ now \in Nat
    BY <2>1, RequestFields DEF TypeInv, TypeOK, Positions
  <2>3. QED
    BY <1>2, <2>1, <2>2, ClockAssumption
<1>5. issued \ inserting \subseteq log \cup req'[c].ops
  BY <1>1 DEF LoggedInv
<1>6. ScanInv'
  BY <1>1 DEF ScanInv, serverVars
<1>7. SnapshotInv'
  BY <1>1, <1>4, <1>5 DEF SnapshotInv, serverVars
<1>8. ShareInv'
  BY <1>1, <1>3, DeviceAssumption DEF ShareInv, serverVars
<1>9. QED
  BY <1>3, <1>6, <1>7, <1>8 DEF Shared

\* What the scan missed is after the boundary computed when it was over.
LEMMA SharedPullRecord ==
  ASSUME PromptDeployment, TabsInv, NEW c \in Contexts, NEW wall \in Walls, PullRecord(c, wall)
  PROVE  Shared'
<1> DEFINE d == DeviceOf[c]
<1> USE DEF TabsInv
<1>1. PICK bound \in Advertised(req[c].ops, req[c].since, wall) :
        req' = [req EXCEPT ![c] = [@ EXCEPT !.phase = "pullReply", !.bound = bound, !.at = 0]]
  BY DEF PullRecord
<1>2. /\ UNCHANGED <<serverVars, cursor, delivered, floors>>
      /\ row[d] # None /\ req[c].phase = "pullRead"
      /\ row' = [row EXCEPT ![d] = req[c].since]
      /\ \A e \in Contexts \ {c} : req'[e] = req[e]
      /\ req'[c].phase = "pullReply" /\ req'[c].at = 0 /\ req'[c].bound = bound
      /\ req'[c].since = req[c].since /\ req'[c].ops = req[c].ops
  BY ZenonT(30), <1>1, RequestFields DEF PullRecord, TypeInv, TypeOK, Requests
<1>3. now \in Nat /\ d \in Devices /\ wall - Holdback \in Nat /\ wall <= now
  BY RequestFields, WallType DEF TypeInv, TypeOK, Started
<1>4. /\ cursor[d] # None /\ Final(req[c].since) /\ req[c].since \in Positions
      /\ ~BootUnderWay(d) => \A o \in issued : ~After(o, req[c].since) => o \in delivered[d]
  BY <1>2, RequestFields DEF ShareInv, FinalInv
<1>5. /\ bound \in Positions
      /\ bound = req[c].since \/ ~After(bound, Boundary(wall - Holdback))
  <2>1. req[c].ops \subseteq Positions /\ wall \in Int
    BY RequestFields, WallType DEF TypeInv, TypeOK, Started
  <2>2. QED
    BY <1>3, <1>4, <2>1, AdvertisedType
<1>6. Final(bound)
  <2>1. CASE bound = req[c].since
    BY <2>1, <1>4
  <2>2. CASE ~After(bound, Boundary(wall - Holdback))
    <3>1. now - Holdback \in Nat /\ wall \in Nat /\ wall - Holdback <= now - Holdback
      BY <1>3, WallType, ClockAssumption DEF TypeInv, Started
    <3>2. Boundary(wall - Holdback) \in Positions /\ Final(Boundary(wall - Holdback))
      BY <1>3, <3>1, PastIsFinal
    <3>3. Boundary(now - Holdback) \in Positions
      BY <3>1, BoundaryType
    <3>4. QED
      BY <1>5, <2>2, <3>2, <3>3, AfterOrder DEF Final
  <2>3. QED
    BY <1>5, <2>1, <2>2
<1>7. \A e \in Devices : (Settled(e)' <=> Settled(e)) /\ (BootUnderWay(e)' <=> BootUnderWay(e))
  <2>1. \A e \in Devices : Settled(e)' <=> Settled(e)
    BY <1>2, SameSettled
  <2>2. \A e \in Devices : BootUnderWay(e)' <=> BootUnderWay(e)
    BY <1>2 DEF BootUnderWay
  <2>3. QED
    BY <2>1, <2>2
<1>8. \A e \in Devices : row'[e] = IF e = d THEN req[c].since ELSE row[e]
  BY <1>2 DEF TypeInv, TypeOK
<1>9. ClockInv' /\ ReplyInv'
  BY <1>2, <1>3 DEF ClockInv, ReplyInv, serverVars
<1>10. FinalInv'
  BY <1>2, <1>4, <1>6, <1>8 DEF FinalInv, Final, serverVars
<1>11. LoggedInv'
  BY <1>2 DEF LoggedInv, serverVars
<1>12. NoSkippedOperation'
  BY <1>2, <1>7 DEF NoSkippedOperation, serverVars
<1>13. AckedIsDelivered'
  BY <1>2, <1>4, <1>7, <1>8 DEF AckedIsDelivered, Settled, serverVars
<1>14. NoPurgeGap' /\ FloorInv'
  BY <1>2, <1>7, <1>8 DEF NoPurgeGap, FloorInv, serverVars
<1>15. ASSUME ~BootUnderWay(d), NEW o \in issued, After(o, req[c].since), ~After(o, bound)
       PROVE  o \in req[c].ops \cup delivered[d]
  <2>1. SUFFICES ASSUME o \notin req[c].ops \cup delivered[d] PROVE FALSE
    OBVIOUS
  <2>2. o[1] + MaxLag >= req[c].at /\ now <= req[c].at + MaxRead
    BY <1>2, <1>15, <2>1 DEF ShareInv, ClockInv
  <2>3. MaxRead + MaxLag <= Holdback /\ MaxRead \in Nat /\ req[c].at \in Nat
    BY RequestFields, ClockAssumption DEF PromptDeployment
  <2>4. After(o, bound)
    BY <1>5, <1>6, <2>2, <2>3, Elapsed
  <2>5. QED
    BY <2>4, <1>15
<1>16. ScanInv' /\ SnapshotInv'
  BY <1>2 DEF ScanInv, SnapshotInv, serverVars
<1>17. ASSUME NEW e \in Contexts, req'[e].phase \in {"pullChecked", "pullRead", "pullReply"}
       PROVE  LET a == DeviceOf[e]
                  r == req'[e] IN
                /\ cursor[a] # None
                /\ ~BootUnderWay(a) =>
                     /\ \A o \in issued : ~After(o, r.since) => o \in delivered[a]
                     /\ r.phase = "pullRead" /\ row'[a] # None =>
                          \A o \in issued : After(o, r.since) =>
                            o \in r.ops \cup delivered[a] \/ o[1] + MaxLag >= r.at
                     /\ r.phase = "pullReply" =>
                          \A o \in issued : After(o, r.since) /\ ~After(o, r.bound) =>
                            o \in r.ops \cup delivered[a]
  <2>1. CASE e = c
    BY <1>2, <1>4, <1>15, <2>1
  <2>2. CASE e # c
    <3>1. req'[e] = req[e] /\ row'[DeviceOf[e]] # None => row[DeviceOf[e]] # None
      BY <1>2, <1>8, <2>2, DeviceAssumption
    <3>2. req'[e] = req[e]
      BY <1>2, <2>2
    <3>3. QED
      BY <1>17, <3>1, <3>2 DEF ShareInv
  <2>3. QED
    BY <2>1, <2>2
<1>18. ShareInv'
  BY <1>2, <1>7, <1>17, DeviceAssumption DEF ShareInv, serverVars
<1>19. QED
  BY <1>9, <1>10, <1>11, <1>12, <1>13, <1>14, <1>16, <1>18 DEF Shared

LEMMA SharedPullApply ==
  ASSUME PromptDeployment, TabsInv, NEW c \in Contexts, PullApply(c)
  PROVE  Shared'
<1> DEFINE d == DeviceOf[c]
           r == req[c]
<1> USE DEF TabsInv
<1>1. /\ UNCHANGED <<serverVars, row, floors>>
      /\ r.phase = "pullReply" /\ req'[c] = Idle
      /\ \A e \in Contexts \ {c} : req'[e] = req[e]
      /\ delivered' = [delivered EXCEPT ![d] = @ \cup r.ops]
      /\ cursor' = [cursor EXCEPT ![d] = IF After(r.bound, CursorOr(d)) THEN r.bound ELSE @]
  BY DEF PullApply, TypeInv, TypeOK
<1>2. /\ d \in Devices /\ r.ops \subseteq issued /\ r.bound \in Positions /\ r.since \in Positions
      /\ Final(Epoch) /\ Final(r.bound) /\ now \in Nat
  BY RequestFields, EpochFinal DEF FinalInv, TypeInv, TypeOK
<1>3. /\ cursor[d] # None /\ CursorOr(d) = cursor[d] /\ cursor[d] \in Positions
      /\ ~BootUnderWay(d) =>
           \A o \in issued : ~After(o, r.bound) => o \in delivered[d] \cup r.ops
  BY <1>1, <1>2 DEF ShareInv, CursorOr, TypeInv, TypeOK
<1>4. /\ \A e \in Devices : delivered'[e] = IF e = d THEN delivered[d] \cup r.ops ELSE delivered[e]
      /\ \A e \in Devices \ {d} : cursor'[e] = cursor[e]
      /\ cursor'[d] = IF After(r.bound, cursor[d]) THEN r.bound ELSE cursor[d]
  BY <1>1, <1>2, <1>3 DEF TypeInv, TypeOK
<1>5. /\ cursor'[d] # None /\ cursor'[d] \in Positions /\ Final(cursor'[d])
      /\ cursor'[d] \in {cursor[d], r.bound}
  BY <1>2, <1>3, <1>4, NoneAssumption DEF FinalInv
<1>6. \A e \in Devices : (Settled(e)' <=> Settled(e)) /\ (BootUnderWay(e)' <=> BootUnderWay(e))
  BY <1>1, <1>2, <1>3, <1>4, <1>5 DEF Settled, BootUnderWay, Idle
<1>7. ClockInv' /\ ReplyInv'
  BY <1>1, <1>2 DEF ClockInv, ReplyInv, Idle, serverVars
<1>8. FinalInv'
  BY <1>1, <1>2, <1>4, <1>5 DEF FinalInv, Final, Idle, serverVars
<1>9. LoggedInv'
  BY <1>1 DEF LoggedInv, serverVars
<1>10. ASSUME Settled(d), NEW o \in issued, ~After(o, cursor'[d])
       PROVE  o \in delivered'[d]
  BY <1>2, <1>3, <1>4, <1>5, <1>10 DEF NoSkippedOperation, Settled
<1>11. NoSkippedOperation'
  BY <1>1, <1>4, <1>6, <1>10 DEF NoSkippedOperation, serverVars
<1>12. AckedIsDelivered' /\ FloorInv'
  BY <1>1, <1>4, <1>6 DEF AckedIsDelivered, FloorInv, serverVars
<1>13. \A o \in issued : After(o, cursor'[d]) => After(o, cursor[d])
  <2>1. issued \subseteq Positions
    BY DEF TypeInv, TypeOK
  <2>2. QED  BY <1>2, <1>3, <1>4, <2>1, AfterAdvance
<1>14. NoPurgeGap'
  BY <1>1, <1>4, <1>6, <1>13 DEF NoPurgeGap, serverVars
<1>15. ScanInv' /\ SnapshotInv'
  BY <1>1 DEF ScanInv, SnapshotInv, Idle, serverVars
<1>16. ASSUME NEW e \in Contexts, req'[e].phase \in {"pullChecked", "pullRead", "pullReply"}
       PROVE  /\ req'[e] = req[e] /\ DeviceOf[e] \in Devices
              /\ cursor[DeviceOf[e]] # None => cursor'[DeviceOf[e]] # None
              /\ delivered[DeviceOf[e]] \subseteq delivered'[DeviceOf[e]]
  BY <1>1, <1>4, <1>5, <1>16, DeviceAssumption DEF Idle
<1>17. ShareInv'
  BY <1>1, <1>6, <1>16 DEF ShareInv, serverVars
<1>18. QED
  BY <1>7, <1>8, <1>9, <1>11, <1>12, <1>14, <1>15, <1>17 DEF Shared

LEMMA SharedBootRegister ==
  ASSUME PromptDeployment, TabsInv, NEW c \in Contexts, BootRegister(c)
  PROVE  Shared'
<1> DEFINE d == DeviceOf[c]
           r == req[c]
<1> USE DEF TabsInv
<1>1. /\ UNCHANGED <<serverVars, cursor, delivered, floors>>
      /\ r.phase = "bootRead" /\ req'[c].phase = "bootReply"
      /\ req'[c].at = r.at /\ req'[c].since = r.since
      /\ req'[c].bound = r.bound /\ req'[c].ops = r.ops
      /\ \A e \in Contexts \ {c} : req'[e] = req[e]
      /\ row' = [row EXCEPT ![d] = r.bound]
  BY RequestFields DEF BootRegister, TypeInv, TypeOK, Requests
<1>2. /\ d \in Devices /\ Final(r.bound) /\ Final(r.since) /\ r.at <= now
      /\ r.at \in Nat /\ now \in Nat /\ now <= r.at + MaxServe
  BY <1>1, RequestFields DEF FinalInv, ClockInv, TypeInv, TypeOK
<1>3. \A e \in Devices : row'[e] = IF e = d THEN r.bound ELSE row[e]
  BY <1>1, <1>2 DEF TypeInv, TypeOK
<1>4. BootUnderWay(d)'
  BY <1>1 DEF BootUnderWay
<1>5. ~Settled(d)'
  BY <1>4 DEF Settled
<1>6. \A e \in Devices \ {d} : (Settled(e)' => Settled(e)) /\ (BootUnderWay(e) => BootUnderWay(e)')
  BY <1>1 DEF Settled, BootUnderWay
<1>7. ClockInv' /\ ReplyInv'
  BY <1>1, <1>2, ClockAssumption DEF ClockInv, ReplyInv, serverVars
<1>8. FinalInv'
  BY <1>1, <1>2, <1>3 DEF FinalInv, Final, serverVars
<1>9. LoggedInv'
  BY <1>1 DEF LoggedInv, serverVars
<1>10. NoSkippedOperation' /\ AckedIsDelivered' /\ NoPurgeGap' /\ FloorInv'
  BY <1>1, <1>3, <1>5, <1>6 DEF NoSkippedOperation, AckedIsDelivered, NoPurgeGap, FloorInv, serverVars
<1>11. ScanInv' /\ SnapshotInv'
  BY <1>1 DEF ScanInv, SnapshotInv, serverVars
<1>12. ASSUME NEW e \in Contexts, req'[e].phase \in {"pullChecked", "pullRead", "pullReply"}
       PROVE  /\ req'[e] = req[e] /\ DeviceOf[e] \in Devices
              /\ DeviceOf[e] # d => row'[DeviceOf[e]] = row[DeviceOf[e]]
  BY <1>1, <1>3, <1>12, DeviceAssumption
<1>13. ShareInv'
  BY <1>1, <1>4, <1>6, <1>12 DEF ShareInv, serverVars
<1>14. QED
  BY <1>7, <1>8, <1>9, <1>10, <1>11, <1>13 DEF Shared

\* The snapshot has whatever any cursor, row or floor has reached, and misses
\* nothing that was purged: a pull of another context that is under way may
\* have missed as much.
LEMMA SharedBootApply ==
  ASSUME PromptDeployment, TabsInv, NEW c \in Contexts, BootApply(c)
  PROVE  Shared'
<1> DEFINE d == DeviceOf[c]
           r == req[c]
<1> USE DEF TabsInv
<1>1. /\ UNCHANGED <<serverVars, row, floors>>
      /\ r.phase = "bootReply" /\ req'[c] = Idle
      /\ \A e \in Contexts \ {c} : req'[e] = req[e]
      /\ delivered' = [delivered EXCEPT ![d] = r.ops]
      /\ cursor' = [cursor EXCEPT ![d] = r.bound]
  BY DEF BootApply, TypeInv, TypeOK
<1>2. /\ d \in Devices /\ Final(Epoch) /\ Final(r.bound) /\ now \in Nat
      /\ r.ops \subseteq issued /\ r.bound \in Positions /\ r.bound # None
  BY RequestFields, EpochFinal, NoneAssumption DEF FinalInv, TypeInv, TypeOK
<1>3. /\ \A e \in Devices : delivered'[e] = IF e = d THEN r.ops ELSE delivered[e]
      /\ \A e \in Devices : cursor'[e] = IF e = d THEN r.bound ELSE cursor[e]
  BY <1>1, <1>2 DEF TypeInv, TypeOK
<1>4. \A e \in Devices \ {d} : (Settled(e)' <=> Settled(e)) /\ (BootUnderWay(e)' <=> BootUnderWay(e))
  BY <1>1, <1>3 DEF Settled, BootUnderWay
<1>5. \A p \in Positions : Final(p) => \A o \in issued : ~After(o, p) => o \in r.ops
  BY <1>1, PromptSnapshot
<1>6. issued \ inserting \subseteq log \cup r.ops
  BY <1>1 DEF SnapshotInv
<1>7. ClockInv' /\ ReplyInv'
  BY <1>1, <1>2 DEF ClockInv, ReplyInv, Idle, serverVars
<1>8. FinalInv'
  BY <1>1, <1>2, <1>3 DEF FinalInv, Final, Idle, serverVars
<1>9. LoggedInv'
  BY <1>1 DEF LoggedInv, serverVars
<1>10. NoSkippedOperation'
  BY <1>1, <1>2, <1>3, <1>4, <1>5 DEF NoSkippedOperation, serverVars
<1>11. row[d] # None => row[d] \in Positions /\ Final(row[d])
  BY <1>2 DEF FinalInv, TypeInv, TypeOK
<1>12. AckedIsDelivered'
  BY <1>1, <1>3, <1>4, <1>5, <1>11 DEF AckedIsDelivered, serverVars
<1>13. NoPurgeGap'
  BY <1>1, <1>3, <1>4, <1>6 DEF NoPurgeGap, serverVars
<1>14. \A f \in floors : f \in Positions /\ Final(f)
  BY DEF FinalInv, TypeInv, TypeOK
<1>15. FloorInv'
  BY <1>1, <1>3, <1>4, <1>5, <1>14 DEF FloorInv, serverVars
<1>16. ScanInv' /\ SnapshotInv'
  BY <1>1 DEF ScanInv, SnapshotInv, Idle, serverVars
<1>17. ASSUME NEW e \in Contexts, req'[e].phase \in {"pullChecked", "pullRead", "pullReply"},
              DeviceOf[e] = d
       PROVE  /\ \A o \in issued : ~After(o, req'[e].since) => o \in r.ops
              /\ req'[e].phase = "pullRead" =>
                   \A o \in issued : After(o, req'[e].since) =>
                     o \in req'[e].ops \cup r.ops \/ o[1] + MaxLag >= req'[e].at
              /\ \A o \in issued : ~After(o, req'[e].bound) => o \in r.ops
  <2>1. req'[e] = req[e]
    BY <1>1, <1>17 DEF Idle
  <2>2. /\ Final(req[e].since) /\ Final(req[e].bound)
        /\ req[e].since \in Positions /\ req[e].bound \in Positions
    BY RequestFields DEF FinalInv
  <2>3. issued \subseteq log \cup inserting \cup r.ops
    BY <1>6
  <2>4. QED
    BY <1>5, <2>1, <2>2, <2>3 DEF ScanInv
<1>18. ASSUME NEW e \in Contexts, req'[e].phase \in {"pullChecked", "pullRead", "pullReply"},
              DeviceOf[e] # d
       PROVE  /\ req'[e] = req[e] /\ DeviceOf[e] \in Devices
              /\ cursor'[DeviceOf[e]] = cursor[DeviceOf[e]]
              /\ delivered'[DeviceOf[e]] = delivered[DeviceOf[e]]
              /\ BootUnderWay(DeviceOf[e])' <=> BootUnderWay(DeviceOf[e])
  BY <1>1, <1>3, <1>4, <1>18, DeviceAssumption
<1>19. ShareInv'
  <2>1. SUFFICES ASSUME NEW e \in Contexts,
                        req'[e].phase \in {"pullChecked", "pullRead", "pullReply"}
        PROVE  LET a == DeviceOf[e]
                   s == req'[e] IN
                 /\ cursor'[a] # None
                 /\ ~BootUnderWay(a)' =>
                      /\ \A o \in issued : ~After(o, s.since) => o \in delivered'[a]
                      /\ s.phase = "pullRead" /\ row[a] # None =>
                           \A o \in issued : After(o, s.since) =>
                             o \in s.ops \cup delivered'[a] \/ o[1] + MaxLag >= s.at
                      /\ s.phase = "pullReply" =>
                           \A o \in issued : After(o, s.since) /\ ~After(o, s.bound) =>
                             o \in s.ops \cup delivered'[a]
    BY <1>1, DeviceAssumption DEF ShareInv, BootUnderWay, serverVars
  <2>2. CASE DeviceOf[e] = d
    BY <1>2, <1>3, <1>17, <2>1, <2>2
  <2>3. CASE DeviceOf[e] # d
    BY <1>18, <2>1, <2>3 DEF ShareInv
  <2>4. QED
    BY <2>2, <2>3
<1>20. QED
  BY <1>7, <1>8, <1>9, <1>10, <1>12, <1>13, <1>15, <1>16, <1>19 DEF Shared

\* Without anomalies a bootstrap is lost only where there is no cursor yet, and
\* so no pull.
LEMMA SharedBootLost ==
  ASSUME PromptDeployment, TabsInv, NEW c \in Contexts, BootLost(c)
  PROVE  Shared'
<1> DEFINE d == DeviceOf[c]
<1> USE DEF TabsInv
<1>1. /\ UNCHANGED <<serverVars, row, cursor, delivered, floors>>
      /\ req'[c] = Idle /\ cursor[d] = None
      /\ \A e \in Contexts \ {c} : req'[e] = req[e]
  BY DEF BootLost, PromptDeployment, TypeInv, TypeOK
<1>2. /\ ~Settled(d) /\ ~Settled(d)'
      /\ \A e \in Devices \ {d} : (Settled(e)' <=> Settled(e)) /\ (BootUnderWay(e)' <=> BootUnderWay(e))
  BY <1>1 DEF Settled, BootUnderWay, Idle
<1>3. Final(Epoch) /\ now \in Nat
  BY EpochFinal DEF TypeInv, TypeOK
<1>4. ClockInv' /\ ReplyInv' /\ FinalInv' /\ LoggedInv'
  BY <1>1, <1>3 DEF ClockInv, ReplyInv, FinalInv, LoggedInv, Final, Idle, serverVars
<1>5. NoSkippedOperation' /\ AckedIsDelivered' /\ NoPurgeGap' /\ FloorInv'
  BY <1>1, <1>2 DEF NoSkippedOperation, AckedIsDelivered, NoPurgeGap, FloorInv, serverVars
<1>6. ScanInv' /\ SnapshotInv'
  BY <1>1 DEF ScanInv, SnapshotInv, Idle, serverVars
<1>7. ASSUME NEW e \in Contexts, req'[e].phase \in {"pullChecked", "pullRead", "pullReply"}
      PROVE  req'[e] = req[e] /\ DeviceOf[e] \in Devices \ {d}
  BY <1>1, <1>7, DeviceAssumption DEF ShareInv, Idle
<1>8. ShareInv'
  BY <1>1, <1>2, <1>7 DEF ShareInv, serverVars
<1>9. QED
  BY <1>4, <1>5, <1>6, <1>8 DEF Shared

LEMMA SharedDropRow ==
  ASSUME PromptDeployment, TabsInv, NEW d \in Devices, DropRow(d)
  PROVE  Shared'
<1> USE DEF TabsInv
<1>1. /\ UNCHANGED <<serverVars, cursor, delivered, req, floors>>
      /\ \A e \in Devices : row'[e] = row[e] \/ row'[e] = None
  BY DEF DropRow, TypeInv, TypeOK
<1>2. \A e \in Devices : (Settled(e)' <=> Settled(e)) /\ (BootUnderWay(e)' <=> BootUnderWay(e))
  BY <1>1 DEF Settled, BootUnderWay
<1>3. ClockInv' /\ ReplyInv' /\ FinalInv' /\ LoggedInv'
  BY <1>1 DEF ClockInv, ReplyInv, FinalInv, LoggedInv, Final, serverVars
<1>4. NoSkippedOperation' /\ AckedIsDelivered' /\ NoPurgeGap' /\ FloorInv'
  BY <1>1, <1>2 DEF NoSkippedOperation, AckedIsDelivered, NoPurgeGap, FloorInv, serverVars
<1>5. ScanInv' /\ SnapshotInv'
  BY <1>1 DEF ScanInv, SnapshotInv, serverVars
<1>6. ShareInv'
  BY <1>1, <1>2, DeviceAssumption DEF ShareInv, serverVars
<1>7. QED
  BY <1>3, <1>4, <1>5, <1>6 DEF Shared

LEMMA SharedWipe ==
  ASSUME PromptDeployment, TabsInv, NEW d \in Devices, Wipe(d)
  PROVE  Shared'
<1> USE DEF TabsInv
<1>1. /\ UNCHANGED <<serverVars, row, floors>>
      /\ \A e \in Devices : cursor'[e] = IF e = d THEN None ELSE cursor[e]
      /\ \A e \in Devices \ {d} : delivered'[e] = delivered[e]
      /\ \A c \in Contexts : req'[c] = IF DeviceOf[c] = d THEN Idle ELSE req[c]
  BY DEF Wipe, TypeInv, TypeOK
<1>2. /\ ~Settled(d)'
      /\ \A e \in Devices \ {d} : (Settled(e)' <=> Settled(e)) /\ (BootUnderWay(e)' <=> BootUnderWay(e))
  BY <1>1 DEF Settled, BootUnderWay
<1>3. Final(Epoch) /\ now \in Nat
  BY EpochFinal DEF TypeInv, TypeOK
<1>4. ClockInv' /\ ReplyInv' /\ FinalInv'
  BY <1>1, <1>3 DEF ClockInv, ReplyInv, FinalInv, Final, Idle, serverVars
<1>5. LoggedInv'
  BY <1>1 DEF LoggedInv, serverVars
<1>6. NoSkippedOperation' /\ AckedIsDelivered' /\ NoPurgeGap' /\ FloorInv'
  BY <1>1, <1>2 DEF NoSkippedOperation, AckedIsDelivered, NoPurgeGap, FloorInv, serverVars
<1>7. ScanInv' /\ SnapshotInv'
  BY <1>1 DEF ScanInv, SnapshotInv, Idle, serverVars
<1>8. ASSUME NEW e \in Contexts, req'[e].phase \in {"pullChecked", "pullRead", "pullReply"}
      PROVE  req'[e] = req[e] /\ DeviceOf[e] \in Devices \ {d}
  BY <1>1, <1>8, DeviceAssumption DEF Idle
<1>9. ShareInv'
  BY <1>1, <1>2, <1>8 DEF ShareInv, serverVars
<1>10. QED
  BY <1>4, <1>5, <1>6, <1>7, <1>9 DEF Shared

\* The floor is the slowest row: every settled device holds all up to it.
LEMMA SharedReadFloor ==
  ASSUME PromptDeployment, TabsInv, NEW d \in Devices, ReadFloor(d)
  PROVE  Shared'
<1> USE DEF TabsInv
<1>1. /\ UNCHANGED <<serverVars, row, cursor, delivered, req>>
      /\ row[d] # None /\ floors' = floors \cup {row[d]}
      /\ \A e \in Devices : row[e] # None => ~After(row[d], row[e])
  BY DEF ReadFloor, Registered
<1>2. \A e \in Devices : (Settled(e)' <=> Settled(e)) /\ (BootUnderWay(e)' <=> BootUnderWay(e))
  BY <1>1 DEF Settled, BootUnderWay
<1>3. \A e \in Devices : row[e] # None =>
        \A o \in issued : ~After(o, row[d]) => ~After(o, row[e])
  <2>1. /\ \A e \in Devices : row[e] # None => row[e] \in Positions
        /\ \A o \in issued : o \in Positions
    BY DEF TypeInv, TypeOK
  <2>2. QED
    BY <1>1, <2>1, AfterOrder
<1>4. ClockInv' /\ ReplyInv' /\ FinalInv' /\ LoggedInv'
  BY <1>1 DEF ClockInv, ReplyInv, FinalInv, LoggedInv, Final, serverVars
<1>5. NoSkippedOperation' /\ AckedIsDelivered' /\ NoPurgeGap'
  BY <1>1, <1>2 DEF NoSkippedOperation, AckedIsDelivered, NoPurgeGap, serverVars
<1>6. FloorInv'
  BY <1>1, <1>2, <1>3 DEF FloorInv, AckedIsDelivered, serverVars
<1>7. ScanInv' /\ SnapshotInv'
  BY <1>1 DEF ScanInv, SnapshotInv, serverVars
<1>8. ShareInv'
  BY <1>1, <1>2, DeviceAssumption DEF ShareInv, serverVars
<1>9. QED
  BY <1>4, <1>5, <1>6, <1>7, <1>8 DEF Shared

\* A purge takes nothing a registered device, or a snapshot, does not hold.
LEMMA SharedPurge ==
  ASSUME PromptDeployment, TabsInv, NEW f \in floors, Purge(f)
  PROVE  Shared'
<1> USE DEF TabsInv
<1>1. /\ UNCHANGED <<now, alloc, issued, inserting, applying, row, cursor, delivered, req>>
      /\ log' = {o \in log : After(o, f)} /\ floors' \subseteq floors
      /\ f \in Positions /\ Final(f)
  BY DEF Purge, FinalInv, TypeInv, TypeOK
<1>2. \A e \in Devices : (Settled(e)' <=> Settled(e)) /\ (BootUnderWay(e)' <=> BootUnderWay(e))
  BY <1>1 DEF Settled, BootUnderWay
<1>3. ClockInv' /\ ReplyInv' /\ FinalInv'
  BY <1>1 DEF ClockInv, ReplyInv, FinalInv, Final
<1>4. LoggedInv'
  BY <1>1, InFlight DEF LoggedInv
<1>5. NoSkippedOperation' /\ AckedIsDelivered' /\ FloorInv'
  BY <1>1, <1>2 DEF NoSkippedOperation, AckedIsDelivered, FloorInv
<1>6. NoPurgeGap'
  <2>1. ASSUME NEW e \in Devices, Settled(e), row[e] # None,
               NEW o \in issued \ inserting, After(o, cursor[e])
        PROVE  o \in log' \cup delivered[e]
    BY <1>1, <2>1 DEF NoPurgeGap, FloorInv
  <2>2. QED
    BY <1>1, <1>2, <2>1 DEF NoPurgeGap
<1>7. ScanInv'
  BY <1>1 DEF ScanInv
<1>8. ASSUME NEW c \in Contexts, req[c].phase \in {"bootRead", "bootReply"},
             NEW o \in issued, ~After(o, f)
      PROVE  o \in req[c].ops
  BY <1>1, <1>8, PromptSnapshot
<1>9. SnapshotInv'
  BY <1>1, <1>8 DEF SnapshotInv
<1>10. ShareInv'
  BY <1>1, <1>2, DeviceAssumption DEF ShareInv
<1>11. QED
  BY <1>3, <1>4, <1>5, <1>6, <1>7, <1>9, <1>10 DEF Shared

LEMMA SharedStep ==
  ASSUME PromptDeployment, TabsInv, [Next]_vars
  PROVE  TabsInv'
<1>1. TypeInv'
  BY TypeStep DEF TabsInv
<1>2. ASSUME NEW c \in Contexts, PullStep(c) \/ BootStep(c) \/ PullLost(c) \/ BootLost(c)
      PROVE  Shared'
  <2>1. CASE PullRefused(c) \/ PullLost(c)
    <3>1. /\ UNCHANGED <<serverVars, row, cursor, delivered, floors>>
          /\ \A e \in Contexts \ {c} : req'[e] = req[e]
          /\ req[c].phase # "bootReply" /\ req'[c].phase \in {"idle", "recover"}
          /\ req'[c].since = Epoch /\ req'[c].bound = Epoch /\ req'[c].at = 0
      BY <2>1 DEF PullRefused, PullLost, Idle, TabsInv, TypeInv, TypeOK
    <3>2. QED
      BY <3>1, SharedIdle
  <2>2. QED
    BY <1>2, <2>1, SharedPullCheck, SharedPullRead, SharedPullRecord, SharedPullApply,
       SharedBootBegin, SharedBootRead, SharedBootRegister, SharedBootApply, SharedBootLost
       DEF PullStep, BootStep
<1>3. ASSUME UNCHANGED vars
      PROVE  Shared'
  <2> USE DEF TabsInv
  <2>1. UNCHANGED <<serverVars, row, cursor, delivered, req, floors>>
    BY <1>3 DEF vars
  <2>2. \A d \in Devices : (Settled(d)' <=> Settled(d)) /\ (BootUnderWay(d)' <=> BootUnderWay(d))
    BY <2>1 DEF Settled, BootUnderWay
  <2>3. ClockInv' /\ ReplyInv' /\ FinalInv' /\ LoggedInv'
    BY <2>1 DEF ClockInv, ReplyInv, FinalInv, LoggedInv, Final, serverVars
  <2>4. NoSkippedOperation' /\ AckedIsDelivered' /\ NoPurgeGap' /\ FloorInv'
    BY <2>1, <2>2 DEF NoSkippedOperation, AckedIsDelivered, NoPurgeGap, FloorInv, serverVars
  <2>5. ScanInv' /\ SnapshotInv' /\ ShareInv'
    BY <2>1, <2>2, DeviceAssumption DEF ScanInv, SnapshotInv, ShareInv, serverVars
  <2>6. QED
    BY <2>3, <2>4, <2>5 DEF Shared
<1>4. Shared'
  <2>1. CASE Tick
    BY <2>1, SharedTick
  <2>2. CASE \E i \in Instances : \E wall \in Walls : Allocate(i, wall)
    BY <2>2, SharedAllocate
  <2>3. CASE \/ \E o \in inserting : CommitToLog(o)
             \/ \E o \in applying : CommitToEntities(o)
    <3>1. PICK o : (o \in inserting /\ CommitToLog(o)) \/ CommitToEntities(o)
      BY <2>3, Zenon
    <3>2. QED
      BY <3>1, SharedCommit
  <2>4. CASE \E c \in Contexts : PullStep(c) \/ BootStep(c) \/ PullLost(c) \/ BootLost(c)
    BY <2>4, <1>2
  <2>5. CASE \E d \in Devices : DropRow(d) \/ Wipe(d) \/ ReadFloor(d)
    BY <2>5, SharedDropRow, SharedWipe, SharedReadFloor
  <2>6. CASE \E f \in floors : Purge(f)
    BY <2>6, SharedPurge
  <2>7. QED
    BY <1>3, <2>1, <2>2, <2>3, <2>4, <2>5, <2>6 DEF Next
<1>5. QED
  BY <1>1, <1>4 DEF TabsInv, Shared

\* However many contexts share a device's cursor, every state satisfies the
\* invariant of the shared cursor, if bootstrap replies are applied promptly.
THEOREM SharedInvariance == PromptDeployment => (Spec => []TabsInv)
<1>1. PromptDeployment /\ TabsInv /\ [Next]_vars => TabsInv'
  BY SharedStep
<1>2. Init => TabsInv
  BY InitShared
<1>3. ASSUME PromptDeployment
      PROVE  Spec => []TabsInv
  <2>1. TabsInv /\ [Next]_vars => TabsInv'
    BY <1>1, <1>3
  <2>2. QED
    BY <1>2, <2>1, PTL DEF Spec
<1>4. QED
  BY <1>3

\* A tab and the Service Worker that pull and bootstrap over one cursor never
\* skip an operation between them.  (doPull, bootstrapFromServerUnguarded)
THEOREM TabsSkipNothing == PromptDeployment => (Spec => []NoSkippedOperation)
<1>1. TabsInv => NoSkippedOperation
  BY DEF TabsInv
<1>2. ASSUME PromptDeployment
      PROVE  Spec => []NoSkippedOperation
  <2>1. Spec => []TabsInv
    BY <1>2, SharedInvariance
  <2>2. QED
    BY <1>1, <2>1, PTL
<1>3. QED
  BY <1>2

\* The row of a device with several contexts never claims more than the device
\* holds, whichever of them asked last.  (recordPullCursorOnExistingRow)
THEOREM TabsAckedDelivered == PromptDeployment => (Spec => []AckedIsDelivered)
<1>1. TabsInv => AckedIsDelivered
  BY DEF TabsInv
<1>2. ASSUME PromptDeployment
      PROVE  Spec => []AckedIsDelivered
  <2>1. Spec => []TabsInv
    BY <1>2, SharedInvariance
  <2>2. QED
    BY <1>1, <2>1, PTL
<1>3. QED
  BY <1>2

\* The purge opens no gap under a device either of whose contexts may be asking
\* from an older cursor.  (purgeOldOperations)
THEOREM TabsPurgeSafe == PromptDeployment => (Spec => []NoPurgeGap)
<1>1. TabsInv => NoPurgeGap
  BY DEF TabsInv
<1>2. ASSUME PromptDeployment
      PROVE  Spec => []NoPurgeGap
  <2>1. Spec => []TabsInv
    BY <1>2, SharedInvariance
  <2>2. QED
    BY <1>1, <2>1, PTL
<1>3. QED
  BY <1>2
=============================================================================
