-------------------------- MODULE OpLogRefinement --------------------------
(***************************************************************************)
(* OpLog implements ReplicatedLog.                                         *)
(***************************************************************************)
EXTENDS OpLogSafety

LEMMA KnownInit ==
  ASSUME Init
  PROVE  KnownInv
BY DEF Init, KnownInv, Idle

\* What is visible stays visible; what a step brings into view was under way.
LEMMA VisibleGrows ==
  ASSUME TypeInv, [Next]_vars
  PROVE  /\ Visible \subseteq Visible'
         /\ Visible' \ Visible \subseteq inserting \cup applying
<1> USE DEF TypeInv, TypeOK, Visible
<1>1. CASE UNCHANGED serverVars
  BY <1>1 DEF serverVars
<1>2. CASE Tick
  BY <1>2 DEF Tick
<1>3. ASSUME NEW i \in Instances, NEW wall \in Walls, Allocate(i, wall)
      PROVE  Visible' = Visible
  <2>1. PICK o \in Positions :
          /\ o \notin issued /\ issued' = issued \cup {o}
          /\ inserting' = inserting \cup {o} /\ applying' = applying \cup {o}
    BY <1>3, AllocateFresh
  <2>2. QED
    BY <2>1
<1>4. ASSUME NEW o \in inserting, CommitToLog(o)
      PROVE  Visible \subseteq Visible' /\ Visible' \ Visible \subseteq inserting
  BY <1>4 DEF CommitToLog
<1>5. ASSUME NEW o \in applying, CommitToEntities(o)
      PROVE  Visible \subseteq Visible' /\ Visible' \ Visible \subseteq applying
  BY <1>5 DEF CommitToEntities
<1>6. ASSUME NEW c \in Contexts, PullStep(c) \/ BootStep(c) \/ PullLost(c) \/ BootLost(c)
      PROVE  UNCHANGED serverVars
  BY <1>6 DEF PullStep, BootStep, PullLost, BootLost, PullCheck, PullRead, PullRefused,
     PullApply, PullRecord, BootBegin, BootRead, BootRegister, BootApply
<1>7. ASSUME NEW d \in Devices, DropRow(d) \/ Wipe(d) \/ ReadFloor(d)
      PROVE  UNCHANGED serverVars
  BY <1>7 DEF DropRow, Wipe, ReadFloor
<1>8. ASSUME NEW f \in floors, Purge(f)
      PROVE  Visible' = Visible
  BY <1>8 DEF Purge
<1>9. CASE UNCHANGED vars
  BY <1>9, <1>1 DEF vars
<1>10. QED
  BY <1>1, <1>2, <1>3, <1>4, <1>5, <1>6, <1>7, <1>8, <1>9 DEF Next

\* The steps that hand a device, or a reply, something new.
LEMMA HandsOut ==
  ASSUME TypeInv, [Next]_vars
  PROVE  /\ \A d \in Devices :
              \/ delivered'[d] \subseteq delivered[d]
              \/ \E c \in Contexts : delivered'[d] \subseteq delivered[d] \cup req[c].ops
         /\ \A c \in Contexts : req'[c].ops \subseteq req[c].ops \cup log \cup (issued \ applying)
<1> USE DEF TypeInv, TypeOK
<1>0. \A c \in Contexts : req[c] \in Requests /\ DeviceOf[c] \in Devices
  BY DeviceAssumption
<1>1. CASE UNCHANGED <<delivered, req>>
  BY <1>1
<1>2. ASSUME NEW c \in Contexts, UNCHANGED delivered,
             \A e \in Contexts \ {c} : req'[e] = req[e],
             req'[c].ops \subseteq req[c].ops \cup log \cup (issued \ applying)
      PROVE  /\ \A d \in Devices : delivered'[d] \subseteq delivered[d]
             /\ \A e \in Contexts : req'[e].ops \subseteq req[e].ops \cup log \cup (issued \ applying)
  BY <1>2
<1>3. /\ Idle.ops = {}
      /\ \A p : [Idle EXCEPT !.phase = p].ops = {}
      /\ \A p, since : [Idle EXCEPT !.phase = p, !.since = since].ops = {}
      /\ \A p, at, b : [Idle EXCEPT !.phase = p, !.at = at, !.bound = b].ops = {}
  BY DEF Idle
<1>4. ASSUME NEW c \in Contexts, PullStep(c) \/ BootStep(c) \/ PullLost(c) \/ BootLost(c),
             ~PullApply(c), ~BootApply(c)
      PROVE  /\ UNCHANGED delivered
             /\ \A e \in Contexts \ {c} : req'[e] = req[e]
             /\ req'[c].ops \subseteq req[c].ops \cup log \cup (issued \ applying)
  <2>1. CASE PullCheck(c)
    BY <2>1, <1>3 DEF PullCheck
  <2>2. CASE PullRead(c)
    <3>1. req'[c] = [req[c] EXCEPT !.phase = "pullRead", !.at = now,
                        !.ops = {o \in log : After(o, req[c].since)}]
      BY <2>2 DEF PullRead
    <3>2. req'[c].ops = {o \in log : After(o, req[c].since)}
      BY <3>1, <1>0 DEF Requests
    <3>3. QED
      BY <2>2, <3>2 DEF PullRead
  <2>3. CASE PullRefused(c)
    BY <2>3, <1>3 DEF PullRefused
  <2>4. ASSUME NEW wall \in Walls, PullRecord(c, wall)
        PROVE  /\ UNCHANGED delivered
               /\ \A e \in Contexts \ {c} : req'[e] = req[e]
               /\ req'[c].ops = req[c].ops
    <3>1. PICK bound : req' = [req EXCEPT ![c] = [@ EXCEPT
                          !.phase = "pullReply", !.bound = bound, !.at = 0]]
      BY <2>4 DEF PullRecord
    <3>2. QED
      BY <2>4, <3>1, <1>0 DEF PullRecord, Requests
  <2>5. ASSUME NEW wall \in Walls, BootBegin(c, wall)
        PROVE  /\ UNCHANGED delivered
               /\ \A e \in Contexts \ {c} : req'[e] = req[e]
               /\ req'[c].ops = {}
    BY <2>5, <1>3 DEF BootBegin
  <2>6. CASE BootRead(c)
    BY <2>6, <1>0 DEF BootRead, Requests
  <2>7. CASE BootRegister(c)
    BY <2>7, <1>0 DEF BootRegister, Requests
  <2>8. CASE PullLost(c) \/ BootLost(c)
    BY <2>8, <1>3 DEF PullLost, BootLost
  <2>9. QED
    BY <1>4, <2>1, <2>2, <2>3, <2>4, <2>5, <2>6, <2>7, <2>8 DEF PullStep, BootStep
<1>5. ASSUME NEW c \in Contexts, PullApply(c) \/ BootApply(c)
      PROVE  /\ delivered'[DeviceOf[c]] \subseteq delivered[DeviceOf[c]] \cup req[c].ops
             /\ \A d \in Devices \ {DeviceOf[c]} : delivered'[d] = delivered[d]
             /\ \A e \in Contexts : req'[e].ops \subseteq req[e].ops
  BY <1>0, <1>3, <1>5 DEF PullApply, BootApply
<1>6. ASSUME NEW d \in Devices, Wipe(d)
      PROVE  /\ \A e \in Devices : delivered'[e] \subseteq delivered[e]
             /\ \A c \in Contexts : req'[c].ops \subseteq req[c].ops
  BY <1>3, <1>6 DEF Wipe
<1>7. QED
  <2>1. CASE \E c \in Contexts : PullApply(c) \/ BootApply(c)
    BY <2>1, <1>5
  <2>2. CASE \E d \in Devices : Wipe(d)
    BY <2>2, <1>6
  <2>3. CASE \E c \in Contexts : /\ PullStep(c) \/ BootStep(c) \/ PullLost(c) \/ BootLost(c)
                                 /\ ~PullApply(c) /\ ~BootApply(c)
    BY <2>3, <1>4, <1>2
  <2>4. CASE UNCHANGED <<delivered, req>>
    BY <2>4
  <2>5. QED
    BY <2>1, <2>2, <2>3, <2>4 DEF Next, vars, Tick, Allocate, CommitToLog, CommitToEntities,
       DropRow, ReadFloor, Purge

LEMMA KnownStep ==
  ASSUME TypeInv, KnownInv, [Next]_vars
  PROVE  KnownInv'
<1>1. log \cup (issued \ applying) \subseteq Visible
  BY DEF TypeInv, TypeOK, Visible
<1>2. Visible \subseteq Visible'
  BY VisibleGrows
<1>3. QED
  BY <1>1, <1>2, HandsOut DEF KnownInv

LEMMA InitMaps ==
  ASSUME Init
  PROVE  Abstract!Init
BY DEF Init, Abstract!Init, Visible

-----------------------------------------------------------------------------
(* Every step is a step of ReplicatedLog, or none *)

\* Nothing comes into view behind a cursor: what was under way is younger than
\* any position the server has let out.
LEMMA PublishMaps ==
  ASSUME Deployment, IInv, [Next]_vars, UNCHANGED <<delivered, cursor>>
  PROVE  Abstract!Publish
<1>1. ASSUME NEW o \in Visible' \ Visible, NEW d \in Devices, cursor[d] # None
      PROVE  Abstract!After(o, cursor[d])
  <2>1. TypeInv /\ ClockInv /\ FinalInv
    BY DEF IInv
  <2>2. o \in inserting \cup applying
    BY <2>1, VisibleGrows
  <2>3. cursor[d] \in Positions /\ Final(cursor[d])
    BY <1>1, <2>1 DEF TypeInv, TypeOK, FinalInv
  <2>4. After(o, cursor[d])
    BY <2>1, <2>2, <2>3, InFlight
  <2>5. QED
    BY <2>4 DEF After, Abstract!After
<1>2. Visible \subseteq Visible'
  BY VisibleGrows DEF IInv
<1>3. QED
  BY <1>1, <1>2 DEF Abstract!Publish

\* One device moves: what it claims, it holds, by SkipInv of the next state.
LEMMA MoveMaps ==
  ASSUME SkipInv', KnownInv', NEW d \in Devices,
         UNCHANGED <<issued, inserting, applying>>,
         \A e \in Devices \ {d} : delivered'[e] = delivered[e] /\ cursor'[e] = cursor[e]
  PROVE  Abstract!Moves(d)
<1>1. Visible' = Visible
  BY DEF Visible
<1>2. delivered'[d] \subseteq Visible
  BY <1>1 DEF KnownInv
<1>3. Abstract!Complete(d)'
  BY DEF SkipInv, Abstract!Complete, Visible, After, Abstract!After
<1>4. QED
  BY <1>1, <1>2, <1>3 DEF Abstract!Moves

LEMMA ApplyMaps ==
  ASSUME IInv, IInv', KnownInv', NEW c \in Contexts, PullApply(c) \/ BootApply(c)
  PROVE  \E d \in Devices : Abstract!Advance(d) \/ Abstract!StartOver(d)
<1> DEFINE d == DeviceOf[c]
<1>1. d \in Devices /\ req[c].bound \in Positions
  BY RequestFields DEF IInv
<1>2. TypeOK /\ TypeOK'
  BY DEF IInv, TypeInv
<1>3. /\ UNCHANGED <<issued, inserting, applying>>
      /\ \A e \in Devices \ {d} : delivered'[e] = delivered[e] /\ cursor'[e] = cursor[e]
  BY <1>1, <1>2 DEF PullApply, BootApply, TypeOK, serverVars
<1>4. Abstract!Moves(d)
  BY <1>1, <1>3, MoveMaps DEF IInv
<1>5. CASE PullApply(c)
  <2>1. cursor[d] # None /\ cursor[d] \in Positions
    BY <1>1, <1>2, <1>5 DEF PullApply, IInv, PullInv, TypeOK
  <2>2. delivered[d] \subseteq delivered'[d]
    BY <1>1, <1>2, <1>5 DEF PullApply, TypeOK
  <2>3. cursor'[d] = IF After(req[c].bound, cursor[d]) THEN req[c].bound ELSE cursor[d]
    BY <1>1, <1>2, <1>5, <2>1 DEF PullApply, TypeOK, CursorOr
  <2>4. cursor'[d] # None
    BY <1>1, <2>1, <2>3, NoneAssumption
  <2>5. ~After(cursor[d], cursor'[d])
    BY <1>1, <2>1, <2>3 DEF After, Positions
  <2>6. ~Abstract!After(cursor[d], cursor'[d])
    BY <2>5 DEF After, Abstract!After
  <2>7. Abstract!Advance(d)
    BY <1>4, <2>1, <2>2, <2>4, <2>6 DEF Abstract!Advance
  <2>8. QED
    BY <1>1, <2>7
<1>6. CASE BootApply(c)
  <2>1. cursor'[d] = req[c].bound
    BY <1>1, <1>2, <1>6 DEF BootApply, TypeOK
  <2>2. Abstract!StartOver(d)
    BY <1>1, <1>4, <2>1, NoneAssumption DEF Abstract!StartOver
  <2>3. QED
    BY <1>1, <2>2
<1>7. QED
  BY <1>5, <1>6

LEMMA WipeMaps ==
  ASSUME IInv, IInv', KnownInv', NEW d \in Devices, Wipe(d)
  PROVE  Abstract!Leave(d)
<1>1. TypeOK
  BY DEF IInv, TypeInv
<1>2. /\ UNCHANGED <<issued, inserting, applying>>
      /\ cursor'[d] = None /\ delivered'[d] = {}
      /\ \A e \in Devices \ {d} : delivered'[e] = delivered[e] /\ cursor'[e] = cursor[e]
  BY <1>1 DEF Wipe, TypeOK, serverVars
<1>3. Abstract!Moves(d)
  BY <1>2, MoveMaps DEF IInv
<1>4. QED
  BY <1>2, <1>3 DEF Abstract!Leave

LEMMA StepMaps ==
  ASSUME Deployment, IInv, IInv', KnownInv', [Next]_vars
  PROVE  [Abstract!Next]_(Abstract!vars)
<1>1. CASE UNCHANGED <<delivered, cursor>>
  BY <1>1, PublishMaps DEF Abstract!Next
<1>2. CASE \E c \in Contexts : PullApply(c) \/ BootApply(c)
  BY <1>2, ApplyMaps DEF Abstract!Next
<1>3. CASE \E d \in Devices : Wipe(d)
  BY <1>3, WipeMaps DEF Abstract!Next
<1>4. QED
  BY <1>1, <1>2, <1>3 DEF Next, vars, PullStep, BootStep, serverVars,
     Tick, Allocate, CommitToLog, CommitToEntities, PullCheck, PullRead, PullRefused,
     PullRecord, PullLost, BootBegin, BootRead, BootRegister, BootLost, DropRow, ReadFloor, Purge

\* Pull and bootstrap, over a log that is written late, purged and reaped under
\* devices with one context each, are a replicated log: nothing appears behind
\* a cursor, and no cursor passes what its device does not hold.
THEOREM Refinement == Deployment => (Spec => ImplementsReplicatedLog)
<1>1. ASSUME Deployment
      PROVE  Spec => ImplementsReplicatedLog
  <2>1. Spec => []IInv
    BY <1>1, Invariance
  <2>2. Init => KnownInv
    BY KnownInit
  <2>3. IInv /\ KnownInv /\ [Next]_vars => KnownInv'
    BY KnownStep DEF IInv
  <2>4. Init => Abstract!Init
    BY InitMaps
  <2>5. IInv /\ IInv' /\ KnownInv' /\ [Next]_vars => [Abstract!Next]_(Abstract!vars)
    BY <1>1, StepMaps
  <2>6. QED
    BY <2>1, <2>2, <2>3, <2>4, <2>5, PTL DEF Spec, ImplementsReplicatedLog, Abstract!Spec
<1>2. QED
  BY <1>1
=============================================================================
