--------------------------- MODULE OpLogInvariant ---------------------------
(***************************************************************************)
(* The inductive invariants behind the theorems about OpLog, apart from    *)
(* the proofs so that TLC can check them first.                            *)
(***************************************************************************)
EXTENDS OpLog

Started == now >= Origin

\* Every identity issued is one its process has moved past.
FreshIds ==
  \A o \in issued :
    /\ o[3] \in Instances /\ o[2] >= 1
    /\ \/ o[1] < alloc[o[3]].ms
       \/ o[1] = alloc[o[3]].ms /\ o[2] <= alloc[o[3]].seq + 1

TypeInv == TypeOK /\ Started /\ FreshIds

-----------------------------------------------------------------------------
(* The inductive invariant *)

\* The deployment the holdback is sized for, with one context per device: a
\* scan of the log and a bootstrap each last, with the lag of a commit, no
\* longer than the cursor is held back, and no anomaly happens.
Deployment ==
  /\ \A c, e \in Contexts : DeviceOf[c] = DeviceOf[e] => c = e
  /\ MaxRead + MaxLag <= Holdback
  /\ MaxServe + MaxLag <= Holdback
  /\ Anomalies = {}

\* A position no operation can commit behind any more.
Final(p) == ~After(p, Boundary(now - Holdback))

\* The environment's bounds, as Tick enforces them.
ClockInv ==
  /\ \A o \in inserting \cup applying : now <= o[1] + MaxLag
  /\ \A c \in Contexts :
       /\ req[c].phase = "pullRead" => now <= req[c].at + MaxRead
       /\ req[c].phase \in {"bootBegun", "bootRead"} => now <= req[c].at + MaxServe
       /\ req[c].at <= now

\* Every position the server advertised, recorded or purges below is final.
FinalInv ==
  /\ \A d \in Devices : /\ row[d] # None => Final(row[d])
                        /\ cursor[d] # None => Final(cursor[d])
  /\ \A c \in Contexts : Final(req[c].since) /\ Final(req[c].bound)
  /\ \A f \in floors : Final(f)

\* What is inserted and not yet in the entities is still in the log.
LoggedInv == applying \ inserting \subseteq log

\* With one context per device nothing is skipped while a bootstrap is under
\* way either: the cursor is the old one.
SkipInv ==
  \A d \in Devices : cursor[d] # None =>
    \A o \in issued : ~After(o, cursor[d]) => o \in delivered[d]

FloorInv ==
  \A d \in Devices : Settled(d) /\ row[d] # None =>
    \A f \in floors : \A o \in issued : ~After(o, f) => o \in delivered[d]

\* A pull asks from the cursor.  If the row outlived the scan, the scan missed
\* only what was still to be inserted; its reply, up to the cursor advertised,
\* misses nothing.
PullInv ==
  \A c \in Contexts : LET d == DeviceOf[c]
                          r == req[c] IN
    /\ r.phase \in {"pullChecked", "pullRead", "pullReply"} =>
         cursor[d] # None /\ r.since = cursor[d]
    /\ r.phase = "pullRead" /\ row[d] # None =>
         \A o \in issued : After(o, r.since) =>
           o \in r.ops \cup delivered[d] \/ o[1] + MaxLag >= r.at
    /\ r.phase = "pullReply" =>
         \A o \in issued : After(o, r.since) /\ ~After(o, r.bound) =>
           o \in r.ops \cup delivered[d]

\* What a snapshot misses was committed to the entities after it was taken,
\* and waits in the log above the bootstrap's cursor: until the row is
\* registered because the purge cannot have come that far in the time a
\* bootstrap takes, and from then on because the row holds the purge back.
BootInv ==
  \A c \in Contexts : LET d == DeviceOf[c]
                          r == req[c] IN
    /\ r.phase \in {"bootRead", "bootReply"} =>
         \A o \in issued \ r.ops : After(o, r.bound) /\ o[1] + MaxLag >= r.at
    /\ r.phase = "bootRead" \/ (r.phase = "bootReply" /\ row[d] # None) =>
         issued \ inserting \subseteq log \cup r.ops
    /\ r.phase = "bootReply" /\ row[d] # None =>
         /\ row[d] = r.bound
         /\ \A f \in floors : \A o \in issued : ~After(o, f) => o \in r.ops

IInv ==
  /\ TypeInv /\ ClockInv /\ FinalInv /\ LoggedInv /\ SkipInv
  /\ AckedIsDelivered /\ NoPurgeGap /\ FloorInv /\ PullInv /\ BootInv

-----------------------------------------------------------------------------
(* Several contexts over one cursor *)

\* The deployment in which a device may run any number of contexts: a bootstrap,
\* its reply's way included, takes with the lag no longer than the holdback.
PromptDeployment ==
  /\ MaxRead + MaxLag <= Holdback
  /\ MaxServe + MaxReply + MaxLag <= Holdback
  /\ Anomalies = {}

ReplyInv ==
  \A c \in Contexts : req[c].phase = "bootReply" => now <= req[c].at + MaxServe + MaxReply

\* What a scan missed of the log was inserted after it.
ScanInv ==
  \A c \in Contexts : req[c].phase = "pullRead" =>
    \A o \in log \cup inserting : After(o, req[c].since) =>
      o \in req[c].ops \/ o[1] + MaxLag >= req[c].at

\* What a snapshot misses is younger than it, and the purge has not come that
\* far while the bootstrap lasts, registered or not.
SnapshotInv ==
  \A c \in Contexts : req[c].phase \in {"bootRead", "bootReply"} =>
    /\ \A o \in issued \ req[c].ops : o[1] + MaxLag >= req[c].at
    /\ issued \ inserting \subseteq log \cup req[c].ops

\* A pull asks from what was the cursor once.  Another context may have moved the
\* cursor since, or replaced all there is by a snapshot; but the device holds
\* what the cursor claimed, and what was purged before the scan, unless a
\* bootstrap is under way that will bring it.
ShareInv ==
  \A c \in Contexts : LET d == DeviceOf[c]
                          r == req[c] IN
    r.phase \in {"pullChecked", "pullRead", "pullReply"} =>
      /\ cursor[d] # None
      /\ ~BootUnderWay(d) =>
           /\ \A o \in issued : ~After(o, r.since) => o \in delivered[d]
           /\ r.phase = "pullRead" /\ row[d] # None =>
                \A o \in issued : After(o, r.since) =>
                  o \in r.ops \cup delivered[d] \/ o[1] + MaxLag >= r.at
           /\ r.phase = "pullReply" =>
                \A o \in issued : After(o, r.since) /\ ~After(o, r.bound) =>
                  o \in r.ops \cup delivered[d]

TabsInv ==
  /\ TypeInv /\ ClockInv /\ ReplyInv /\ FinalInv /\ LoggedInv
  /\ NoSkippedOperation /\ AckedIsDelivered /\ NoPurgeGap /\ FloorInv
  /\ ScanInv /\ SnapshotInv /\ ShareInv

-----------------------------------------------------------------------------
(* For the refinement *)

\* A device, and a reply on its way to one, holds only what was there to see.
KnownInv ==
  /\ \A d \in Devices : delivered[d] \subseteq Visible
  /\ \A c \in Contexts : req[c].ops \subseteq Visible
=============================================================================
