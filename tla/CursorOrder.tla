---------------------------- MODULE CursorOrder ----------------------------
(***************************************************************************)
(* The totally ordered positions of the operation log.                     *)
(*                                                                         *)
(* An operation is identified by the pair (ts, _id); _id is a fixed-width  *)
(* string "<ms>-<seq>-<uuid>", so its string order is the numeric order of *)
(* (ms, seq) with the random suffix breaking ties between two server       *)
(* processes.  A position is the triple <<ms, seq, tie>>.  Sequence        *)
(* numbers start at 1 here, which leaves <<ms, 0, 0>> for the cursor       *)
(* (ts, ''), below every operation of that millisecond.                    *)
(***************************************************************************)
EXTENDS Integers

Positions == Nat \X Nat \X Nat

\* The strict order shared by pull, bootstrap and purge.
After(a, b) ==
  \/ a[1] > b[1]
  \/ a[1] = b[1] /\ a[2] > b[2]
  \/ a[1] = b[1] /\ a[2] = b[2] /\ a[3] > b[3]

\* The cursor (ts, ''): it re-checks the whole millisecond ms.
Boundary(ms) == <<ms, 0, 0>>

\* The cursor of a replica that has none: the epoch, below every operation.
Epoch == Boundary(0)

Later(a, b) == IF After(a, b) THEN a ELSE b
=============================================================================
