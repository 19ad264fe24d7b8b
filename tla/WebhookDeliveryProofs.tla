----------------------- MODULE WebhookDeliveryProofs -----------------------
(***************************************************************************)
(* What holds of WebhookDelivery for any number of deliveries, ticks,      *)
(* restarts and failing writes.                                            *)
(***************************************************************************)
EXTENDS WebhookDelivery, Integers, FiniteSetTheorems, TLAPS

LEMMA InitInv == Init => IInv
BY SubAssumption, LimitAssumption
   DEF Init, IInv, TypeOK, Rows, Stages, ExclusiveClaim, ClaimInv, PostsBounded, PostInv,
       RepeatsBounded, RepeatInv, Open

\* Steps that leave jobs and history alone, and open no row that was not.
LEMMA QueueInv ==
  ASSUME IInv, NEW d \in Deliveries, Match(d) \/ Enqueue(d) \/ BecomeDue(d)
  PROVE  IInv'
<1>1. /\ UNCHANGED <<sub, claiming, jobs, history, faults>>
      /\ row' \in [Deliveries -> Rows]
      /\ \A e \in Deliveries :
           /\ row'[e].claimed = row[e].claimed /\ row'[e].delivered = row[e].delivered
           /\ row'[e].abandoned = row[e].abandoned /\ row'[e].attempts = row[e].attempts
           /\ e # d => row'[e] = row[e]
  <2>1. row \in [Deliveries -> Rows]
    BY DEF IInv, TypeOK
  <2>2. CASE Match(d)
    BY <2>1, <2>2 DEF Match, Rows, Stages
  <2>3. CASE Enqueue(d)
    BY <2>1, <2>3 DEF Enqueue, Rows, Stages
  <2>4. CASE BecomeDue(d)
    BY ZenonT(30), <2>1, <2>4 DEF BecomeDue, Rows, Stages
  <2>5. QED
    BY <2>2, <2>3, <2>4
<1>2. TypeOK' /\ ExclusiveClaim' /\ PostsBounded' /\ RepeatsBounded'
  BY <1>1 DEF IInv, TypeOK, ExclusiveClaim, PostsBounded, RepeatsBounded, history, faults
<1>3. PostInv' /\ RepeatInv'
  BY <1>1 DEF IInv, TypeOK, Jobs, PostInv, RepeatInv, Open, history, faults
<1>4. ClaimInv'
  <2>1. SUFFICES ASSUME NEW j \in jobs
                 PROVE  row'[j.d].stage = "queued" /\ ~Claimable(j.d)'
    BY <1>1 DEF IInv, TypeOK, Jobs, ClaimInv
  <2>2. /\ j \in Jobs /\ j.d \in Deliveries
        /\ row[j.d].stage = "queued" /\ ~Claimable(j.d)
    BY DEF IInv, TypeOK, Jobs, ClaimInv
  <2>3. CASE Match(d)
    BY <2>2, <2>3 DEF Match, Claimable, IInv, TypeOK, Rows
  <2>4. CASE Enqueue(d)
    BY <2>2, <2>4 DEF Enqueue, Claimable, IInv, TypeOK, Rows
  <2>5. CASE BecomeDue(d)
    BY <2>2, <2>5 DEF BecomeDue, Claimable, IInv, TypeOK, Rows
  <2>6. QED
    BY <2>3, <2>4, <2>5
<1>5. QED
  BY <1>2, <1>3, <1>4 DEF IInv

\* Steps that change nothing of the rows and the history, and drop jobs.
LEMMA DropInv ==
  ASSUME IInv, UNCHANGED <<row, history>>,
         sub' \in [Subs -> [live : BOOLEAN, failures : Nat, disabled : BOOLEAN]],
         claiming' \subseteq Ticks, jobs' \subseteq jobs,
         restarts' \in 0..MaxRestarts,
         errors' \in 0..MaxErrors, errors' >= errors
  PROVE  IInv'
<1>1. TypeOK' /\ ExclusiveClaim' /\ PostsBounded'
  BY DEF IInv, TypeOK, ExclusiveClaim, PostsBounded, history
<1>2. ClaimInv' /\ PostInv'
  BY DEF IInv, TypeOK, Jobs, ClaimInv, PostInv, Claimable, Open, history
<1>3. RepeatsBounded' /\ RepeatInv'
  BY DEF IInv, TypeOK, Jobs, RepeatsBounded, RepeatInv, Open, history
<1>4. QED
  BY <1>1, <1>2, <1>3 DEF IInv

LEMMA TickInv ==
  ASSUME IInv, NEW t \in Ticks,
         StartTick(t) \/ EndClaims(t) \/ Restart(t) \/ ClaimError(t)
  PROVE  IInv'
<1>1. CASE StartTick(t)
  BY <1>1, DropInv DEF StartTick, IInv, TypeOK, rows, faults
<1>2. CASE EndClaims(t)
  BY <1>2, DropInv DEF EndClaims, IInv, TypeOK, rows, faults
<1>3. CASE Restart(t)
  <2>1. restarts' \in 0..MaxRestarts /\ jobs' \subseteq jobs /\ claiming' \subseteq Ticks
    BY <1>3, LimitAssumption DEF Restart, IInv, TypeOK
  <2>2. QED
    BY <1>3, <2>1, DropInv DEF Restart, IInv, TypeOK, rows
<1>4. CASE ClaimError(t)
  <2>1. /\ errors' \in 0..MaxErrors /\ errors' >= errors
        /\ jobs' \subseteq jobs /\ claiming' \subseteq Ticks
    BY <1>4, LimitAssumption DEF ClaimError, Erring, IInv, TypeOK
  <2>2. QED
    BY <1>4, <2>1, DropInv DEF ClaimError, Erring, IInv, TypeOK, rows
<1>5. QED
  BY <1>1, <1>2, <1>3, <1>4

LEMMA DeleteInv ==
  ASSUME IInv, NEW s \in Subs, DeleteSubscription(s)
  PROVE  IInv'
<1>1. sub' \in [Subs -> [live : BOOLEAN, failures : Nat, disabled : BOOLEAN]]
  BY DEF DeleteSubscription, IInv, TypeOK
<1>2. errors \in Int
  BY LimitAssumption DEF IInv, TypeOK
<1>3. QED
  BY <1>1, <1>2, DropInv DEF DeleteSubscription, IInv, TypeOK, faults

\* A claim takes an open row, which no job is working on.
LEMMA ClaimingInv ==
  ASSUME IInv, NEW t \in Ticks, NEW d \in Deliveries, Claim(t, d)
  PROVE  IInv'
<1> DEFINE k == [by |-> t, d |-> d, phase |-> "claimed",
                 attempts |-> row[d].attempts, caught |-> FALSE]
<1>1. /\ Claimable(d) /\ Open(d) /\ row[d] \in Rows /\ row[d].stage = "queued"
      /\ row' = [row EXCEPT ![d].claimed = TRUE] /\ jobs' = jobs \cup {k}
      /\ UNCHANGED <<sub, claiming, history, faults>>
  BY DEF Claim, Claimable, Open, IInv, TypeOK
<1>2. posts[d] <= row[d].attempts /\ row[d].attempts < MaxAttempts /\ accepted[d] <= errors
  BY <1>1 DEF IInv, PostInv, RepeatInv
<1>3. \A j \in jobs : j.d # d
  BY <1>1 DEF IInv, ClaimInv
<1>4. k \in Jobs /\ k.d = d /\ k.phase = "claimed" /\ k.attempts = row[d].attempts
  BY <1>1, <1>2, LimitAssumption DEF Jobs, Phases, Rows
<1>5. /\ row' \in [Deliveries -> Rows]
      /\ \A e \in Deliveries \ {d} : row'[e] = row[e]
      /\ row'[d].claimed /\ ~row'[d].delivered /\ ~row'[d].abandoned
      /\ row'[d].stage = "queued"
  BY <1>1 DEF IInv, TypeOK, Rows, Open
<1>6. TypeOK'
  BY <1>1, <1>4, <1>5 DEF IInv, TypeOK, history, faults
<1>7. ExclusiveClaim'
  <2>1. SUFFICES ASSUME NEW i \in jobs', NEW j \in jobs', i.d = j.d PROVE i = j
    BY DEF ExclusiveClaim
  <2>2. CASE i \in jobs /\ j \in jobs
    BY <2>1, <2>2 DEF IInv, ExclusiveClaim
  <2>3. CASE i = k \/ j = k
    BY <1>1, <1>3, <1>4, <2>1, <2>3
  <2>4. QED
    BY <1>1, <2>2, <2>3
<1>8. ClaimInv'
  <2>1. SUFFICES ASSUME NEW j \in jobs'
                 PROVE  /\ row'[j.d].stage = "queued" /\ ~Claimable(j.d)'
                        /\ j.phase \in {"claimed", "posting", "accepted"} =>
                             row'[j.d].claimed /\ ~row'[j.d].delivered /\ ~row'[j.d].abandoned
    BY DEF ClaimInv
  <2>2. CASE j = k
    BY <1>4, <1>5, <2>2 DEF Claimable
  <2>3. CASE j \in jobs
    BY <1>3, <1>5, <2>3 DEF IInv, TypeOK, Jobs, ClaimInv, Claimable
  <2>4. QED
    BY <1>1, <2>2, <2>3
<1>9. PostsBounded' /\ RepeatsBounded'
  BY <1>1 DEF IInv, PostsBounded, RepeatsBounded, history, faults
<1>10. PostInv'
  <2>1. \A e \in Deliveries : Open(e)' =>
          posts'[e] <= row'[e].attempts /\ row'[e].attempts < MaxAttempts
    BY <1>1, <1>5 DEF IInv, PostInv, Open, history
  <2>2. \A j \in jobs' :
          posts'[j.d] <= j.attempts + (IF j.phase \in {"claimed", "posting"} THEN 0 ELSE 1)
    BY <1>1, <1>2, <1>4 DEF IInv, TypeOK, Rows, PostInv, history
  <2>3. QED
    BY <2>1, <2>2 DEF PostInv
<1>11. RepeatInv'
  BY <1>1, <1>2, <1>4, <1>5 DEF IInv, RepeatInv, Open, history, faults
<1>12. QED
  BY <1>6, <1>7, <1>8, <1>9, <1>10, <1>11 DEF IInv

-----------------------------------------------------------------------------
(* The steps of a job *)

\* What a step of job j may do to everything but the jobs.
Careful(j) ==
  /\ UNCHANGED <<claiming, restarts>>
  /\ sub' \in [Subs -> [live : BOOLEAN, failures : Nat, disabled : BOOLEAN]]
  /\ row' \in [Deliveries -> Rows]
  /\ posts' \in [Deliveries -> Nat] /\ accepted' \in [Deliveries -> Nat]
  /\ errors' \in 0..MaxErrors /\ errors' >= errors
  /\ \A e \in Deliveries \ {j.d} :
       row'[e] = row[e] /\ posts'[e] = posts[e] /\ accepted'[e] = accepted[e]
  /\ posts'[j.d] <= MaxAttempts /\ accepted'[j.d] <= 1 + errors'
  /\ row'[j.d].stage = "queued"
  /\ Open(j.d)' => /\ posts'[j.d] <= row'[j.d].attempts
                   /\ row'[j.d].attempts < MaxAttempts
                   /\ accepted'[j.d] <= errors'

\* What must hold of the job k that takes the place of j.
Successor(j, k) ==
  /\ k \in Jobs /\ k.d = j.d /\ ~Claimable(j.d)'
  /\ k.phase \in {"claimed", "posting", "accepted"} =>
       row'[j.d].claimed /\ ~row'[j.d].delivered /\ ~row'[j.d].abandoned
  /\ posts'[j.d] <= k.attempts + (IF k.phase \in {"claimed", "posting"} THEN 0 ELSE 1)
  /\ k.phase \notin {"accepted", "marked"} => accepted'[j.d] <= errors'

LEMMA StepInv ==
  ASSUME IInv, NEW j \in jobs, NEW next,
         jobs' = (jobs \ {j}) \cup next,
         Careful(j),
         \A k \in next : Successor(j, k),
         \A k, l \in next : k = l
  PROVE  IInv'
<1> USE DEF Careful, Successor
<1>1. j \in Jobs /\ j.d \in Deliveries /\ jobs \subseteq Jobs
  BY DEF IInv, TypeOK, Jobs
<1>2. \A k \in jobs \ {j} : k.d \in Deliveries /\ k.d # j.d
  BY <1>1 DEF IInv, ExclusiveClaim, Jobs
<1>3. TypeOK'
  BY <1>1 DEF IInv, TypeOK
<1>4. ExclusiveClaim'
  <2>1. SUFFICES ASSUME NEW k \in jobs', NEW l \in jobs', k.d = l.d PROVE k = l
    BY DEF ExclusiveClaim
  <2>2. CASE k \in next /\ l \in next
    BY <2>2
  <2>3. CASE k \in jobs \ {j} /\ l \in jobs \ {j}
    BY <2>1, <2>3 DEF IInv, ExclusiveClaim
  <2>4. CASE \/ k \in next /\ l \in jobs \ {j}
             \/ l \in next /\ k \in jobs \ {j}
    BY <1>2, <2>1, <2>4
  <2>5. QED
    BY <2>2, <2>3, <2>4
<1>5. ClaimInv'
  <2>1. SUFFICES ASSUME NEW k \in jobs \ {j}
                 PROVE  /\ row'[k.d].stage = "queued" /\ ~Claimable(k.d)'
                        /\ k.phase \in {"claimed", "posting", "accepted"} =>
                             row'[k.d].claimed /\ ~row'[k.d].delivered /\ ~row'[k.d].abandoned
    BY DEF ClaimInv
  <2>2. row'[k.d] = row[k.d]
    BY <1>2
  <2>3. QED
    BY <2>2 DEF IInv, ClaimInv, Claimable
<1>6. PostsBounded' /\ RepeatsBounded'
  BY <1>1 DEF IInv, TypeOK, PostsBounded, RepeatsBounded
<1>7. PostInv'
  <2>1. ASSUME NEW e \in Deliveries, Open(e)'
        PROVE  posts'[e] <= row'[e].attempts /\ row'[e].attempts < MaxAttempts
    BY <2>1 DEF IInv, PostInv, Open
  <2>2. ASSUME NEW k \in jobs'
        PROVE  posts'[k.d] <= k.attempts + (IF k.phase \in {"claimed", "posting"} THEN 0 ELSE 1)
    BY <1>2, <2>2 DEF IInv, PostInv
  <2>3. QED
    BY <2>1, <2>2 DEF PostInv
<1>8. RepeatInv'
  <2>1. ASSUME NEW e \in Deliveries, Open(e)'
        PROVE  accepted'[e] <= errors'
    BY <2>1 DEF IInv, TypeOK, RepeatInv, Open
  <2>2. ASSUME NEW k \in jobs', k.phase \notin {"accepted", "marked"}
        PROVE  accepted'[k.d] <= errors'
    BY <1>2, <2>2 DEF IInv, TypeOK, RepeatInv
  <2>3. QED
    BY <2>1, <2>2 DEF RepeatInv
<1>9. QED
  BY <1>3, <1>4, <1>5, <1>6, <1>7, <1>8 DEF IInv

LEMMA JobFacts ==
  ASSUME IInv, NEW j \in jobs
  PROVE  /\ j \in Jobs /\ j.d \in Deliveries /\ j.attempts \in 0..(MaxAttempts - 1)
         /\ row[j.d] \in Rows /\ row[j.d].stage = "queued"
         /\ posts[j.d] \in Nat /\ accepted[j.d] \in Nat /\ errors \in 0..MaxErrors
         /\ posts[j.d] <= MaxAttempts /\ accepted[j.d] <= 1 + errors
         /\ MaxAttempts \in Nat /\ MaxErrors \in Nat /\ SubOf[j.d] \in Subs
BY SubAssumption, LimitAssumption
   DEF IInv, TypeOK, Jobs, ClaimInv, PostsBounded, RepeatsBounded

LEMMA MoveInv ==
  ASSUME IInv, NEW j \in jobs, NEW k, jobs' = (jobs \ {j}) \cup {k},
         Careful(j), Successor(j, k)
  PROVE  IInv'
<1> DEFINE next == {k}
<1>1. /\ jobs' = (jobs \ {j}) \cup next /\ \A l \in next : Successor(j, l)
      /\ \A l, m \in next : l = m
  OBVIOUS
<1> HIDE DEF next
<1>2. QED
  BY <1>1, StepInv

LEMMA EndInv ==
  ASSUME IInv, NEW j \in jobs, jobs' = jobs \ {j}, Careful(j)
  PROVE  IInv'
<1> DEFINE next == {}
<1>1. /\ jobs' = (jobs \ {j}) \cup next /\ \A l \in next : Successor(j, l)
      /\ \A l, m \in next : l = m
  OBVIOUS
<1> HIDE DEF next
<1>2. QED
  BY <1>1, StepInv

LEMMA LookupInv ==
  ASSUME IInv, NEW j \in jobs, Lookup(j)
  PROVE  IInv'
<1> DEFINE k == [j EXCEPT !.phase = "posting"]
<1>1. /\ row[j.d].claimed /\ ~row[j.d].delivered /\ ~row[j.d].abandoned
      /\ posts[j.d] <= j.attempts /\ accepted[j.d] <= errors
      /\ UNCHANGED <<sub, claiming, history, faults>>
  BY JobFacts DEF Lookup, IInv, ClaimInv, PostInv, RepeatInv
<1>2. CASE sub[SubOf[j.d]].live
  <2>1. jobs' = (jobs \ {j}) \cup {k} /\ UNCHANGED row
    BY <1>2 DEF Lookup
  <2>2. k \in Jobs /\ k.d = j.d /\ k.phase = "posting" /\ k.attempts = j.attempts
    BY JobFacts DEF Jobs, Phases
  <2> HIDE DEF k
  <2>3. Careful(j)
    BY <1>1, <2>1, JobFacts DEF Careful, Open, IInv, TypeOK, history, faults
  <2>4. ~Claimable(j.d)' /\ posts'[j.d] <= k.attempts /\ accepted'[j.d] <= errors'
    BY <1>1, <2>1, <2>2 DEF Claimable, history, faults
  <2>5. Successor(j, k)
    BY <1>1, <2>1, <2>2, <2>4, JobFacts DEF Successor, Jobs
  <2>6. QED
    BY <2>1, <2>3, <2>5, MoveInv
<1>3. CASE ~sub[SubOf[j.d]].live
  <2>1. jobs' = jobs \ {j} /\ MarkDelivered(j.d)
    BY <1>3 DEF Lookup
  <2>2. Careful(j)
    BY <1>1, <2>1, JobFacts DEF Careful, Open, IInv, TypeOK, Rows, MarkDelivered, history, faults
  <2>3. QED
    BY <2>1, <2>2, EndInv
<1>4. QED
  BY <1>2, <1>3

LEMMA PostingInv ==
  ASSUME IInv, NEW j \in jobs, Post(j)
  PROVE  IInv'
<1>1. /\ row[j.d].claimed /\ ~row[j.d].delivered /\ ~row[j.d].abandoned
      /\ posts[j.d] <= j.attempts /\ accepted[j.d] <= errors
  <2>1. j.phase = "posting"
    BY DEF Post
  <2>2. QED
    BY <2>1, JobFacts DEF IInv, ClaimInv, PostInv, RepeatInv
<1>2. /\ UNCHANGED <<row, sub, claiming, restarts, errors>>
      /\ posts' = [posts EXCEPT ![j.d] = @ + 1]
  BY DEF Post, rows, faults
<1>3. posts'[j.d] = posts[j.d] + 1 /\ ~Claimable(j.d)'
  BY <1>1, <1>2, JobFacts DEF Claimable, IInv, TypeOK
<1>4. ASSUME accepted' = [accepted EXCEPT ![j.d] = @ + 1] \/ UNCHANGED accepted
      PROVE  Careful(j)
  BY <1>1, <1>2, <1>3, <1>4, JobFacts DEF Careful, Open, IInv, TypeOK
<1>5. CASE /\ accepted' = [accepted EXCEPT ![j.d] = @ + 1]
           /\ jobs' = (jobs \ {j}) \cup {[j EXCEPT !.phase = "accepted"]}
  <2> DEFINE k == [j EXCEPT !.phase = "accepted"]
  <2>1. k \in Jobs /\ k.d = j.d /\ k.phase = "accepted" /\ k.attempts = j.attempts
    BY JobFacts DEF Jobs, Phases
  <2>2. jobs' = (jobs \ {j}) \cup {k}
    BY <1>5
  <2> HIDE DEF k
  <2>3. Successor(j, k)
    BY <1>1, <1>2, <1>3, <2>1, JobFacts DEF Successor
  <2>4. QED
    BY <1>4, <1>5, <2>2, <2>3, MoveInv
<1>6. CASE /\ UNCHANGED accepted
           /\ \E late \in BOOLEAN : jobs' =
                (jobs \ {j}) \cup {[j EXCEPT !.phase = "retrying", !.caught = late]}
  <2>1. PICK late \in BOOLEAN : jobs' =
          (jobs \ {j}) \cup {[j EXCEPT !.phase = "retrying", !.caught = late]}
    BY <1>6
  <2> DEFINE k == [j EXCEPT !.phase = "retrying", !.caught = late]
  <2>2. k \in Jobs /\ k.d = j.d /\ k.phase = "retrying" /\ k.attempts = j.attempts
    BY JobFacts DEF Jobs, Phases
  <2>3. jobs' = (jobs \ {j}) \cup {k}
    BY <2>1
  <2> HIDE DEF k
  <2>4. Successor(j, k)
    BY <1>1, <1>2, <1>3, <1>6, <2>2, JobFacts DEF Successor
  <2>5. QED
    BY <1>4, <1>6, <2>3, <2>4, MoveInv
<1>7. QED
  BY <1>5, <1>6 DEF Post

LEMMA RetriedRow ==
  ASSUME NEW x \in Rows, NEW a \in 0..MaxAttempts
  PROVE  /\ [x EXCEPT !.attempts = a, !.claimed = FALSE, !.abandoned = TRUE] \in Rows
         /\ [x EXCEPT !.attempts = a, !.claimed = FALSE, !.due = FALSE] \in Rows
<1> DEFINE y == [x EXCEPT !.attempts = a]
           z == [y EXCEPT !.claimed = FALSE]
<1>1. y \in Rows
  BY DEF Rows
<1> HIDE DEF y
<1>2. z \in Rows
  BY <1>1 DEF Rows
<1> HIDE DEF z
<1>3. [z EXCEPT !.abandoned = TRUE] \in Rows /\ [z EXCEPT !.due = FALSE] \in Rows
  BY <1>2 DEF Rows
<1>4. QED
  BY <1>3 DEF y, z

LEMMA CountedSub ==
  ASSUME NEW x \in [live : BOOLEAN, failures : Nat, disabled : BOOLEAN]
  PROVE  /\ [x EXCEPT !.failures = 0] \in [live : BOOLEAN, failures : Nat, disabled : BOOLEAN]
         /\ [x EXCEPT !.failures = @ + 1] \in [live : BOOLEAN, failures : Nat, disabled : BOOLEAN]
         /\ [x EXCEPT !.disabled = TRUE] \in [live : BOOLEAN, failures : Nat, disabled : BOOLEAN]
<1>1. x.failures + 1 \in Nat /\ 0 \in Nat
  OBVIOUS
<1>2. [x EXCEPT !.failures = 0] \in [live : BOOLEAN, failures : Nat, disabled : BOOLEAN]
  BY <1>1
<1>3. [x EXCEPT !.failures = x.failures + 1] \in [live : BOOLEAN, failures : Nat, disabled : BOOLEAN]
  BY <1>1
<1>4. [x EXCEPT !.disabled = TRUE] \in [live : BOOLEAN, failures : Nat, disabled : BOOLEAN]
  OBVIOUS
<1>5. QED
  BY <1>2, <1>3, <1>4

\* A job's write touches its own delivery and its subscription, and leaves the
\* delivery in nobody's reach, or open with the attempt on record.
LEMMA WriteFacts ==
  ASSUME IInv, NEW j \in jobs, Write(j)
  PROVE  /\ sub' \in [Subs -> [live : BOOLEAN, failures : Nat, disabled : BOOLEAN]]
         /\ row' \in [Deliveries -> Rows]
         /\ \A e \in Deliveries \ {j.d} : row'[e] = row[e]
         /\ row'[j.d].stage = "queued" /\ ~Claimable(j.d)'
         /\ j.phase \in {"accepted", "retrying", "marked", "counting", "disabling"}
         /\ j.phase = "accepted" => row'[j.d].delivered
         /\ j.phase \in {"marked", "counting", "disabling"} => row' = row
         /\ j.phase = "retrying" => \/ row'[j.d].abandoned
                                    \/ /\ j.attempts + 1 < MaxAttempts
                                       /\ row'[j.d].attempts = j.attempts + 1
<1> DEFINE s == SubOf[j.d]
<1>1. /\ row \in [Deliveries -> Rows]
      /\ sub \in [Subs -> [live : BOOLEAN, failures : Nat, disabled : BOOLEAN]]
      /\ j.d \in Deliveries /\ s \in Subs /\ ~Claimable(j.d)
  BY JobFacts DEF IInv, TypeOK, ClaimInv
<1>2. CASE j.phase = "accepted" /\ MarkDelivered(j.d) /\ UNCHANGED sub
  <2>1. row'[j.d] = [row[j.d] EXCEPT !.delivered = TRUE, !.claimed = FALSE]
    BY <1>1, <1>2 DEF MarkDelivered
  <2>2. /\ row'[j.d] \in Rows /\ row'[j.d].stage = "queued" /\ row'[j.d].delivered
        /\ row' \in [Deliveries -> Rows] /\ \A e \in Deliveries \ {j.d} : row'[e] = row[e]
    BY <1>1, <1>2, <2>1, JobFacts DEF MarkDelivered, Rows
  <2>3. QED
    BY <1>1, <1>2, <2>2 DEF Claimable
<1>3. CASE j.phase = "retrying" /\ RecordRetry(j) /\ UNCHANGED sub
  <2> DEFINE r == IF j.attempts + 1 >= MaxAttempts
                  THEN [row[j.d] EXCEPT !.attempts = j.attempts + 1, !.claimed = FALSE,
                                        !.abandoned = TRUE]
                  ELSE [row[j.d] EXCEPT !.attempts = j.attempts + 1, !.claimed = FALSE,
                                        !.due = FALSE]
  <2>1. row' = [row EXCEPT ![j.d] = r]
    BY <1>3 DEF RecordRetry
  <2>2. /\ r \in Rows /\ r.stage = "queued"
        /\ r.abandoned \/ ~r.due
        /\ r.abandoned \/ (j.attempts + 1 < MaxAttempts /\ r.attempts = j.attempts + 1)
    <3>1. /\ j.attempts + 1 \in 0..MaxAttempts /\ row[j.d] \in Rows
          /\ row[j.d].stage = "queued"
      BY JobFacts
    <3>2. CASE j.attempts + 1 >= MaxAttempts
      <4>1. r = [row[j.d] EXCEPT !.attempts = j.attempts + 1, !.claimed = FALSE,
                                 !.abandoned = TRUE]
        BY <3>2
      <4>2. r \in Rows
        BY <3>1, <4>1, RetriedRow
      <4>3. QED
        BY <3>1, <4>1, <4>2 DEF Rows
    <3>3. CASE ~(j.attempts + 1 >= MaxAttempts)
      <4>1. r = [row[j.d] EXCEPT !.attempts = j.attempts + 1, !.claimed = FALSE,
                                 !.due = FALSE]
        BY <3>3
      <4>2. r \in Rows
        BY <3>1, <4>1, RetriedRow
      <4>3. j.attempts + 1 < MaxAttempts
        BY <3>1, <3>3, JobFacts
      <4>4. QED
        BY <3>1, <4>1, <4>2, <4>3 DEF Rows
    <3>4. QED
      BY <3>2, <3>3
  <2> HIDE DEF r
  <2>3. row'[j.d] = r /\ row' \in [Deliveries -> Rows]
        /\ \A e \in Deliveries \ {j.d} : row'[e] = row[e]
    BY <1>1, <2>1, <2>2
  <2>4. QED
    BY <1>1, <1>3, <2>2, <2>3 DEF Claimable
<1>4. ASSUME j.phase \in {"marked", "counting", "disabling"}, UNCHANGED row,
             NEW new \in [live : BOOLEAN, failures : Nat, disabled : BOOLEAN],
             OnLive(s, new)
      PROVE  /\ sub' \in [Subs -> [live : BOOLEAN, failures : Nat, disabled : BOOLEAN]]
             /\ ~Claimable(j.d)'
  BY <1>1, <1>4 DEF OnLive, Claimable
<1>5. /\ [sub[s] EXCEPT !.failures = 0] \in [live : BOOLEAN, failures : Nat, disabled : BOOLEAN]
      /\ [sub[s] EXCEPT !.failures = @ + 1] \in [live : BOOLEAN, failures : Nat, disabled : BOOLEAN]
      /\ [sub[s] EXCEPT !.disabled = TRUE] \in [live : BOOLEAN, failures : Nat, disabled : BOOLEAN]
  <2>1. sub[s] \in [live : BOOLEAN, failures : Nat, disabled : BOOLEAN]
    BY <1>1
  <2>2. QED
    BY <2>1, CountedSub
<1>6. CASE j.phase = "marked" /\ OnLive(s, [sub[s] EXCEPT !.failures = 0]) /\ UNCHANGED row
  BY <1>1, <1>4, <1>5, <1>6, JobFacts
<1>7. CASE j.phase = "counting" /\ OnLive(s, [sub[s] EXCEPT !.failures = @ + 1]) /\ UNCHANGED row
  BY <1>1, <1>4, <1>5, <1>7, JobFacts
<1>8. CASE j.phase = "disabling" /\ OnLive(s, [sub[s] EXCEPT !.disabled = TRUE]) /\ UNCHANGED row
  BY <1>1, <1>4, <1>5, <1>8, JobFacts
<1>9. QED
  BY <1>2, <1>3, <1>6, <1>7, <1>8 DEF Write

\* What a job knows of its delivery once the request has been made.
LEMMA PostedFacts ==
  ASSUME IInv, NEW j \in jobs, j.phase \notin {"claimed", "posting"}
  PROVE  /\ posts[j.d] <= j.attempts + 1
         /\ j.phase \notin {"accepted", "marked"} => accepted[j.d] <= errors
         /\ ~Claimable(j.d)
BY DEF IInv, PostInv, RepeatInv, ClaimInv

\* A write that takes effect leaves the rest of the system careful.
LEMMA WriteCareful ==
  ASSUME IInv, NEW j \in jobs, Write(j), UNCHANGED <<claiming, restarts, history>>,
         errors' \in 0..MaxErrors, errors' >= errors
  PROVE  Careful(j)
<1>1. j.phase \notin {"claimed", "posting"}
  BY WriteFacts
<1>2. /\ posts' = posts /\ accepted' = accepted
      /\ posts'[j.d] <= MaxAttempts /\ accepted'[j.d] <= 1 + errors'
  BY JobFacts DEF history
<1>3. ASSUME Open(j.d)'
      PROVE  /\ posts'[j.d] <= row'[j.d].attempts /\ row'[j.d].attempts < MaxAttempts
             /\ accepted'[j.d] <= errors'
  <2>1. CASE j.phase = "accepted"
    BY <1>3, <2>1, WriteFacts DEF Open
  <2>2. CASE j.phase = "retrying"
    <3>1. row'[j.d].attempts = j.attempts + 1 /\ j.attempts + 1 < MaxAttempts
      BY <1>3, <2>2, WriteFacts DEF Open
    <3>2. posts[j.d] <= j.attempts + 1 /\ accepted[j.d] <= errors
      BY <1>1, <2>2, PostedFacts
    <3>3. QED
      BY <1>2, <3>1, <3>2, JobFacts
  <2>3. CASE j.phase \in {"marked", "counting", "disabling"}
    <3>1. row' = row /\ Open(j.d)
      BY <1>3, <2>3, WriteFacts DEF Open
    <3>2. /\ posts[j.d] <= row[j.d].attempts /\ row[j.d].attempts < MaxAttempts
          /\ accepted[j.d] <= errors
      BY <3>1, JobFacts DEF IInv, PostInv, RepeatInv
    <3>3. QED
      BY <1>2, <3>1, <3>2, JobFacts
  <2>4. QED
    BY <2>1, <2>2, <2>3, WriteFacts
<1>4. QED
  BY <1>2, <1>3, WriteFacts DEF Careful, IInv, TypeOK

LEMMA ProceedInv ==
  ASSUME IInv, NEW j \in jobs, Proceed(j)
  PROVE  IInv'
<1> DEFINE next == Following(j)
<1>1. /\ Write(j) /\ jobs' = (jobs \ {j}) \cup next
      /\ UNCHANGED <<claiming, history, faults>>
  BY DEF Proceed
<1>2. errors' \in 0..MaxErrors /\ errors' >= errors /\ errors' = errors
  BY <1>1, JobFacts DEF faults
<1>3. Careful(j)
  BY <1>1, <1>2, WriteCareful DEF faults
<1>4. /\ j.phase \notin {"claimed", "posting"} /\ ~Claimable(j.d)'
      /\ posts'[j.d] <= j.attempts + 1
      /\ j.phase \notin {"accepted", "marked"} => accepted'[j.d] <= errors'
  BY <1>1, <1>2, WriteFacts, PostedFacts DEF history
<1>5. \A k, l \in next : k = l
  BY DEF Following
<1>6. ASSUME NEW k \in next PROVE Successor(j, k)
  <2>1. \/ j.phase = "accepted" /\ k = [j EXCEPT !.phase = "marked"]
        \/ j.phase = "retrying" /\ k = [j EXCEPT !.phase = "counting"]
        \/ j.phase = "counting" /\ k = [j EXCEPT !.phase = "disabling"]
    BY <1>6 DEF Following
  <2>2. /\ k \in Jobs /\ k.d = j.d /\ k.attempts = j.attempts
        /\ \/ j.phase = "accepted" /\ k.phase = "marked"
           \/ j.phase \in {"retrying", "counting"} /\ k.phase \in {"counting", "disabling"}
    BY <2>1, JobFacts DEF Jobs, Phases
  <2>3. QED
    BY <1>4, <2>2 DEF Successor
<1> HIDE DEF next
<1>7. QED
  BY <1>1, <1>3, <1>5, <1>6, StepInv

LEMMA ErrorFacts ==
  ASSUME IInv, Erring
  PROVE  errors' \in 0..MaxErrors /\ errors' = errors + 1 /\ UNCHANGED <<history, restarts>>
BY LimitAssumption DEF IInv, TypeOK, Erring

LEMMA LookupErrorInv ==
  ASSUME IInv, NEW j \in jobs, LookupError(j)
  PROVE  IInv'
<1>1. /\ errors' \in 0..MaxErrors /\ errors' >= errors /\ jobs' \subseteq jobs
      /\ UNCHANGED <<rows, claiming, history, restarts>>
  BY ErrorFacts, JobFacts DEF LookupError
<1>2. QED
  BY <1>1, DropInv DEF IInv, TypeOK, rows

\* The retry of a job whose write failed: the error has paid for a repetition.
LEMMA WriteErrorInv ==
  ASSUME IInv, NEW j \in jobs, WriteError(j)
  PROVE  IInv'
<1> DEFINE k == [j EXCEPT !.phase = "retrying", !.caught = TRUE]
           next == IF j.caught THEN {} ELSE {k}
<1>1. /\ j.phase \notin {"claimed", "posting"}
      /\ Write(j) \/ UNCHANGED rows
      /\ jobs' = (jobs \ {j}) \cup next
      /\ UNCHANGED <<claiming, history, restarts>>
      /\ errors' \in 0..MaxErrors /\ errors' = errors + 1
  BY ErrorFacts DEF WriteError
<1>2. errors' >= errors
  BY <1>1, JobFacts
<1>3. Careful(j) /\ ~Claimable(j.d)'
  <2>1. CASE Write(j)
    BY <1>1, <1>2, <2>1, WriteCareful, WriteFacts
  <2>2. CASE UNCHANGED rows
    <3>1. row' = row /\ sub' = sub /\ posts' = posts /\ accepted' = accepted
      BY <1>1, <2>2 DEF rows, history
    <3>2. Open(j.d) => /\ posts[j.d] <= row[j.d].attempts /\ row[j.d].attempts < MaxAttempts
                       /\ accepted[j.d] <= errors
      BY JobFacts DEF IInv, PostInv, RepeatInv
    <3>3. ~Claimable(j.d)'
      BY <1>1, <3>1, PostedFacts DEF Claimable
    <3>4. posts'[j.d] <= MaxAttempts /\ accepted'[j.d] <= 1 + errors'
      BY <1>1, <3>1, JobFacts
    <3>5. QED
      BY <1>1, <1>2, <3>1, <3>2, <3>3, <3>4, JobFacts DEF Careful, Open, IInv, TypeOK
  <2>3. QED
    BY <1>1, <2>1, <2>2
<1>4. k \in Jobs /\ k.d = j.d /\ k.phase = "retrying" /\ k.attempts = j.attempts
  BY JobFacts DEF Jobs, Phases
<1>5. posts'[j.d] <= j.attempts + 1 /\ accepted'[j.d] <= errors'
  BY <1>1, PostedFacts, JobFacts DEF history
<1>6. \A l, m \in next : l = m
  OBVIOUS
<1> HIDE DEF k
<1>7. Successor(j, k)
  BY <1>3, <1>4, <1>5 DEF Successor
<1>8. \A l \in next : Successor(j, l)
  BY <1>7
<1> HIDE DEF next
<1>9. QED
  BY <1>1, <1>3, <1>6, <1>8, StepInv

LEMMA NextInv == IInv /\ [Next]_vars => IInv'
<1> SUFFICES ASSUME IInv, [Next]_vars PROVE IInv'
  OBVIOUS
<1>1. CASE UNCHANGED vars
  <2>1. errors \in Int /\ UNCHANGED <<row, history, sub, claiming, jobs, restarts, errors>>
    BY <1>1, LimitAssumption DEF vars, rows, faults, IInv, TypeOK
  <2>2. QED
    BY <2>1, DropInv DEF IInv, TypeOK
<1>2. CASE \E d \in Deliveries : Match(d) \/ Enqueue(d) \/ BecomeDue(d)
  BY <1>2, QueueInv
<1>3. CASE \E s \in Subs : DeleteSubscription(s)
  BY <1>3, DeleteInv
<1>4. CASE \E t \in Ticks : StartTick(t) \/ EndClaims(t) \/ Restart(t) \/ ClaimError(t)
  BY <1>4, TickInv
<1>5. CASE \E t \in Ticks, d \in Deliveries : Claim(t, d)
  BY <1>5, ClaimingInv
<1>6. CASE \E j \in jobs : Work(j) \/ LookupError(j) \/ WriteError(j)
  BY <1>6, LookupInv, PostingInv, ProceedInv, LookupErrorInv, WriteErrorInv DEF Work
<1>7. QED
  BY <1>1, <1>2, <1>3, <1>4, <1>5, <1>6 DEF Next

-----------------------------------------------------------------------------

\* The invariant holds of the worker, whatever the limits and however many
\* ticks, deliveries, restarts and failing writes there are.
THEOREM InvariantHolds == Spec => []IInv
<1>1. IInv /\ UNCHANGED vars => IInv'
  BY NextInv
<1>2. QED
  BY InitInv, NextInv, <1>1, PTL DEF Spec

\* Two ticks never work on the same delivery (claimDueDeliveries).
THEOREM ExclusiveClaimHolds == Spec => []ExclusiveClaim
<1>1. IInv => ExclusiveClaim
  BY DEF IInv
<1>2. QED
  BY InvariantHolds, <1>1, PTL

\* No delivery is posted more often than MAX_DELIVERY_ATTEMPTS (recordRetry).
THEOREM PostsBoundedHolds == Spec => []PostsBounded
<1>1. IInv => PostsBounded
  BY DEF IInv
<1>2. QED
  BY InvariantHolds, <1>1, PTL

\* A delivery is accepted once, and once more for each write of the worker
\* that failed (deliverOne).
THEOREM RepeatsBoundedHolds == Spec => []RepeatsBounded
<1>1. IInv => RepeatsBounded
  BY DEF IInv
<1>2. QED
  BY InvariantHolds, <1>1, PTL

-----------------------------------------------------------------------------
(* A subscription is disabled for what was abandoned *)

\* Sets of deliveries can be counted, and compared by what is in them.
LEMMA Counting ==
  ASSUME NEW S \in SUBSET Deliveries, NEW T \in SUBSET Deliveries
  PROVE  /\ Cardinality(S) \in Nat
         /\ S \subseteq T => Cardinality(S) <= Cardinality(T)
<1>1. IsFiniteSet(T) /\ IsFiniteSet(S)
  BY FiniteAssumption, FS_Subset
<1> QED BY <1>1, FS_Subset, FS_CardinalityType

LEMMA CountingOne ==
  ASSUME NEW S \in SUBSET Deliveries, NEW T \in SUBSET Deliveries, NEW d \in Deliveries
  PROVE  /\ S \subseteq T \cup {d} => Cardinality(S) <= Cardinality(T) + 1
         /\ d \in T /\ S \subseteq T \ {d} => Cardinality(S) + 1 <= Cardinality(T)
<1>1. /\ T \cup {d} \in SUBSET Deliveries /\ T \ {d} \in SUBSET Deliveries
      /\ IsFiniteSet(T)
  BY FiniteAssumption, FS_Subset
<1>2. /\ Cardinality(T \cup {d}) <= Cardinality(T) + 1
      /\ d \in T => Cardinality(T \ {d}) = Cardinality(T) - 1
      /\ Cardinality(T) \in Nat
  BY <1>1, FS_AddElement, FS_RemoveElement, FS_CardinalityType
<1>3. /\ S \subseteq T \cup {d} => Cardinality(S) <= Cardinality(T \cup {d})
      /\ S \subseteq T \ {d} => Cardinality(S) <= Cardinality(T \ {d})
      /\ Cardinality(S) \in Nat /\ Cardinality(T \cup {d}) \in Nat
  BY <1>1, Counting
<1> QED BY <1>2, <1>3

LEMMA EarnedTypes ==
  ASSUME IInv
  PROVE  /\ \A s \in Subs : /\ sub[s].failures \in Nat
                            /\ Uncounted(s) \in SUBSET Deliveries
                            /\ AbandonedOf(s) \in SUBSET Deliveries
                            /\ Cardinality(Uncounted(s)) \in Nat
                            /\ Cardinality(AbandonedOf(s)) \in Nat
         /\ errors \in Nat /\ MaxFailures \in Nat
         /\ \A j \in jobs : j.d \in Deliveries /\ SubOf[j.d] \in Subs
<1>1. \A s \in Subs : Uncounted(s) \in SUBSET Deliveries /\ AbandonedOf(s) \in SUBSET Deliveries
  BY DEF Uncounted, AbandonedOf
<1>2. \A s \in Subs : Cardinality(Uncounted(s)) \in Nat /\ Cardinality(AbandonedOf(s)) \in Nat
  BY <1>1, Counting
<1> QED BY <1>1, <1>2, JobFacts, LimitAssumption DEF IInv, TypeOK

\* No delivery abandoned is ever taken back.
Kept == \A d \in Deliveries : row[d].abandoned => row'[d].abandoned

LEMMA KeptCounts ==
  ASSUME Kept, NEW s \in Subs
  PROVE  /\ AbandonedOf(s)' \in SUBSET Deliveries /\ Uncounted(s)' \in SUBSET Deliveries
         /\ Cardinality(AbandonedOf(s)') \in Nat /\ Cardinality(Uncounted(s)') \in Nat
         /\ Cardinality(AbandonedOf(s)) <= Cardinality(AbandonedOf(s)')
<1>1. /\ AbandonedOf(s)' \in SUBSET Deliveries /\ Uncounted(s)' \in SUBSET Deliveries
      /\ AbandonedOf(s) \in SUBSET Deliveries /\ AbandonedOf(s) \subseteq AbandonedOf(s)'
  BY DEF Kept, AbandonedOf, Uncounted
<1> QED BY <1>1, Counting

\* The invariant's second half follows from its first, for a step that
\* disables by a job that was about to, and makes no job that may not.
LEMMA Earning ==
  ASSUME IInv, EarnedInv, Kept, errors' \in Nat, errors <= errors',
         \A s \in Subs : sub'[s].failures + Cardinality(Uncounted(s)')
                           <= Cardinality(AbandonedOf(s)') + errors',
         \A s \in Subs : sub'[s].disabled =>
           sub[s].disabled \/ \E j \in jobs : j.phase = "disabling" /\ SubOf[j.d] = s,
         \A k \in jobs' : k.phase = "disabling" =>
           k \in jobs \/ \E s \in Subs : /\ SubOf[k.d] = s
                                         /\ Cardinality(AbandonedOf(s)) + errors >= MaxFailures
  PROVE  EarnedInv'
<1>1. ASSUME NEW s \in Subs, Cardinality(AbandonedOf(s)) + errors >= MaxFailures
      PROVE  Cardinality(AbandonedOf(s)') + errors' >= MaxFailures
  BY <1>1, KeptCounts, EarnedTypes
<1>2. ASSUME NEW k \in jobs', k.phase = "disabling"
      PROVE  Cardinality(AbandonedOf(SubOf[k.d])') + errors' >= MaxFailures
  <2>1. CASE k \in jobs
    BY <1>1, <1>2, <2>1, EarnedTypes DEF EarnedInv
  <2> QED BY <1>1, <1>2, <2>1
<1>3. ASSUME NEW s \in Subs, sub'[s].disabled
      PROVE  Cardinality(AbandonedOf(s)') + errors' >= MaxFailures
  <2>1. CASE sub[s].disabled
    BY <1>1, <2>1 DEF EarnedInv, DisabledEarned
  <2>2. CASE \E j \in jobs : j.phase = "disabling" /\ SubOf[j.d] = s
    BY <1>1, <2>2 DEF EarnedInv
  <2> QED BY <1>3, <2>1, <2>2
<1> QED BY <1>2, <1>3 DEF EarnedInv, DisabledEarned

\* A step that abandons nothing and counts nothing, and after which nothing
\* more is to be counted.
LEMMA EarnedQuietly ==
  ASSUME IInv, EarnedInv, errors' \in Nat, errors <= errors',
         \A d \in Deliveries : row'[d].abandoned = row[d].abandoned,
         \A s \in Subs : /\ sub'[s].failures \in Nat /\ sub'[s].failures <= sub[s].failures
                         /\ sub'[s].disabled => sub[s].disabled,
         \A k \in jobs' : \/ k \in jobs
                          \/ k.phase \notin {"counting", "disabling", "retrying"}
                          \/ k.phase = "retrying" /\ ~row[k.d].abandoned
  PROVE  EarnedInv'
<1>1. Kept
  BY DEF Kept
<1>2. ASSUME NEW s \in Subs
      PROVE  sub'[s].failures + Cardinality(Uncounted(s)')
               <= Cardinality(AbandonedOf(s)') + errors'
  <2>1. Uncounted(s)' \subseteq Uncounted(s)
    BY DEF Uncounted
  <2>2. Cardinality(Uncounted(s)') <= Cardinality(Uncounted(s))
    BY <1>1, <2>1, Counting, KeptCounts, EarnedTypes
  <2> QED BY <1>1, <2>2, KeptCounts, EarnedTypes DEF EarnedInv
<1> QED BY <1>1, <1>2, Earning

-----------------------------------------------------------------------------

LEMMA EarnedQueue ==
  ASSUME IInv, EarnedInv, NEW d \in Deliveries,
         Match(d) \/ Enqueue(d) \/ BecomeDue(d) \/ \E t \in Ticks : Claim(t, d)
  PROVE  EarnedInv'
<1>1. row \in [Deliveries -> Rows]
  BY DEF IInv, TypeOK
<1>2. \A e \in Deliveries : row'[e].abandoned = row[e].abandoned
  BY <1>1 DEF Match, Enqueue, BecomeDue, Claim, Rows
<1>3. UNCHANGED <<sub, errors>> /\ \A k \in jobs' : k \in jobs \/ k.phase = "claimed"
  BY DEF Match, Enqueue, BecomeDue, Claim, faults
<1> QED BY <1>2, <1>3, EarnedQuietly, EarnedTypes

LEMMA EarnedTick ==
  ASSUME IInv, EarnedInv, NEW t \in Ticks,
         StartTick(t) \/ EndClaims(t) \/ Restart(t) \/ ClaimError(t)
  PROVE  EarnedInv'
<1>1. errors' = errors \/ errors' = errors + 1
  BY DEF StartTick, EndClaims, Restart, ClaimError, Erring, faults
<1>2. UNCHANGED <<row, sub>> /\ jobs' \subseteq jobs
  BY DEF StartTick, EndClaims, Restart, ClaimError, rows
<1> QED BY <1>1, <1>2, EarnedQuietly, EarnedTypes

LEMMA EarnedDelete ==
  ASSUME IInv, EarnedInv, NEW s \in Subs, DeleteSubscription(s)
  PROVE  EarnedInv'
<1>1. sub \in [Subs -> [live : BOOLEAN, failures : Nat, disabled : BOOLEAN]]
  BY DEF IInv, TypeOK
<1>2. \A r \in Subs : sub'[r].failures = sub[r].failures /\ sub'[r].disabled = sub[r].disabled
  BY <1>1 DEF DeleteSubscription
<1>3. UNCHANGED <<row, jobs, errors>>
  BY DEF DeleteSubscription, faults
<1> QED BY <1>2, <1>3, EarnedQuietly, EarnedTypes

LEMMA EarnedLookup ==
  ASSUME IInv, EarnedInv, NEW j \in jobs, Lookup(j) \/ LookupError(j)
  PROVE  EarnedInv'
<1>1. row \in [Deliveries -> Rows] /\ j.d \in Deliveries /\ j \in Jobs
  BY JobFacts DEF IInv, TypeOK
<1>2. CASE Lookup(j)
  <2> DEFINE k == [j EXCEPT !.phase = "posting"]
  <2>1. k.phase = "posting"
    BY <1>1 DEF Jobs
  <2>2. jobs' \subseteq jobs \cup {k} /\ UNCHANGED <<sub, errors>>
        /\ (UNCHANGED row \/ MarkDelivered(j.d))
    BY <1>2 DEF Lookup, faults
  <2>3. \A e \in Deliveries : row'[e].abandoned = row[e].abandoned
    BY <1>1, <2>2 DEF MarkDelivered, Rows
  <2> HIDE DEF k
  <2> QED BY <2>1, <2>2, <2>3, EarnedQuietly, EarnedTypes
<1>3. CASE LookupError(j)
  <2>1. jobs' \subseteq jobs /\ UNCHANGED <<row, sub>> /\ errors' = errors + 1
    BY <1>3 DEF LookupError, Erring, rows
  <2> QED BY <2>1, EarnedQuietly, EarnedTypes
<1> QED BY <1>2, <1>3

\* A delivery that is being posted is not abandoned, so its retry owes nothing.
LEMMA EarnedPost ==
  ASSUME IInv, EarnedInv, NEW j \in jobs, Post(j)
  PROVE  EarnedInv'
<1>1. j.d \in Deliveries /\ j \in Jobs /\ ~row[j.d].abandoned
  BY JobFacts DEF IInv, ClaimInv, Post
<1>2. UNCHANGED <<row, sub, errors>>
  BY DEF Post, rows, faults
<1>3. PICK k : /\ jobs' \subseteq jobs \cup {k} /\ k.d = j.d
               /\ k.phase \in {"accepted", "retrying"}
  <2>1. /\ [j EXCEPT !.phase = "accepted"].d = j.d
        /\ [j EXCEPT !.phase = "accepted"].phase = "accepted"
    BY <1>1 DEF Jobs
  <2>2. ASSUME NEW late \in BOOLEAN
        PROVE  /\ [j EXCEPT !.phase = "retrying", !.caught = late].d = j.d
               /\ [j EXCEPT !.phase = "retrying", !.caught = late].phase = "retrying"
    BY <1>1 DEF Jobs
  <2>3. CASE jobs' = (jobs \ {j}) \cup {[j EXCEPT !.phase = "accepted"]}
    BY <2>1, <2>3
  <2>4. CASE \E late \in BOOLEAN : jobs' =
               (jobs \ {j}) \cup {[j EXCEPT !.phase = "retrying", !.caught = late]}
    <3>1. PICK late \in BOOLEAN : jobs' =
                 (jobs \ {j}) \cup {[j EXCEPT !.phase = "retrying", !.caught = late]}
      BY <2>4
    <3> DEFINE new == [j EXCEPT !.phase = "retrying", !.caught = late]
    <3>2. new.d = j.d /\ new.phase = "retrying" /\ jobs' \subseteq jobs \cup {new}
      BY <2>2, <3>1
    <3> HIDE DEF new
    <3> QED BY <3>2
  <2> QED BY <2>3, <2>4 DEF Post
<1> QED BY <1>1, <1>2, <1>3, EarnedQuietly, EarnedTypes

\* Whoever takes the place of j, the other deliveries' jobs are what they were.
LEMMA UncountedAfter ==
  ASSUME IInv, NEW j \in jobs, NEW next, jobs' = (jobs \ {j}) \cup next,
         \A k \in next : k.d = j.d,
         \A e \in Deliveries \ {j.d} : row'[e].abandoned = row[e].abandoned,
         NEW s \in Subs
  PROVE  /\ Uncounted(s)' \subseteq Uncounted(s) \cup {j.d}
         /\ s # SubOf[j.d] => Uncounted(s)' \subseteq Uncounted(s)
         /\ (\A k \in next : k.phase \notin {"counting", "retrying"})
              => Uncounted(s)' \subseteq Uncounted(s) \ {j.d}
<1>1. \A k \in jobs \ {j} : k.d \in Deliveries \ {j.d}
  BY JobFacts DEF IInv, ExclusiveClaim
<1>2. \A e \in Uncounted(s)' \ {j.d} : e \in Uncounted(s)
  BY <1>1 DEF Uncounted
<1>3. j.d \in Uncounted(s)' =>
        SubOf[j.d] = s /\ \E k \in next : k.phase \in {"counting", "retrying"}
  BY <1>1 DEF Uncounted
<1> QED BY <1>2, <1>3

LEMMA WriteCounts ==
  ASSUME IInv, NEW j \in jobs, Write(j)
  PROVE  /\ Kept
         /\ \A e \in Deliveries \ {j.d} : row'[e].abandoned = row[e].abandoned
         /\ j.phase = "retrying" /\ j.attempts + 1 >= MaxAttempts => row'[j.d].abandoned
         /\ ~(j.phase = "retrying" /\ j.attempts + 1 >= MaxAttempts) =>
              row'[j.d].abandoned = row[j.d].abandoned
         /\ \A s \in Subs :
              /\ sub'[s].failures \in Nat
              /\ sub'[s].failures <= sub[s].failures
                   \/ (s = SubOf[j.d] /\ j.phase = "counting"
                       /\ sub'[s].failures = sub[s].failures + 1)
              /\ sub'[s].disabled => sub[s].disabled \/ (j.phase = "disabling" /\ SubOf[j.d] = s)
<1>1. /\ row \in [Deliveries -> Rows] /\ j.d \in Deliveries /\ j.attempts \in Nat
      /\ MaxAttempts \in Nat
      /\ sub \in [Subs -> [live : BOOLEAN, failures : Nat, disabled : BOOLEAN]]
      /\ SubOf[j.d] \in Subs
  BY JobFacts, LimitAssumption DEF IInv, TypeOK
<1>2. CASE j.phase = "accepted" /\ MarkDelivered(j.d) /\ UNCHANGED sub
  <2>1. \A e \in Deliveries : row'[e].abandoned = row[e].abandoned
    BY <1>1, <1>2 DEF MarkDelivered, Rows
  <2> QED BY <1>1, <1>2, <2>1 DEF Kept
<1>3. CASE j.phase = "retrying" /\ RecordRetry(j) /\ UNCHANGED sub
  <2>1. CASE j.attempts + 1 >= MaxAttempts
    <3>1. row' = [row EXCEPT ![j.d] = [@ EXCEPT !.attempts = j.attempts + 1,
                                        !.claimed = FALSE, !.abandoned = TRUE]]
      BY <1>3, <2>1 DEF RecordRetry
    <3>2. row'[j.d].abandoned /\ \A e \in Deliveries \ {j.d} : row'[e] = row[e]
      BY <1>1, <3>1 DEF Rows
    <3>3. /\ Kept /\ \A e \in Deliveries \ {j.d} : row'[e].abandoned = row[e].abandoned
      BY <1>1, <3>2 DEF Kept
    <3>4. \A s \in Subs : /\ sub'[s].failures \in Nat
                          /\ sub'[s].failures <= sub[s].failures
                          /\ sub'[s].disabled => sub[s].disabled
      BY <1>1, <1>3
    <3>5. j.phase = "retrying" /\ j.attempts + 1 >= MaxAttempts
      BY <1>3, <2>1
    <3> QED BY ONLY <3>2, <3>3, <3>4, <3>5, Zenon
  <2>2. CASE ~(j.attempts + 1 >= MaxAttempts)
    <3>1. row' = [row EXCEPT ![j.d] = [@ EXCEPT !.attempts = j.attempts + 1,
                                        !.claimed = FALSE, !.due = FALSE]]
      BY <1>3, <2>2 DEF RecordRetry
    <3>2. /\ row'[j.d].abandoned = row[j.d].abandoned
          /\ \A e \in Deliveries \ {j.d} : row'[e] = row[e]
      BY <1>1, <3>1 DEF Rows
    <3> QED BY <1>1, <1>3, <2>2, <3>2 DEF Kept
  <2> QED BY <2>1, <2>2
<1>4. CASE j.phase = "marked" /\ OnLive(SubOf[j.d], [sub[SubOf[j.d]] EXCEPT !.failures = 0])
           /\ UNCHANGED row
  <2>1. \A s \in Subs : /\ sub'[s].failures \in Nat /\ sub'[s].failures <= sub[s].failures
                        /\ sub'[s].disabled = sub[s].disabled
    BY <1>1, <1>4 DEF OnLive
  <2> QED BY <1>1, <1>4, <2>1 DEF Kept
<1>5. CASE j.phase = "counting" /\ OnLive(SubOf[j.d], [sub[SubOf[j.d]] EXCEPT !.failures = @ + 1])
           /\ UNCHANGED row
  <2>1. \A s \in Subs : /\ sub'[s].failures \in Nat
                        /\ \/ sub'[s].failures = sub[s].failures
                           \/ s = SubOf[j.d] /\ sub'[s].failures = sub[s].failures + 1
                        /\ sub'[s].disabled = sub[s].disabled
    BY <1>1, <1>5 DEF OnLive
  <2> QED BY <1>1, <1>5, <2>1 DEF Kept
<1>6. CASE j.phase = "disabling" /\ OnLive(SubOf[j.d], [sub[SubOf[j.d]] EXCEPT !.disabled = TRUE])
           /\ UNCHANGED row
  <2>1. \A s \in Subs : /\ sub'[s].failures \in Nat /\ sub'[s].failures = sub[s].failures
                        /\ sub'[s].disabled => sub[s].disabled \/ s = SubOf[j.d]
    BY <1>1, <1>6 DEF OnLive
  <2> QED BY <1>1, <1>6, <2>1 DEF Kept
<1> QED BY <1>2, <1>3, <1>4, <1>5, <1>6 DEF Write

\* One delivery more to count needs one more abandoned, or an error.
LEMMA EarnedSum ==
  ASSUME IInv, EarnedInv, Kept, NEW s \in Subs, NEW d \in Deliveries,
         errors' \in Nat, errors <= errors', sub'[s].failures \in Nat,
         \/ /\ sub'[s].failures <= sub[s].failures
            /\ \/ Uncounted(s)' \subseteq Uncounted(s)
               \/ /\ Uncounted(s)' \subseteq Uncounted(s) \cup {d}
                  /\ \/ errors' = errors + 1
                     \/ d \in AbandonedOf(s)' /\ d \notin AbandonedOf(s)
         \/ /\ sub'[s].failures = sub[s].failures + 1
            /\ \/ d \in Uncounted(s) /\ Uncounted(s)' \subseteq Uncounted(s) \ {d}
               \/ Uncounted(s)' \subseteq Uncounted(s) /\ errors' = errors + 1
  PROVE  sub'[s].failures + Cardinality(Uncounted(s)') <= Cardinality(AbandonedOf(s)') + errors'
<1> DEFINE u == Cardinality(Uncounted(s))
           v == Cardinality(Uncounted(s)')
           a == Cardinality(AbandonedOf(s))
           b == Cardinality(AbandonedOf(s)')
<1>1. /\ u \in Nat /\ v \in Nat /\ a \in Nat /\ b \in Nat /\ a <= b
      /\ sub[s].failures \in Nat /\ errors \in Nat
      /\ sub[s].failures + u <= a + errors
  BY KeptCounts, EarnedTypes DEF EarnedInv
<1>2. /\ Uncounted(s)' \subseteq Uncounted(s) => v <= u
      /\ Uncounted(s)' \subseteq Uncounted(s) \cup {d} => v <= u + 1
      /\ d \in Uncounted(s) /\ Uncounted(s)' \subseteq Uncounted(s) \ {d} => v + 1 <= u
  BY KeptCounts, EarnedTypes, Counting, CountingOne
<1>3. d \in AbandonedOf(s)' /\ d \notin AbandonedOf(s) => a + 1 <= b
  <2>1. AbandonedOf(s) \subseteq AbandonedOf(s)'
    BY DEF Kept, AbandonedOf
  <2>2. d \notin AbandonedOf(s) => AbandonedOf(s) \subseteq AbandonedOf(s)' \ {d}
    BY <2>1
  <2> QED BY <2>2, KeptCounts, EarnedTypes, CountingOne
<1> HIDE DEF u, v, a, b
<1>4. sub'[s].failures + v <= b + errors'
  BY <1>1, <1>2, <1>3
<1> QED BY <1>4 DEF v, b

LEMMA EarnedProceed ==
  ASSUME IInv, EarnedInv, NEW j \in jobs, Proceed(j)
  PROVE  EarnedInv'
<1> DEFINE next == Following(j)
           d == j.d
<1>1. /\ Write(j) /\ jobs' = (jobs \ {j}) \cup next /\ errors' = errors
      /\ errors \in Nat /\ d \in Deliveries /\ SubOf[d] \in Subs /\ j \in Jobs
  BY JobFacts, EarnedTypes DEF Proceed, faults
<1>2. \A k \in next : /\ k.d = d
                      /\ k.phase = "marked" => j.phase = "accepted"
                      /\ k.phase = "counting" => j.phase = "retrying" /\ j.attempts + 1 >= MaxAttempts
                      /\ k.phase = "disabling" =>
                           /\ j.phase = "counting" /\ sub[SubOf[d]].live
                           /\ sub[SubOf[d]].failures + 1 >= MaxFailures
                      /\ k.phase \in {"marked", "counting", "disabling"}
  <2>1. ASSUME NEW k \in next
        PROVE  \/ j.phase = "accepted" /\ k = [j EXCEPT !.phase = "marked"]
               \/ /\ j.phase = "retrying" /\ j.attempts + 1 >= MaxAttempts
                  /\ k = [j EXCEPT !.phase = "counting"]
               \/ /\ j.phase = "counting" /\ sub[SubOf[d]].live
                  /\ sub[SubOf[d]].failures + 1 >= MaxFailures
                  /\ k = [j EXCEPT !.phase = "disabling"]
    BY DEF Following
  <2> HIDE DEF next
  <2> QED BY <1>1, <2>1 DEF Jobs
<1> HIDE DEF next
<1>3. \A e \in Deliveries \ {d} : row'[e].abandoned = row[e].abandoned
  BY <1>1, WriteCounts
<1>4. ASSUME NEW s \in Subs
      PROVE  /\ Uncounted(s)' \subseteq Uncounted(s) \cup {d}
             /\ s # SubOf[d] => Uncounted(s)' \subseteq Uncounted(s)
             /\ (\A k \in next : k.phase \notin {"counting", "retrying"})
                  => Uncounted(s)' \subseteq Uncounted(s) \ {d}
  BY <1>1, <1>2, <1>3, UncountedAfter
<1>5. ASSUME NEW s \in Subs
      PROVE  sub'[s].failures + Cardinality(Uncounted(s)') <= Cardinality(AbandonedOf(s)') + errors'
  <2>1. CASE j.phase = "counting" /\ s = SubOf[d]
    <3>1. d \in Uncounted(s)
      BY <1>1, <2>1 DEF Uncounted
    <3>2. Uncounted(s)' \subseteq Uncounted(s) \ {d}
      BY <1>2, <1>4, <2>1
    <3> QED BY <1>1, <2>1, <3>1, <3>2, WriteCounts, EarnedSum
  <2>2. CASE j.phase = "retrying" /\ j.attempts + 1 >= MaxAttempts /\ s = SubOf[d]
    <3>1. row'[d].abandoned
      BY <1>1, <2>2, WriteCounts
    <3>2. d \in AbandonedOf(s)' /\ (d \in AbandonedOf(s) => d \in Uncounted(s))
      BY <1>1, <2>2, <3>1 DEF AbandonedOf, Uncounted
    <3> QED BY <1>1, <1>4, <2>2, <3>2, WriteCounts, EarnedSum
  <2>3. CASE s = SubOf[d] => ~(j.phase = "counting")
                            /\ ~(j.phase = "retrying" /\ j.attempts + 1 >= MaxAttempts)
    <3>1. Uncounted(s)' \subseteq Uncounted(s)
      BY <1>2, <1>4, <2>3
    <3> QED BY <1>1, <2>3, <3>1, WriteCounts, EarnedSum
  <2> QED BY <2>1, <2>2, <2>3
<1>6. ASSUME NEW k \in jobs', k.phase = "disabling", k \notin jobs
      PROVE  Cardinality(AbandonedOf(SubOf[d])) + errors >= MaxFailures
  <2>1. j.phase = "counting" /\ sub[SubOf[d]].failures + 1 >= MaxFailures
    BY <1>1, <1>2, <1>6
  <2>2. d \in Uncounted(SubOf[d])
    BY <1>1, <2>1 DEF Uncounted
  <2>3. Cardinality(Uncounted(SubOf[d])) >= 1
    <3>1. Uncounted(SubOf[d]) \in SUBSET Deliveries /\ {} \in SUBSET Deliveries
          /\ Cardinality({}) \in Nat
      BY <1>1, EarnedTypes, Counting
    <3> QED BY <1>1, <2>2, <3>1, EarnedTypes, CountingOne
  <2> QED BY <1>1, <2>1, <2>3, EarnedTypes DEF EarnedInv
<1>7. \A k \in jobs' : k \in jobs \/ SubOf[k.d] = SubOf[d]
  BY <1>1, <1>2
<1> QED BY <1>1, <1>5, <1>6, <1>7, WriteCounts, Earning

LEMMA EarnedError ==
  ASSUME IInv, EarnedInv, NEW j \in jobs, WriteError(j)
  PROVE  EarnedInv'
<1> DEFINE k == [j EXCEPT !.phase = "retrying", !.caught = TRUE]
           next == IF j.caught THEN {} ELSE {k}
           d == j.d
<1>1. /\ Write(j) \/ UNCHANGED rows
      /\ jobs' = (jobs \ {j}) \cup next /\ errors' = errors + 1
      /\ errors \in Nat /\ d \in Deliveries /\ SubOf[d] \in Subs /\ j \in Jobs
  BY JobFacts, EarnedTypes DEF WriteError, Erring
<1>2. k.d = d /\ k.phase = "retrying"
  BY <1>1 DEF Jobs
<1> HIDE DEF k
<1>3. \A l \in next : l.d = d /\ l.phase = "retrying"
  BY <1>2
<1> HIDE DEF next
<1>4. /\ Kept /\ \A e \in Deliveries \ {d} : row'[e].abandoned = row[e].abandoned
      /\ \A s \in Subs :
           /\ sub'[s].failures \in Nat
           /\ sub'[s].failures <= sub[s].failures
                \/ (s = SubOf[d] /\ j.phase = "counting"
                    /\ sub'[s].failures = sub[s].failures + 1)
           /\ sub'[s].disabled => sub[s].disabled \/ (j.phase = "disabling" /\ SubOf[d] = s)
  <2>1. CASE Write(j)
    BY <2>1, WriteCounts
  <2>2. CASE UNCHANGED rows
    BY <2>2, EarnedTypes DEF rows, Kept
  <2> QED BY <1>1, <2>1, <2>2
<1>5. ASSUME NEW s \in Subs
      PROVE  sub'[s].failures + Cardinality(Uncounted(s)') <= Cardinality(AbandonedOf(s)') + errors'
  <2>1. Uncounted(s)' \subseteq Uncounted(s) \cup {d}
    BY <1>1, <1>3, <1>4, UncountedAfter
  <2>2. j.phase = "counting" /\ s = SubOf[d] => d \in Uncounted(s)
    BY <1>1 DEF Uncounted
  <2> QED BY <1>1, <1>4, <2>1, <2>2, EarnedSum
<1>6. \A l \in jobs' : l.phase = "disabling" => l \in jobs
  BY <1>1, <1>3
<1> QED BY <1>1, <1>4, <1>5, <1>6, Earning

LEMMA NextEarned == IInv /\ EarnedInv /\ [Next]_vars => EarnedInv'
<1> SUFFICES ASSUME IInv, EarnedInv, [Next]_vars PROVE EarnedInv'
  OBVIOUS
<1>1. CASE UNCHANGED vars
  BY <1>1, EarnedQuietly, EarnedTypes DEF vars, rows, faults
<1>2. CASE \E d \in Deliveries : Match(d) \/ Enqueue(d) \/ BecomeDue(d)
  BY <1>2, EarnedQueue
<1>3. CASE \E s \in Subs : DeleteSubscription(s)
  BY <1>3, EarnedDelete
<1>4. CASE \E t \in Ticks : StartTick(t) \/ EndClaims(t) \/ Restart(t) \/ ClaimError(t)
  BY <1>4, EarnedTick
<1>5. CASE \E t \in Ticks, d \in Deliveries : Claim(t, d)
  BY <1>5, EarnedQueue
<1>6. CASE \E j \in jobs : Work(j) \/ LookupError(j) \/ WriteError(j)
  BY <1>6, EarnedLookup, EarnedPost, EarnedProceed, EarnedError DEF Work
<1> QED BY <1>1, <1>2, <1>3, <1>4, <1>5, <1>6 DEF Next

LEMMA InitEarned == Init => EarnedInv
<1> SUFFICES ASSUME Init PROVE EarnedInv
  OBVIOUS
<1>1. /\ \A s \in Subs : Uncounted(s) = {} /\ AbandonedOf(s) = {} /\ ~sub[s].disabled
                           /\ sub[s].failures = 0
      /\ jobs = {} /\ errors = 0
  BY SubAssumption DEF Init, Uncounted, AbandonedOf
<1> QED BY <1>1, FS_EmptySet DEF EarnedInv, DisabledEarned

\* A subscription is disabled only for deliveries that were abandoned, as many
\* as the limit says, but for those that a failed write made count twice: no
\* success in between, no overlap of ticks and no restart counts one delivery
\* two times or an unabandoned one (recordFailure).
THEOREM DisabledEarnedHolds == Spec => []DisabledEarned
<1>1. EarnedInv => DisabledEarned
  BY DEF EarnedInv
<1>2. Init /\ [][Next]_vars /\ []IInv => []EarnedInv
  BY InitEarned, NextEarned, PTL
<1> QED BY InvariantHolds, <1>1, <1>2, PTL DEF Spec
=============================================================================
