-------------------------- MODULE WebhookDelivery --------------------------
(***************************************************************************)
(* Delivery of webhooks: rows of webhookDeliveries, claimed by the ticks   *)
(* of a worker, posted to the subscriber, retried, and at last delivered   *)
(* or abandoned; the failure count that disables a subscription.           *)
(*                                                                         *)
(* A tick does not wait for the one before it, and several processes may   *)
(* run a worker: Ticks are those that may be under way at once.  Backoff   *)
(* is a row that is not due, and becomes due some time.                    *)
(***************************************************************************)
EXTENDS Naturals, FiniteSets

CONSTANTS
  Deliveries, Subs,
  SubOf,          \* the subscription a delivery is for
  Ticks,
  MaxAttempts,    \* MAX_DELIVERY_ATTEMPTS
  MaxFailures,    \* MAX_CONSECUTIVE_FAILURES_BEFORE_DISABLE
  ClaimsPerTick,  \* CLAIMS_PER_TICK
  MaxRestarts, MaxErrors   \* how many faults may happen

ASSUME SubAssumption == SubOf \in [Deliveries -> Subs]
ASSUME FiniteAssumption == IsFiniteSet(Deliveries)
ASSUME LimitAssumption ==
  /\ {MaxAttempts, MaxFailures, ClaimsPerTick} \subseteq Nat \ {0}
  /\ {MaxRestarts, MaxErrors} \subseteq Nat

VARIABLES
  row,       \* webhookDeliveries
  sub,       \* webhookSubscriptions
  claiming,  \* ticks inside claimDueDeliveries
  jobs,      \* the claimed deliveries each tick is working on
  posts,     \* history: requests made for each delivery
  accepted,  \* history: requests answered with 2xx
  restarts, errors

rows == <<row, sub>>
history == <<posts, accepted>>
faults == <<restarts, errors>>
vars == <<rows, claiming, jobs, history, faults>>

Stages == {"none", "matched", "queued"}
Phases == {"claimed", "posting", "accepted", "marked", "retrying", "counting", "disabling"}

Rows == [stage : Stages, attempts : 0..MaxAttempts, due : BOOLEAN, claimed : BOOLEAN,
         delivered : BOOLEAN, abandoned : BOOLEAN]
Jobs == [by : Ticks, d : Deliveries, phase : Phases,
         attempts : 0..(MaxAttempts - 1), caught : BOOLEAN]

TypeOK ==
  /\ row \in [Deliveries -> Rows]
  /\ sub \in [Subs -> [live : BOOLEAN, failures : Nat, disabled : BOOLEAN]]
  /\ claiming \subseteq Ticks
  /\ jobs \subseteq Jobs
  /\ posts \in [Deliveries -> Nat] /\ accepted \in [Deliveries -> Nat]
  /\ restarts \in 0..MaxRestarts /\ errors \in 0..MaxErrors

Init ==
  /\ row = [d \in Deliveries |-> [stage |-> "none", attempts |-> 0, due |-> FALSE,
              claimed |-> FALSE, delivered |-> FALSE, abandoned |-> FALSE]]
  /\ sub = [s \in Subs |-> [live |-> TRUE, failures |-> 0, disabled |-> FALSE]]
  /\ claiming = {} /\ jobs = {}
  /\ posts = [d \in Deliveries |-> 0] /\ accepted = [d \in Deliveries |-> 0]
  /\ restarts = 0 /\ errors = 0

-----------------------------------------------------------------------------
(* The queue *)

\* enqueueWebhookDeliveries finds the active subscriptions first ...
Match(d) ==
  /\ row[d].stage = "none"
  /\ sub[SubOf[d]].live /\ ~sub[SubOf[d]].disabled
  /\ row' = [row EXCEPT ![d].stage = "matched"]
  /\ UNCHANGED <<sub, claiming, jobs, history, faults>>

\* ... and then inserts a row for each, whatever became of it meanwhile.
Enqueue(d) ==
  /\ row[d].stage = "matched"
  /\ row' = [row EXCEPT ![d].stage = "queued", ![d].due = TRUE]
  /\ UNCHANGED <<sub, claiming, jobs, history, faults>>

\* nextAttemptTs passes: a minute at least, longer than what a job still does
\* after it has scheduled the retry (RETRY_DELAYS_MS, DELIVERY_TIMEOUT_MS).
BecomeDue(d) ==
  /\ row[d].stage = "queued" /\ ~row[d].due
  /\ \A j \in jobs : j.d # d
  /\ row' = [row EXCEPT ![d].due = TRUE]
  /\ UNCHANGED <<sub, claiming, jobs, history, faults>>

DeleteSubscription(s) ==
  /\ sub[s].live
  /\ sub' = [sub EXCEPT ![s].live = FALSE]
  /\ UNCHANGED <<row, claiming, jobs, history, faults>>

\* Fault: the filter forgets the claim.
ClaimableUnfiltered(d) ==
  row[d].stage = "queued" /\ row[d].due /\ ~row[d].delivered /\ ~row[d].abandoned

Claimable(d) ==
  /\ row[d].stage = "queued" /\ row[d].due
  /\ ~row[d].delivered /\ ~row[d].abandoned /\ ~row[d].claimed

JobsOf(t) == {j \in jobs : j.by = t}

\* A tick that finds nothing due changes nothing.
StartTick(t) ==
  /\ t \notin claiming /\ JobsOf(t) = {}
  /\ \E d \in Deliveries : Claimable(d)
  /\ claiming' = claiming \cup {t}
  /\ UNCHANGED <<rows, jobs, history, faults>>

\* claimDueDeliveries claims one row after the other.
Claim(t, d) ==
  /\ t \in claiming /\ Claimable(d)
  /\ Cardinality(JobsOf(t)) < ClaimsPerTick
  /\ row' = [row EXCEPT ![d].claimed = TRUE]
  /\ jobs' = jobs \cup {[by |-> t, d |-> d, phase |-> "claimed",
                         attempts |-> row[d].attempts, caught |-> FALSE]}
  /\ UNCHANGED <<sub, claiming, history, faults>>

EndClaims(t) ==
  /\ t \in claiming
  /\ \/ Cardinality(JobsOf(t)) = ClaimsPerTick
     \/ \A d \in Deliveries : ~Claimable(d)
  /\ claiming' = claiming \ {t}
  /\ UNCHANGED <<rows, jobs, history, faults>>

-----------------------------------------------------------------------------
(* One delivery *)

\* The writes, and what a job does next: the job itself moved on, or nothing.
MarkDelivered(d) == row' = [row EXCEPT ![d].delivered = TRUE, ![d].claimed = FALSE]

\* Fault: one attempt more than the limit.
RecordRetryOneMore(j) ==
  LET attempts == j.attempts + 1 IN
  row' = [row EXCEPT ![j.d] =
    IF attempts > MaxAttempts
    THEN [@ EXCEPT !.attempts = attempts, !.claimed = FALSE, !.abandoned = TRUE]
    ELSE [@ EXCEPT !.attempts = attempts, !.claimed = FALSE, !.due = FALSE]]

\* Fault: the retry is scheduled and the claim kept.
RecordRetryKeepingClaim(j) ==
  LET attempts == j.attempts + 1 IN
  row' = [row EXCEPT ![j.d] =
    IF attempts >= MaxAttempts
    THEN [@ EXCEPT !.attempts = attempts, !.claimed = FALSE, !.abandoned = TRUE]
    ELSE [@ EXCEPT !.attempts = attempts, !.due = FALSE]]

RecordRetry(j) ==
  LET attempts == j.attempts + 1 IN
  row' = [row EXCEPT ![j.d] =
    IF attempts >= MaxAttempts
    THEN [@ EXCEPT !.attempts = attempts, !.claimed = FALSE, !.abandoned = TRUE]
    ELSE [@ EXCEPT !.attempts = attempts, !.claimed = FALSE, !.due = FALSE]]

\* A write to a subscription that was deleted finds no row.
OnLive(s, new) == sub' = IF sub[s].live THEN [sub EXCEPT ![s] = new] ELSE sub

\* What the job's next statement writes ...
Write(j) ==
  LET s == SubOf[j.d] IN
  \/ /\ j.phase = "accepted" /\ MarkDelivered(j.d) /\ UNCHANGED sub
  \/ /\ j.phase = "marked" /\ OnLive(s, [sub[s] EXCEPT !.failures = 0])
     /\ UNCHANGED row
  \/ /\ j.phase = "retrying" /\ RecordRetry(j) /\ UNCHANGED sub
  \/ /\ j.phase = "counting" /\ OnLive(s, [sub[s] EXCEPT !.failures = @ + 1])
     /\ UNCHANGED row
  \/ /\ j.phase = "disabling" /\ OnLive(s, [sub[s] EXCEPT !.disabled = TRUE])
     /\ UNCHANGED row

\* Fault: every failed attempt counts against the subscription.
FollowingCountingAll(j) ==
  LET s == SubOf[j.d]
      disable == sub[s].live /\ sub[s].failures + 1 >= MaxFailures /\ ~sub[s].disabled
  IN  CASE j.phase = "accepted" -> {[j EXCEPT !.phase = "marked"]}
        [] j.phase = "retrying" -> {[j EXCEPT !.phase = "counting"]}
        [] j.phase = "counting" /\ disable -> {[j EXCEPT !.phase = "disabling"]}
        [] OTHER -> {}

\* ... and where it goes on.  Only an abandoned delivery counts as a failure.
Following(j) ==
  LET s == SubOf[j.d]
      disable == sub[s].live /\ sub[s].failures + 1 >= MaxFailures /\ ~sub[s].disabled
  IN  CASE j.phase = "accepted" -> {[j EXCEPT !.phase = "marked"]}
        [] j.phase = "retrying" /\ j.attempts + 1 >= MaxAttempts ->
             {[j EXCEPT !.phase = "counting"]}
        [] j.phase = "counting" /\ disable -> {[j EXCEPT !.phase = "disabling"]}
        [] OTHER -> {}

\* The subscription is looked up; without it the delivery is written off as
\* delivered.  (A deleted subscription does not come back.)
Lookup(j) ==
  /\ j.phase = "claimed" /\ j.by \notin claiming
  /\ IF sub[SubOf[j.d]].live
     THEN jobs' = (jobs \ {j}) \cup {[j EXCEPT !.phase = "posting"]} /\ UNCHANGED row
     ELSE jobs' = jobs \ {j} /\ MarkDelivered(j.d)
  /\ UNCHANGED <<sub, claiming, history, faults>>

\* The request is answered with 2xx, or otherwise, or not in time: this last
\* is caught, and the handler is outside the try from then on.
Post(j) ==
  /\ j.phase = "posting"
  /\ posts' = [posts EXCEPT ![j.d] = @ + 1]
  /\ \/ /\ accepted' = [accepted EXCEPT ![j.d] = @ + 1]
        /\ jobs' = (jobs \ {j}) \cup {[j EXCEPT !.phase = "accepted"]}
     \/ /\ UNCHANGED accepted
        /\ \E late \in BOOLEAN :
             jobs' = (jobs \ {j}) \cup {[j EXCEPT !.phase = "retrying", !.caught = late]}
  /\ UNCHANGED <<rows, claiming, faults>>

Proceed(j) ==
  /\ Write(j)
  /\ jobs' = (jobs \ {j}) \cup Following(j)
  /\ UNCHANGED <<claiming, history, faults>>

-----------------------------------------------------------------------------
(* Faults *)

\* Fault: a process that starts releases the claims of the one that died.
RestartReleasing(t) ==
  /\ restarts < MaxRestarts
  /\ restarts' = restarts + 1
  /\ claiming' = claiming \ {t}
  /\ jobs' = jobs \ JobsOf(t)
  /\ row' = [d \in Deliveries |-> IF \E j \in JobsOf(t) : j.d = d
                                  THEN [row[d] EXCEPT !.claimed = FALSE] ELSE row[d]]
  /\ UNCHANGED <<sub, history, errors>>

\* The process dies; the claims of its ticks stay in the database.
Restart(t) ==
  /\ restarts < MaxRestarts
  /\ restarts' = restarts + 1
  /\ claiming' = claiming \ {t}
  /\ jobs' = jobs \ JobsOf(t)
  /\ UNCHANGED <<rows, history, errors>>

Erring ==
  /\ errors < MaxErrors
  /\ errors' = errors + 1
  /\ UNCHANGED <<history, restarts>>

\* A claim fails, and with it the tick: what it had claimed is forgotten.
ClaimError(t) ==
  /\ t \in claiming
  /\ Erring
  /\ claiming' = claiming \ {t}
  /\ jobs' = jobs \ JobsOf(t)
  /\ UNCHANGED rows

LookupError(j) ==
  /\ j.phase = "claimed" /\ j.by \notin claiming
  /\ Erring
  /\ jobs' = jobs \ {j}
  /\ UNCHANGED <<rows, claiming>>

\* A write throws, having taken effect or not.  Inside the try it is taken for
\* a failed request; a second time it ends the job.
WriteError(j) ==
  /\ j.phase \notin {"claimed", "posting"}
  /\ Erring
  /\ Write(j) \/ UNCHANGED rows
  /\ jobs' = (jobs \ {j}) \cup
       (IF j.caught THEN {} ELSE {[j EXCEPT !.phase = "retrying", !.caught = TRUE]})
  /\ UNCHANGED claiming

-----------------------------------------------------------------------------

Work(j) == Lookup(j) \/ Post(j) \/ Proceed(j)

Next ==
  \/ \E d \in Deliveries : Match(d) \/ Enqueue(d) \/ BecomeDue(d)
  \/ \E s \in Subs : DeleteSubscription(s)
  \/ \E t \in Ticks : StartTick(t) \/ EndClaims(t) \/ Restart(t) \/ ClaimError(t)
  \/ \E t \in Ticks, d \in Deliveries : Claim(t, d)
  \/ \E j \in jobs : Work(j) \/ LookupError(j) \/ WriteError(j)

Spec == Init /\ [][Next]_vars

\* The interval fires for ever, requests end (DELIVERY_TIMEOUT_MS), time passes.
Fairness ==
  /\ \A d \in Deliveries : WF_vars(BecomeDue(d))
  /\ \A t \in Ticks : /\ WF_vars(StartTick(t))
                      /\ WF_vars(EndClaims(t) \/ \E d \in Deliveries : Claim(t, d))
  /\ \A t \in Ticks, d \in Deliveries :
       WF_vars(\E j \in jobs : j.by = t /\ j.d = d /\ Work(j))

FairSpec == Spec /\ Fairness

-----------------------------------------------------------------------------
(* What the worker owes a subscriber *)

\* Two ticks never work on the same delivery, in one process or in two
\* (claimDueDeliveries: "two workers running concurrently can't deliver the
\* same row twice").
ExclusiveClaim ==
  \A j, k \in jobs : j.d = k.d => j = k

\* However ticks overlap and writes fail, no delivery is posted more often
\* than MAX_DELIVERY_ATTEMPTS allows (recordRetry).
PostsBounded == \A d \in Deliveries : posts[d] <= MaxAttempts

\* A subscriber that has answered 2xx hears of the delivery again only for a
\* write of the worker that failed, once for each (deliverOne's catch).
RepeatsBounded == \A d \in Deliveries : accepted[d] <= 1 + errors

AbandonedOf(s) == {d \in Deliveries : SubOf[d] = s /\ row[d].abandoned}

\* A subscription is disabled for that many deliveries abandoned, less those
\* that a failed write made count twice (recordFailure).
DisabledEarned ==
  \A s \in Subs : sub[s].disabled =>
    Cardinality(AbandonedOf(s)) + errors >= MaxFailures

Settled(d) == row[d].delivered \/ row[d].abandoned

\* A claim that outlived its tick, for a restart or a failed write.
Orphaned(d) == /\ restarts + errors > 0
               /\ row[d].claimed /\ \A j \in jobs : j.d # d

\* Every delivery enqueued is delivered or abandoned in the end, unless a
\* fault orphaned its claim (claimDueDeliveries, recordRetry).
SettlesUnlessOrphaned ==
  \A d \in Deliveries : row[d].stage = "queued" ~> Settled(d) \/ Orphaned(d)

\* Every delivery enqueued is delivered or abandoned in the end: a restart does
\* not drop one in flight (webhookDeliveryWorker.ts, the module's comment).
Settles == \A d \in Deliveries : row[d].stage = "queued" ~> Settled(d)

-----------------------------------------------------------------------------
(* The inductive invariant behind the theorems *)

\* Neither claimed nor finished: some tick may yet take it.
Open(d) == ~row[d].claimed /\ ~row[d].delivered /\ ~row[d].abandoned

\* What a job works on nobody can claim, and until its outcome is written the
\* claim is what says so.
ClaimInv ==
  \A j \in jobs :
    /\ row[j.d].stage = "queued" /\ ~Claimable(j.d)
    /\ j.phase \in {"claimed", "posting", "accepted"} =>
         row[j.d].claimed /\ ~row[j.d].delivered /\ ~row[j.d].abandoned

\* The attempts recorded in the row or held by the job cover the posts made.
PostInv ==
  /\ \A d \in Deliveries : Open(d) =>
       posts[d] <= row[d].attempts /\ row[d].attempts < MaxAttempts
  /\ \A j \in jobs :
       posts[j.d] <= j.attempts + (IF j.phase \in {"claimed", "posting"} THEN 0 ELSE 1)

\* A delivery that was accepted and may be posted again has cost an error.
RepeatInv ==
  /\ \A d \in Deliveries : Open(d) => accepted[d] <= errors
  /\ \A j \in jobs : j.phase \notin {"accepted", "marked"} => accepted[j.d] <= errors

IInv ==
  /\ TypeOK /\ ExclusiveClaim /\ ClaimInv
  /\ PostsBounded /\ PostInv /\ RepeatsBounded /\ RepeatInv

\* Abandoned deliveries that a job has yet to count against the subscription.
Uncounted(s) == {d \in Deliveries : SubOf[d] = s /\ \E j \in jobs :
  j.d = d /\ (j.phase = "counting" \/ (j.phase = "retrying" /\ row[d].abandoned))}

\* What is counted and what will be was abandoned, or counted twice for an
\* error; a success in between forgets the count, and not what was abandoned.
EarnedInv ==
  /\ \A s \in Subs :
       sub[s].failures + Cardinality(Uncounted(s)) <= Cardinality(AbandonedOf(s)) + errors
  /\ \A j \in jobs : j.phase = "disabling" =>
       Cardinality(AbandonedOf(SubOf[j.d])) + errors >= MaxFailures
  /\ DisabledEarned

=============================================================================
