-------------------------- MODULE CalendarChannel ---------------------------
(***************************************************************************)
(* How changes of one Google calendar reach the server: notifications on a *)
(* watch channel, coalesced per channel; syncs from the stored sync token, *)
(* serialized per calendar; the renewal of channels that run out, by each  *)
(* sync and by an hourly sweep; and the user's switch.  A change is its    *)
(* number; importing one is the subject of CalendarItem.                   *)
(***************************************************************************)
EXTENDS Naturals, Sequences

CONSTANTS
  Manual, Sweep, Settings,  \* the processes beside the webhook loops
  Races,                    \* which of AllRaces may happen
  MaxChanges, MaxChannels, MaxFaults, MaxToggles   \* bounds of the state space

AllRaces == {"gap", "rerun", "meeting", "switching", "failedRenewal"}

Channels == 1 .. MaxChannels
Unwatched == 0
Others == {Manual, Sweep, Settings}
Procs == Channels \cup Others   \* channel c's webhook loop, and the others

ASSUME ProcsAssumption == Others \cap Nat = {} /\ Manual # Sweep /\ Sweep # Settings /\ Manual # Settings
ASSUME RaceAssumption == Races \subseteq AllRaces
ASSUME BoundAssumption == {MaxChanges, MaxChannels, MaxFaults, MaxToggles} \subseteq Nat

VARIABLES
  google,    \* the number of changes made to the calendar
  live,      \* the channels Google notifies
  age,       \* how close each channel is to its expiration; no channel is past it
  notices,   \* the channels with a notification on its way
  row,       \* the sync config: enabled, its channel, its token
  imported,  \* the changes that have been imported
  state,     \* channelStates: idle, running or queued, in memory
  lock,      \* the sync mutex: for each key, who holds it and who waits
  job,       \* what each process is doing
  excused,   \* changes nobody promised to fetch
  count      \* channels made, faults and toggles so far

vars == <<google, live, age, notices, row, imported, state, lock, job, excused, count>>
world == <<google, notices, excused, count>>
memory == <<state, lock>>

Keys == Channels \cup {Unwatched}
Ages == {"fresh", "soon", "lapsed"}
Tokens == Nat                \* the changes a token covers; 0 is no token
Configs == [enabled : BOOLEAN, channel : Keys, token : Tokens]
Steps == {"idle", "start", "wait", "import", "store", "renew", "stop", "watch",
          "save", "clear", "reread", "finish"}
Jobs == [step : Steps, config : Configs, lapsed : BOOLEAN, listing : Tokens, minted : Keys]

NoConfig == [enabled |-> FALSE, channel |-> Unwatched, token |-> 0]
Idle == [step |-> "idle", config |-> NoConfig, lapsed |-> FALSE, listing |-> 0, minted |-> Unwatched]

\* A loop lives exactly as long as its entry in channelStates (calendar.ts,
\* runWebhookSyncLoop: or every later delivery coalesces into a dead re-run).
TypeOK ==
  /\ google \in Nat
  /\ live \subseteq Channels /\ notices \subseteq Channels
  /\ age \in [Keys -> Ages]
  /\ row \in Configs
  /\ imported \subseteq Nat /\ excused \subseteq Nat
  /\ state \in [Channels -> {"idle", "running", "queued"}]
  /\ lock \in [Keys -> Seq(Procs)]
  /\ job \in [Procs -> Jobs]
  /\ count \in [{"channels", "faults", "toggles"} -> Nat]
  /\ \A c \in Channels : state[c] = "idle" <=> job[c].step = "idle"

Init ==
  /\ google = 0 /\ imported = {} /\ excused = {} /\ notices = {}
  /\ live = {} /\ age = [k \in Keys |-> IF k = Unwatched THEN "lapsed" ELSE "fresh"]
  /\ row = [enabled |-> TRUE, channel |-> Unwatched, token |-> 0]
  /\ state = [c \in Channels |-> "idle"]
  /\ lock = [k \in Keys |-> <<>>]
  /\ job = [p \in Procs |-> Idle]
  /\ count = [k \in {"channels", "faults", "toggles"} |-> 0]

Counted(k, max) == count[k] < max /\ count' = [count EXCEPT ![k] = @ + 1]

Lapsed(config) == age[config.channel] = "lapsed"
NeedsRenewal(config) == age[config.channel] # "fresh"

At(p, step) == job[p].step = step
GoTo(p, step) == job' = [job EXCEPT ![p].step = step]
End(p) == job' = [job EXCEPT ![p] = Idle]
Begin(p, step) == job' = [job EXCEPT ![p] = [Idle EXCEPT !.step = step, !.config = row]]

Busy == \E p \in Procs : ~At(p, "idle")
\* Two jobs may meet over a channel that is due for renewal.
MayMeet == Busy /\ NeedsRenewal(row) => "meeting" \in Races
\* A renewal that a catch-up sync will follow.
CatchingUp(p) == p = Sweep /\ job[p].lapsed
MayMiss ==
  (\E p \in Procs : ~At(p, "idle") /\ ~CatchingUp(p)) /\ NeedsRenewal(row) => "gap" \in Races

Unfetched == 1 .. google \ imported

-----------------------------------------------------------------------------
(* Google *)

Change ==
  /\ google < MaxChanges /\ MayMiss
  /\ google' = google + 1
  /\ notices' = notices \cup live
  /\ excused' = IF row.enabled /\ At(Settings, "idle") THEN excused ELSE excused \cup {google + 1}
  /\ UNCHANGED <<live, age, row, imported, state, lock, job, count>>

Age(c) ==
  /\ c \in live \cup {row.channel} /\ age[c] # "lapsed" /\ count["channels"] < MaxChannels
  /\ Busy => "meeting" \in Races
  /\ c = row.channel /\ c \in notices => "gap" \in Races
  /\ age' = [age EXCEPT ![c] = IF @ = "fresh" THEN "soon" ELSE "lapsed"]
  /\ live' = IF age[c] = "soon" THEN live \ {c} ELSE live
  /\ UNCHANGED <<google, notices, row, imported, state, lock, job, excused, count>>

-----------------------------------------------------------------------------
(* What begins a job *)

\* Fault: a delivery that finds a sync running is taken for served.
ReceiveDropping(c) ==
  /\ c \in notices /\ MayMeet
  /\ notices' = notices \ {c}
  /\ IF row.channel = c /\ state[c] = "idle"
     THEN state' = [state EXCEPT ![c] = "running"] /\ Begin(c, "start")
     ELSE UNCHANGED <<state, job>>
  /\ UNCHANGED <<google, live, age, row, imported, lock, excused, count>>

\* POST /webhooks/google: a channel the row does not have is unknown.
Receive(c) ==
  /\ c \in notices
  /\ IF state[c] = "idle" THEN MayMeet ELSE NeedsRenewal(row) => "rerun" \in Races
  /\ notices' = notices \ {c}
  /\ IF row.channel # c THEN UNCHANGED <<state, job>>
     ELSE IF state[c] = "idle"
     THEN state' = [state EXCEPT ![c] = "running"] /\ Begin(c, "start")
     ELSE state' = [state EXCEPT ![c] = "queued"] /\ UNCHANGED job
  /\ UNCHANGED <<google, live, age, row, imported, lock, excused, count>>

\* POST /integrations/:id/sync
Sync ==
  /\ At(Manual, "idle") /\ row.enabled /\ MayMeet
  /\ row.channel \in notices /\ NeedsRenewal(row) => "gap" \in Races
  /\ Begin(Manual, "start")
  /\ UNCHANGED <<google, live, age, notices, row, imported, state, lock, excused, count>>

\* renewAllExpiring: one at a time; findNeedingWebhook.
RenewAll ==
  /\ At(Sweep, "idle") /\ row.enabled /\ NeedsRenewal(row) /\ MayMeet
  /\ row.channel \in notices => "gap" \in Races
  /\ Begin(Sweep, "renew")
  /\ UNCHANGED <<google, live, age, notices, row, imported, state, lock, excused, count>>

\* PATCH .../sync-configs/:configId; what was not fetched is not owed.
Toggle ==
  /\ At(Settings, "idle") /\ Counted("toggles", MaxToggles)
  /\ row.enabled \/ count["channels"] < MaxChannels
  /\ Busy => "switching" \in Races
  /\ row' = [row EXCEPT !.enabled = ~@]
  /\ Begin(Settings, "stop")
  /\ excused' = excused \cup Unfetched
  /\ UNCHANGED <<google, live, age, notices, imported, state, lock>>

-----------------------------------------------------------------------------
(* A sync, under the lock of its config's key: withSyncLock *)

KeyOf(p) == job[p].config.channel
Holds(p) == lock[KeyOf(p)] # <<>> /\ Head(lock[KeyOf(p)]) = p
Release(p) == lock' = [lock EXCEPT ![KeyOf(p)] = Tail(@)]

Enqueue(p) ==
  /\ At(p, "start")
  /\ lock' = [lock EXCEPT ![KeyOf(p)] = Append(@, p)]
  /\ GoTo(p, "wait")
  /\ UNCHANGED <<world, live, age, row, imported, state>>

\* fetchEventsWithSyncToken
List(p) ==
  /\ At(p, "wait") /\ Holds(p)
  /\ job' = [job EXCEPT ![p].step = "import", ![p].listing = google]
  /\ UNCHANGED <<world, live, age, row, imported, memory>>

\* 410 Gone: the token is dropped, and everything is listed.
ListGone(p) ==
  /\ At(p, "wait") /\ Holds(p) /\ job[p].config.token # 0 /\ Counted("faults", MaxFaults)
  /\ row' = [row EXCEPT !.token = 0]
  /\ job' = [job EXCEPT ![p].step = "import", ![p].listing = google, ![p].config.token = 0]
  /\ UNCHANGED <<google, notices, excused, live, age, imported, memory>>

\* Fault: the token is stored before the events it covers.
ImportAfterToken(p) ==
  /\ At(p, "import")
  /\ row' = [row EXCEPT !.token = job[p].listing]
  /\ GoTo(p, "store")
  /\ UNCHANGED <<world, live, age, imported, memory>>

\* importCalendarEvents
Import(p) ==
  /\ At(p, "import")
  /\ imported' = imported \cup (job[p].config.token + 1 .. job[p].listing)
  /\ GoTo(p, "store")
  /\ UNCHANGED <<world, live, age, row, memory>>

\* upsertSyncToken ends the sync; a catch-up ends the renewal too.
StoreToken(p) ==
  /\ At(p, "store")
  /\ row' = [row EXCEPT !.token = job[p].listing]
  /\ Release(p)
  /\ GoTo(p, IF p = Sweep THEN "finish" ELSE "renew")
  /\ UNCHANGED <<world, live, age, imported, state>>

-----------------------------------------------------------------------------
(* The renewal of a channel: renewWebhookIfExpired, setupWatch *)

Renew(p) ==
  /\ At(p, "renew")
  /\ job' = [job EXCEPT ![p].lapsed = Lapsed(job[p].config),
                        ![p].step = IF NeedsRenewal(job[p].config) THEN "stop" ELSE "finish"]
  /\ UNCHANGED <<world, live, age, row, imported, memory>>

\* Fault: a switch of either direction makes a channel.
AfterStopWatch(p) == "watch"

AfterStop(p) == IF p = Settings /\ ~row.enabled THEN "clear" ELSE "watch"

\* Fault: a new channel is made beside the old one.
StopNothing(p) ==
  /\ At(p, "stop")
  /\ GoTo(p, AfterStop(p))
  /\ UNCHANGED <<world, live, age, row, imported, memory>>

\* stopChannelOnGoogle, of the channel the job's own config has; a failure is
\* swallowed.
Stop(p) ==
  /\ At(p, "stop")
  /\ \/ live' = live \ {job[p].config.channel}
     \/ "failedRenewal" \in Races /\ UNCHANGED live
  /\ GoTo(p, AfterStop(p))
  /\ UNCHANGED <<world, age, row, imported, memory>>

\* watchEvents; a failure is logged, and ends a sweep's turn.
Watch(p) ==
  /\ At(p, "watch")
  /\ \/ /\ Counted("channels", MaxChannels)
        /\ live' = live \cup {count'["channels"]}
        /\ job' = [job EXCEPT ![p].step = "save", ![p].minted = count'["channels"]]
     \/ "failedRenewal" \in Races /\ GoTo(p, "finish") /\ UNCHANGED <<live, count>>
  /\ UNCHANGED <<google, notices, excused, age, row, imported, memory>>

\* upsertWebhookFields; the sweep catches up what a lapse may have missed.
SaveChannel(p) ==
  /\ At(p, "save")
  /\ row' = [row EXCEPT !.channel = job[p].minted]
  /\ GoTo(p, IF CatchingUp(p) THEN "reread" ELSE "finish")
  /\ UNCHANGED <<world, live, age, imported, memory>>

\* clearWebhookFields
ClearChannel(p) ==
  /\ At(p, "clear")
  /\ row' = [row EXCEPT !.channel = Unwatched]
  /\ GoTo(p, "finish")
  /\ UNCHANGED <<world, live, age, imported, memory>>

\* Fault: the catch-up locks the key of the channel that lapsed.
RereadNot(p) ==
  /\ At(p, "reread")
  /\ GoTo(p, "start")
  /\ UNCHANGED <<world, live, age, row, imported, memory>>

\* The catch-up takes the row afresh, for its lock is that of the new channel.
Reread(p) ==
  /\ At(p, "reread")
  /\ job' = [job EXCEPT ![p].step = "start", ![p].config = row]
  /\ UNCHANGED <<world, live, age, row, imported, memory>>

-----------------------------------------------------------------------------
(* How a job ends *)

\* finishWebhookSync: once more, with the same config, if a delivery came.
Finish(p) ==
  /\ At(p, "finish")
  /\ IF p \in Channels /\ state[p] = "queued"
     THEN state' = [state EXCEPT ![p] = "running"] /\ GoTo(p, "start")
     ELSE /\ state' = [c \in Channels |-> IF c = p THEN "idle" ELSE state[c]]
          /\ End(p)
  /\ UNCHANGED <<world, live, age, row, imported, lock>>

\* Fault: a failed sync takes the lock with it.
FailLocked(p) ==
  /\ \/ At(p, "start") /\ UNCHANGED lock
     \/ (At(p, "wait") \/ At(p, "import") \/ At(p, "store")) /\ Holds(p) /\ UNCHANGED lock
  /\ Counted("faults", MaxFaults)
  /\ state' = [c \in Channels |-> IF c = p THEN "idle" ELSE state[c]]
  /\ End(p)
  /\ excused' = excused \cup Unfetched
  /\ UNCHANGED <<google, notices, live, age, row, imported>>

\* Fault: the loop's entry outlives the loop that failed.
FailRunning(p) ==
  /\ \/ At(p, "start") /\ UNCHANGED lock
     \/ (At(p, "wait") \/ At(p, "import") \/ At(p, "store")) /\ Holds(p) /\ Release(p)
  /\ Counted("faults", MaxFaults)
  /\ End(p)
  /\ excused' = excused \cup Unfetched
  /\ UNCHANGED <<google, notices, live, age, row, imported, state>>

\* A sync throws: the lock and the loop's entry go, and with them the queued
\* delivery, until the next change comes.
Fail(p) ==
  /\ \/ At(p, "start") /\ UNCHANGED lock
     \/ (At(p, "wait") \/ At(p, "import") \/ At(p, "store")) /\ Holds(p) /\ Release(p)
  /\ Counted("faults", MaxFaults)
  /\ state' = [c \in Channels |-> IF c = p THEN "idle" ELSE state[c]]
  /\ End(p)
  /\ excused' = excused \cup Unfetched
  /\ UNCHANGED <<google, notices, live, age, row, imported>>

Renewing(p) == \E s \in {"stop", "watch", "save", "clear"} : At(p, s)

Restart ==
  /\ Counted("faults", MaxFaults)
  /\ (\E p \in Procs : Renewing(p)) => "failedRenewal" \in Races
  /\ state' = [c \in Channels |-> "idle"]
  /\ lock' = [k \in Keys |-> <<>>]
  /\ job' = [p \in Procs |-> Idle]
  /\ excused' = excused \cup Unfetched
  /\ UNCHANGED <<google, notices, live, age, row, imported>>

-----------------------------------------------------------------------------

Run(p) ==
  \/ Enqueue(p) \/ List(p) \/ Import(p) \/ StoreToken(p)
  \/ Renew(p) \/ Stop(p) \/ Watch(p) \/ SaveChannel(p) \/ ClearChannel(p) \/ Reread(p)
  \/ Finish(p)

Next ==
  \/ Change \/ Sync \/ RenewAll \/ Toggle \/ Restart
  \/ \E c \in Channels : Age(c) \/ Receive(c)
  \/ \E p \in Procs : Run(p) \/ ListGone(p) \/ Fail(p)

Spec == Init /\ [][Next]_vars

-----------------------------------------------------------------------------
(* The inductive invariants of the proofs *)

\* Who lists, imports or stores is at the head of its lock.
LockInv == \A p \in Procs : At(p, "import") \/ At(p, "store") => Holds(p)

\* What a job took for known is imported, and so is what it is about to store.
TokenInv ==
  /\ 1 .. row.token \subseteq imported
  /\ \A p \in Procs : 1 .. job[p].config.token \subseteq imported
  /\ \A p \in Procs : At(p, "store") => 1 .. job[p].listing \subseteq imported

-----------------------------------------------------------------------------

\* What is begun goes on, what is notified arrives, and the app is opened
\* again and again.
FairSpec ==
  /\ Spec /\ WF_vars(Sync)
  /\ \A c \in Channels : WF_vars(Receive(c))
  /\ \A p \in Procs : WF_vars(Run(p))

-----------------------------------------------------------------------------

\* A token never covers what has not been imported (calendar.ts,
\* syncSingleCalendar: the token is stored after the import, whoever else syncs,
\* fails or starts over in between): no sync would ever list it again.
TokenHonest == 1 .. row.token \subseteq imported

\* Two syncs of one calendar never overlap (calendarSyncLock.ts), whatever the
\* channel that names the lock was when each of them began.
ExclusiveSync ==
  \A p, q \in Procs :
    /\ At(p, "import") \/ At(p, "store")
    /\ At(q, "import") \/ At(q, "store")
    => p = q

WillList(p) == \E s \in {"start", "wait", "reread"} : At(p, s)
WillImport(p, n) == \E s \in {"import", "store"} : At(p, s) /\ n <= job[p].listing

\* A change is imported, or something under way will fetch it, or the sweep
\* will: a delivery that finds a sync running is not lost in it, nor is a
\* change made while the channel was dead (calendar.ts, tryStartWebhookSync,
\* renewWebhookAndCatchUp).
NothingMissed ==
  \A n \in Unfetched \ excused :
    \/ row.channel \in notices
    \/ \E c \in Channels : state[c] = "queued"
    \/ \E p \in Procs : \/ WillList(p) \/ WillImport(p, n)
                        \/ CatchingUp(p) /\ ~At(p, "finish")
    \/ Lapsed(row)

\* Google notifies no channel but the row's, or one about to be (setupWatch:
\* a re-setup never strands the previous channel).
NoOrphan ==
  live \subseteq {row.channel} \cup {job[p].minted : p \in {q \in Procs : At(q, "save")}}

\* A calendar that is switched off has no channel once its switch is done.
OffIsOff == ~row.enabled /\ At(Settings, "idle") => row.channel = Unwatched

\* Every change of a calendar that stays on is imported in the end.
CaughtUp ==
  \A n \in 1 .. MaxChanges : google >= n ~> n \in imported \/ ~row.enabled
=============================================================================
