--------------------------- MODULE ChannelInvariant ---------------------------
(***************************************************************************)
(* Why a calendar has one channel, one sync at a time and no lost change   *)
(* when nothing races: the inductive invariant of CalendarChannel. The     *)
(* first two hold through the gap of a renewal too.                        *)
(*                                                                         *)
(* A job whose channel is due for renewal is alone until it has saved the  *)
(* new one (DueAlone): all jobs that run together began with one channel   *)
(* that is not (SameChannel), so one lock serializes them.                 *)
(***************************************************************************)
EXTENDS CalendarChannel

Working(p) == ~At(p, "idle")

\* p has yet to renew the channel it began with.
Due(p) == /\ Working(p) /\ ~At(p, "finish") /\ ~At(p, "reread")
          /\ NeedsRenewal(job[p].config)

\* p began with a channel that is not due.
Current(p) == Working(p) /\ ~NeedsRenewal(job[p].config)

-----------------------------------------------------------------------------
(* Channels *)

\* What was not made is fresh, and no channel of the row is later than what was.
Numbered ==
  /\ Lapsed(NoConfig)
  /\ row.channel <= count["channels"] /\ \A c \in live : c <= count["channels"]
  /\ \A c \in Channels : c > count["channels"] => age[c] = "fresh"
  /\ \A p \in Procs : At(p, "save") => job[p].minted \in live /\ age[job[p].minted] = "fresh"

\* Who takes which step, and what the loops and the switch rely on.
Roles ==
  /\ \A c \in Channels : Working(c) => job[c].config.channel = c
  /\ \A c \in Channels : state[c] = "queued" => age[c] = "fresh"
  /\ \A p \in Procs : /\ At(p, "clear") => p = Settings /\ ~row.enabled
                      /\ At(p, "reread") => p = Sweep /\ ~NeedsRenewal(row)
                      /\ At(p, "stop") => row.channel = job[p].config.channel
  /\ \E s \in {"idle", "stop", "watch", "save", "clear", "finish"} : At(Settings, s)
  /\ row.enabled /\ At(Settings, "stop") => NeedsRenewal(job[Settings].config)
  /\ At(Settings, "watch") \/ At(Settings, "save") => row.enabled
  /\ ~row.enabled => At(Manual, "idle") /\ At(Sweep, "idle")
  /\ ~row.enabled /\ At(Settings, "finish") => row.channel = Unwatched

DueAlone == \A p \in Procs : Due(p) =>
  row.channel = job[p].config.channel /\ \A q \in Procs \ {p} : At(q, "idle")

SameChannel == \A p \in Procs : Current(p) =>
  /\ row.channel \in {job[p].config.channel, Unwatched}
  /\ ~At(p, "watch") /\ ~At(p, "save")
  /\ At(p, "stop") => p = Settings
  /\ \A q \in Procs : Current(q) => job[q].config.channel = job[p].config.channel

\* Between the end of one channel and the next Google notifies neither.
OneChannel ==
  /\ NoOrphan /\ OffIsOff
  /\ \A p \in Procs : At(p, "watch") \/ At(p, "save") \/ At(p, "clear") => row.channel \notin live
  /\ row.channel \in live \/ Lapsed(row)
     \/ \E p \in Procs : At(p, "watch") \/ At(p, "save") \/ At(p, "clear")

ChannelInv == Numbered /\ Roles /\ DueAlone /\ SameChannel /\ OneChannel

-----------------------------------------------------------------------------
(* Changes *)

\* What is not imported is told, or will be listed, or is for the sweep.
Owed == \A n \in Unfetched \ excused :
  \/ row.channel \in notices
  \/ \E c \in Channels : state[c] = "queued"
  \/ \E p \in Procs : WillList(p) \/ WillImport(p, n)
  \/ Lapsed(row)

\* The channel of a job that is due has told all it will, or its end is caught up.
Told == \A p \in Procs \ {Settings} : Due(p) =>
  /\ ~CatchingUp(p) => row.channel \notin notices
  /\ CatchingUp(p) => Lapsed(row) /\ ~At(p, "renew")
  /\ p = Sweep /\ Renewing(p) /\ Lapsed(row) => CatchingUp(p)
  /\ p # Sweep /\ (At(p, "import") \/ At(p, "store")) => job[p].listing = google
  /\ p # Sweep /\ (At(p, "renew") \/ Renewing(p)) => Unfetched = {}

Excused == ~row.enabled \/ ~At(Settings, "idle") => Unfetched \subseteq excused

FetchInv == Owed /\ Told /\ Excused

CalendarInv == ChannelInv /\ FetchInv
=============================================================================
