------------------------ MODULE CalendarChannelProofs ------------------------
(***************************************************************************)
(* Proofs about CalendarChannel: whatever syncs, renewals, switches and    *)
(* failures meet, a stored token never covers a change that has not been   *)
(* imported, and a loop's entry in memory lives exactly as long as it.     *)
(* When nothing but a gap races, no channel is stranded or outlives its    *)
(* switch and one sync runs at a time; when nothing does, no change is     *)
(* lost (ChannelInvariant).                                                *)
(***************************************************************************)
EXTENDS ChannelInvariant, TLAPS

\* Counting one more of a bounded thing keeps the counters in their type.
LEMMA CountedType ==
  ASSUME count \in [{"channels", "faults", "toggles"} -> Nat],
         NEW k \in {"channels", "faults", "toggles"}, NEW max \in Nat, Counted(k, max)
  PROVE  count' \in [{"channels", "faults", "toggles"} -> Nat] /\ count'[k] \in 1 .. max
<1>1. count[k] \in Nat /\ count[k] < max
  BY DEF Counted
<1>2. count' = [count EXCEPT ![k] = count[k] + 1]
  BY DEF Counted
<1>3. count'[k] = count[k] + 1
  BY <1>2
<1>4. QED  BY <1>1, <1>2, <1>3

\* The bounds are natural numbers.
LEMMA Bounds == MaxChanges \in Nat /\ MaxChannels \in Nat /\ MaxFaults \in Nat /\ MaxToggles \in Nat
BY BoundAssumption

\* The channels' loops are no other processes.
LEMMA Apart == Channels \cap Others = {} /\ Channels \subseteq Procs /\ Others \subseteq Procs
<1>1. Channels \subseteq Nat
  BY Bounds DEF Channels
<1>2. QED  BY <1>1, ProcsAssumption DEF Procs

\* The record of a process that does nothing.
LEMMA IdleJob == Idle \in Jobs /\ Idle.step = "idle" /\ Idle.config.token = 0
BY DEF Idle, NoConfig, Jobs, Configs, Steps, Keys, Unwatched, Tokens

\* A job that goes on is a job, and is otherwise what it was.
LEMMA Going ==
  ASSUME job \in [Procs -> Jobs], NEW p \in Procs, NEW s \in Steps, GoTo(p, s)
  PROVE  /\ job' \in [Procs -> Jobs]
         /\ job'[p].step = s
         /\ job'[p].config = job[p].config /\ job'[p].listing = job[p].listing
         /\ \A q \in Procs : q # p => job'[q] = job[q]
<1>1. job' = [job EXCEPT ![p] = [job[p] EXCEPT !.step = s]]
  BY DEF GoTo
<1>2. job[p] \in Jobs
  OBVIOUS
<1>3. [job[p] EXCEPT !.step = s] \in Jobs
  BY <1>2 DEF Jobs
<1>4. job'[p] = [job[p] EXCEPT !.step = s]
  BY <1>1
<1>5. QED  BY <1>1, <1>2, <1>3, <1>4 DEF Jobs

\* A job that begins takes the row with it.
LEMMA Beginning ==
  ASSUME job \in [Procs -> Jobs], row \in Configs, NEW p \in Procs, NEW s \in Steps, Begin(p, s)
  PROVE  /\ job' \in [Procs -> Jobs]
         /\ job'[p].step = s /\ job'[p].config = row
         /\ \A q \in Procs : q # p => job'[q] = job[q]
<1>1. job' = [job EXCEPT ![p] = [Idle EXCEPT !.step = s, !.config = row]]
  BY DEF Begin
<1>2. [Idle EXCEPT !.step = s, !.config = row] \in Jobs
  BY IdleJob DEF Jobs
<1>3. job'[p] = [Idle EXCEPT !.step = s, !.config = row]
  BY <1>1
<1>4. QED  BY <1>1, <1>2, <1>3, IdleJob DEF Jobs

\* A job that ends leaves an idle process.
LEMMA Ending ==
  ASSUME job \in [Procs -> Jobs], NEW p \in Procs, End(p)
  PROVE  /\ job' \in [Procs -> Jobs]
         /\ job'[p] = Idle
         /\ \A q \in Procs : q # p => job'[q] = job[q]
BY IdleJob DEF End

-----------------------------------------------------------------------------
(* The parts of TypeOK that the steps of a job may disturb *)

Loops == \A c \in Channels : state[c] = "idle" <=> job[c].step = "idle"

Inv == TypeOK /\ LockInv /\ TokenInv

\* A process whose job is of the named step is busy, and its key is a key.
LEMMA JobFacts ==
  ASSUME TypeOK, NEW p \in Procs
  PROVE  /\ job[p] \in Jobs /\ job[p].config \in Configs /\ KeyOf(p) \in Keys
         /\ job[p].listing \in Nat /\ job[p].config.token \in Nat /\ job[p].minted \in Keys
         /\ lock[KeyOf(p)] \in Seq(Procs)
<1>1. job[p] \in Jobs
  BY DEF TypeOK
<1>2. job[p].config \in Configs
  BY <1>1 DEF Jobs
<1>3. KeyOf(p) \in Keys
  BY <1>2 DEF KeyOf, Configs
<1>4. QED  BY <1>1, <1>2, <1>3 DEF Jobs, Configs, Tokens, TypeOK

\* A step of one busy job that touches neither lock, loops nor imports keeps
\* what the other parts say, unless it begins to import or to store.
LEMMA Carried ==
  ASSUME Inv, NEW p \in Procs,
         job' \in [Procs -> Jobs], \A q \in Procs : q # p => job'[q] = job[q],
         job[p].step # "idle", job'[p].step \notin {"idle", "import", "store"},
         job'[p].config = job[p].config,
         row'.token = row.token, UNCHANGED <<imported, state, lock>>
  PROVE  Loops' /\ LockInv' /\ TokenInv'
<1>1. Loops'
  BY Apart DEF Inv, TypeOK, Loops
<1>2. LockInv'
  BY DEF Inv, LockInv, At, Holds, KeyOf
<1>3. TokenInv'
  BY DEF Inv, TokenInv, At
<1>4. QED  BY <1>1, <1>2, <1>3

\* Renewal steps leave tokens, imports and locks alone.
LEMMA RenewalSteps ==
  ASSUME Inv, NEW p \in Procs,
         Renew(p) \/ Stop(p) \/ Watch(p) \/ SaveChannel(p) \/ ClearChannel(p)
  PROVE  Inv'
<1> USE DEF world, memory
<1>1. TypeOK
  BY DEF Inv
<1>2. job[p] \in Jobs /\ job[p].config \in Configs /\ job[p].minted \in Keys
  BY <1>1, JobFacts
<1>3. CASE Renew(p)
  <2> DEFINE s == IF NeedsRenewal(job[p].config) THEN "stop" ELSE "finish"
  <2>1. job' = [job EXCEPT ![p] = [job[p] EXCEPT !.lapsed = Lapsed(job[p].config), !.step = s]]
    BY <1>3 DEF Renew
  <2>2. [job[p] EXCEPT !.lapsed = Lapsed(job[p].config), !.step = s] \in Jobs
    <3>1. Lapsed(job[p].config) \in BOOLEAN
      BY DEF Lapsed
    <3>2. s \in Steps
      BY DEF Steps
    <3>3. QED  BY <1>2, <3>1, <3>2 DEF Jobs
  <2>3. job' \in [Procs -> Jobs] /\ \A q \in Procs : q # p => job'[q] = job[q]
    BY <1>1, <2>1, <2>2 DEF TypeOK
  <2>4. job'[p].config = job[p].config /\ job'[p].step = s
    BY <1>1, <1>2, <2>1 DEF TypeOK, Jobs
  <2>5. job[p].step # "idle" /\ s \notin {"idle", "import", "store"}
    BY <1>3 DEF Renew, At
  <2>6. Loops' /\ LockInv' /\ TokenInv'
    BY <1>3, <2>3, <2>4, <2>5, Carried DEF Renew
  <2>7. QED  BY <1>1, <1>3, <2>3, <2>6 DEF Renew, TypeOK, Inv, Loops
<1>4. CASE Stop(p)
  <2>1. AfterStop(p) \in Steps \ {"idle", "import", "store"}
    BY DEF AfterStop, Steps
  <2>2. /\ job' \in [Procs -> Jobs] /\ \A q \in Procs : q # p => job'[q] = job[q]
        /\ job'[p].step = AfterStop(p) /\ job'[p].config = job[p].config
    BY <1>1, <1>4, <2>1, Going DEF Stop, TypeOK
  <2>3. Loops' /\ LockInv' /\ TokenInv'
    BY <1>4, <2>1, <2>2, Carried DEF Stop, At
  <2>4. live' \subseteq Channels
    BY <1>1, <1>4 DEF Stop, TypeOK
  <2>5. QED  BY <1>1, <1>4, <2>2, <2>3, <2>4 DEF Stop, TypeOK, Inv, Loops
<1>5. CASE Watch(p) /\ Counted("channels", MaxChannels) /\ live' = live \cup {count'["channels"]}
           /\ job' = [job EXCEPT ![p].step = "save", ![p].minted = count'["channels"]]
  <2>1. count' \in [{"channels", "faults", "toggles"} -> Nat] /\ count'["channels"] \in Channels
    BY <1>1, <1>5, CountedType, Bounds DEF TypeOK, Channels
  <2>2. job' = [job EXCEPT ![p] = [job[p] EXCEPT !.step = "save", !.minted = count'["channels"]]]
    BY <1>5
  <2>3. [job[p] EXCEPT !.step = "save", !.minted = count'["channels"]] \in Jobs
    BY <1>2, <2>1 DEF Jobs, Steps, Keys
  <2>4. /\ job' \in [Procs -> Jobs] /\ \A q \in Procs : q # p => job'[q] = job[q]
        /\ job'[p].config = job[p].config /\ job'[p].step = "save"
    BY <1>1, <1>2, <2>2, <2>3 DEF TypeOK, Jobs
  <2>5. Loops' /\ LockInv' /\ TokenInv'
    BY <1>5, <2>4, Carried DEF Watch, At
  <2>6. QED  BY <1>1, <1>5, <2>1, <2>4, <2>5 DEF Watch, TypeOK, Inv, Loops
<1>6. CASE Watch(p) /\ GoTo(p, "finish") /\ UNCHANGED <<live, count>>
  <2>1. /\ job' \in [Procs -> Jobs] /\ \A q \in Procs : q # p => job'[q] = job[q]
        /\ job'[p].step = "finish" /\ job'[p].config = job[p].config
    BY <1>1, <1>6, Going DEF TypeOK, Steps
  <2>2. Loops' /\ LockInv' /\ TokenInv'
    BY <1>6, <2>1, Carried DEF Watch, At
  <2>3. QED  BY <1>1, <1>6, <2>1, <2>2 DEF Watch, TypeOK, Inv, Loops
<1>7. CASE SaveChannel(p)
  <2> DEFINE s == IF CatchingUp(p) THEN "reread" ELSE "finish"
  <2>1. s \in Steps \ {"idle", "import", "store"}
    BY DEF Steps
  <2>2. /\ job' \in [Procs -> Jobs] /\ \A q \in Procs : q # p => job'[q] = job[q]
        /\ job'[p].step = s /\ job'[p].config = job[p].config
    BY <1>1, <1>7, <2>1, Going DEF SaveChannel, TypeOK
  <2>3. row' \in Configs /\ row'.token = row.token
    BY <1>1, <1>2, <1>7 DEF SaveChannel, TypeOK, Configs
  <2>4. Loops' /\ LockInv' /\ TokenInv'
    BY <1>7, <2>1, <2>2, <2>3, Carried DEF SaveChannel, At
  <2>5. QED  BY <1>1, <1>7, <2>2, <2>3, <2>4 DEF SaveChannel, TypeOK, Inv, Loops
<1>8. CASE ClearChannel(p)
  <2>1. /\ job' \in [Procs -> Jobs] /\ \A q \in Procs : q # p => job'[q] = job[q]
        /\ job'[p].step = "finish" /\ job'[p].config = job[p].config
    BY <1>1, <1>8, Going DEF ClearChannel, TypeOK, Steps
  <2>2. row' \in Configs /\ row'.token = row.token
    BY <1>1, <1>8 DEF ClearChannel, TypeOK, Configs, Keys
  <2>3. Loops' /\ LockInv' /\ TokenInv'
    BY <1>8, <2>1, <2>2, Carried DEF ClearChannel, At
  <2>4. QED  BY <1>1, <1>8, <2>1, <2>2, <2>3 DEF ClearChannel, TypeOK, Inv, Loops
<1>9. QED  BY <1>3, <1>4, <1>5, <1>6, <1>7, <1>8 DEF Watch

\* A waiting job joins the end of its lock: nobody's hold is disturbed.
LEMMA EnqueueStep == ASSUME Inv, NEW p \in Procs, Enqueue(p) PROVE Inv'
<1> USE DEF world
<1>1. TypeOK /\ job[p] \in Jobs /\ KeyOf(p) \in Keys /\ lock[KeyOf(p)] \in Seq(Procs)
  BY JobFacts DEF Inv
<1>2. /\ job' \in [Procs -> Jobs] /\ \A q \in Procs : q # p => job'[q] = job[q]
      /\ job'[p].step = "wait" /\ job'[p].config = job[p].config
  BY <1>1, Going DEF Enqueue, TypeOK, Steps
<1>3. lock' \in [Keys -> Seq(Procs)]
  BY <1>1 DEF Enqueue, TypeOK
<1>4. \A k \in Keys : lock[k] # <<>> => lock'[k] # <<>> /\ Head(lock'[k]) = Head(lock[k])
  <2> SUFFICES ASSUME NEW k \in Keys, lock[k] # <<>>
               PROVE  lock'[k] # <<>> /\ Head(lock'[k]) = Head(lock[k])
    OBVIOUS
  <2>1. lock[k] \in Seq(Procs)
    BY <1>1 DEF TypeOK
  <2>2. lock'[k] = lock[k] \/ lock'[k] = Append(lock[k], p)
    BY <1>1 DEF Enqueue, TypeOK
  <2>3. QED  BY <2>1, <2>2
<1>5. \A q \in Procs : KeyOf(q) \in Keys
  BY <1>1, JobFacts
<1>6. LockInv'
  BY <1>2, <1>4, <1>5 DEF Inv, LockInv, Holds, KeyOf, At
<1>7. TokenInv'
  BY <1>2 DEF Enqueue, Inv, TokenInv, At
<1>8. Loops'
  BY <1>2, Apart DEF Enqueue, Inv, TypeOK, Loops, At
<1>9. QED  BY <1>1, <1>2, <1>3, <1>6, <1>7, <1>8 DEF Enqueue, Inv, TypeOK, Loops

\* Listing begins with the token the job took, or with none.
LEMMA ListSteps == ASSUME Inv, NEW p \in Procs, List(p) \/ ListGone(p) PROVE Inv'
<1> USE DEF world, memory
<1>1. TypeOK /\ job[p] \in Jobs /\ job[p].config \in Configs
  BY JobFacts DEF Inv
<1>2. google \in Nat /\ At(p, "wait") /\ Holds(p)
  BY <1>1 DEF TypeOK, List, ListGone
<1>3. /\ job' \in [Procs -> Jobs] /\ \A q \in Procs : q # p => job'[q] = job[q]
      /\ job'[p].step = "import" /\ job'[p].config.channel = job[p].config.channel
      /\ job'[p].config.token \in {0, job[p].config.token}
  <2>1. CASE List(p)
    <3>1. job' = [job EXCEPT ![p] = [job[p] EXCEPT !.step = "import", !.listing = google]]
      BY <2>1 DEF List
    <3>2. [job[p] EXCEPT !.step = "import", !.listing = google] \in Jobs
      BY <1>1, <1>2 DEF Jobs, Steps, Tokens
    <3>3. QED  BY <1>1, <3>1, <3>2 DEF TypeOK, Jobs
  <2>2. CASE ListGone(p)
    <3> DEFINE c == [job[p].config EXCEPT !.token = 0]
    <3>1. job' = [job EXCEPT ![p] = [job[p] EXCEPT !.step = "import", !.listing = google, !.config = c]]
      BY <1>1, <2>2 DEF ListGone, TypeOK, Jobs
    <3>2. c \in Configs /\ c.token = 0 /\ c.channel = job[p].config.channel
      BY <1>1 DEF Configs, Tokens
    <3> HIDE DEF c
    <3>3. [job[p] EXCEPT !.step = "import", !.listing = google, !.config = c] \in Jobs
      BY <1>1, <1>2, <3>2 DEF Jobs, Steps, Tokens
    <3>4. job'[p].config = c /\ job'[p].step = "import"
      BY <1>1, <3>1 DEF TypeOK, Jobs
    <3>5. QED  BY <1>1, <3>1, <3>2, <3>3, <3>4 DEF TypeOK
  <2>3. QED  BY <2>1, <2>2
<1>4. row' \in Configs /\ row'.token \in {0, row.token}
  <2>1. row \in Configs
    BY <1>1 DEF TypeOK
  <2>2. row' = row \/ row' = [row EXCEPT !.token = 0]
    BY DEF List, ListGone
  <2>3. [row EXCEPT !.token = 0] \in Configs /\ [row EXCEPT !.token = 0].token = 0
    BY <2>1 DEF Configs, Tokens
  <2>4. QED  BY <2>1, <2>2, <2>3
<1>5. count' \in [{"channels", "faults", "toggles"} -> Nat]
  BY <1>1, CountedType, Bounds DEF List, ListGone, TypeOK
<1>6. UNCHANGED <<imported, state, lock, live, age, google, notices, excused>>
  BY DEF List, ListGone
<1>7. LockInv'
  BY <1>2, <1>3, <1>6 DEF Inv, LockInv, Holds, KeyOf, At
<1>8. TokenInv'
  <2>1. 1 .. 0 = {}
    OBVIOUS
  <2>2. QED  BY <1>3, <1>4, <1>6, <2>1 DEF Inv, TokenInv, At
<1>9. Loops'
  BY <1>2, <1>3, <1>6, Apart DEF Inv, TypeOK, Loops, At
<1>10. QED  BY <1>1, <1>3, <1>4, <1>5, <1>6, <1>7, <1>8, <1>9 DEF Inv, TypeOK, Loops

\* What is imported joins what the token already covered.
LEMMA ImportStep == ASSUME Inv, NEW p \in Procs, Import(p) PROVE Inv'
<1> USE DEF world, memory
<1>1. TypeOK /\ job[p].config.token \in Nat /\ job[p].listing \in Nat
  BY JobFacts DEF Inv
<1>2. /\ job' \in [Procs -> Jobs] /\ \A q \in Procs : q # p => job'[q] = job[q]
      /\ job'[p].step = "store" /\ job'[p].config = job[p].config /\ job'[p].listing = job[p].listing
  BY <1>1, Going DEF Import, TypeOK, Steps
<1>3. imported' = imported \cup (job[p].config.token + 1 .. job[p].listing)
  BY DEF Import
<1>4. imported' \subseteq Nat /\ imported \subseteq imported'
  <2>1. job[p].config.token + 1 .. job[p].listing \subseteq Nat
    BY <1>1
  <2>2. imported \subseteq Nat
    BY <1>1 DEF TypeOK
  <2>3. QED  BY <1>3, <2>1, <2>2
<1>5. 1 .. job[p].listing \subseteq imported'
  <2>1. 1 .. job[p].config.token \subseteq imported
    BY DEF Inv, TokenInv
  <2>2. \A n \in 1 .. job[p].listing : n \in 1 .. job[p].config.token \/ n \in job[p].config.token + 1 .. job[p].listing
    BY <1>1
  <2>3. QED  BY <1>3, <2>1, <2>2
<1>6. LockInv'
  BY <1>2 DEF Import, Inv, LockInv, Holds, KeyOf, At
<1>7. TokenInv'
  BY <1>2, <1>4, <1>5 DEF Import, Inv, TokenInv, At
<1>8. Loops'
  BY <1>2, Apart DEF Import, Inv, TypeOK, Loops, At
<1>9. QED  BY <1>1, <1>2, <1>4, <1>6, <1>7, <1>8 DEF Import, Inv, TypeOK, Loops

\* Only who holds a lock gives it up.
LEMMA Releasing ==
  ASSUME Inv, NEW p \in Procs, Holds(p), Release(p),
         job' \in [Procs -> Jobs], \A q \in Procs : q # p => job'[q] = job[q],
         job'[p].step \notin {"import", "store"}
  PROVE  lock' \in [Keys -> Seq(Procs)] /\ LockInv'
<1>1. TypeOK /\ KeyOf(p) \in Keys /\ lock[KeyOf(p)] \in Seq(Procs)
  BY JobFacts DEF Inv
<1>2. Tail(lock[KeyOf(p)]) \in Seq(Procs)
  BY <1>1 DEF Holds
<1>3. lock' \in [Keys -> Seq(Procs)]
  BY <1>1, <1>2 DEF Release, TypeOK
<1>4. ASSUME NEW q \in Procs, q # p, At(q, "import") \/ At(q, "store")
      PROVE  KeyOf(q) # KeyOf(p) /\ Holds(q) /\ KeyOf(q) \in Keys
  BY <1>1, <1>4, JobFacts DEF Inv, LockInv, Holds
<1>5. LockInv'
  BY <1>1, <1>4 DEF Release, LockInv, Holds, KeyOf, At, TypeOK
<1>6. QED  BY <1>3, <1>5

\* The token that is stored covers what the job imported.
LEMMA StoreStep == ASSUME Inv, NEW p \in Procs, StoreToken(p) PROVE Inv'
<1> USE DEF world
<1>1. TypeOK /\ job[p].listing \in Nat /\ Holds(p)
  BY JobFacts DEF Inv, LockInv, StoreToken
<1> DEFINE s == IF p = Sweep THEN "finish" ELSE "renew"
<1>2. s \in Steps \ {"idle", "import", "store"}
  BY DEF Steps
<1>3. /\ job' \in [Procs -> Jobs] /\ \A q \in Procs : q # p => job'[q] = job[q]
      /\ job'[p].step = s /\ job'[p].config = job[p].config
  BY <1>1, <1>2, Going DEF StoreToken, TypeOK
<1>4. lock' \in [Keys -> Seq(Procs)] /\ LockInv'
  BY <1>1, <1>2, <1>3, Releasing DEF StoreToken
<1>5. row' \in Configs /\ row'.token = job[p].listing
  BY <1>1 DEF StoreToken, TypeOK, Configs, Tokens
<1>6. TokenInv'
  BY <1>2, <1>3, <1>5 DEF StoreToken, Inv, TokenInv, At
<1>7. Loops'
  BY <1>2, <1>3, Apart DEF StoreToken, Inv, TypeOK, Loops, At
<1>8. QED  BY <1>1, <1>3, <1>4, <1>5, <1>6, <1>7 DEF StoreToken, Inv, TypeOK, Loops

\* The catch-up begins anew, with the row and so with its token.
LEMMA RereadStep == ASSUME Inv, NEW p \in Procs, Reread(p) PROVE Inv'
<1> USE DEF world, memory
<1>1. TypeOK /\ job[p] \in Jobs /\ row \in Configs
  BY JobFacts DEF Inv, TypeOK
<1>2. job' = [job EXCEPT ![p] = [job[p] EXCEPT !.step = "start", !.config = row]]
  BY DEF Reread
<1>3. [job[p] EXCEPT !.step = "start", !.config = row] \in Jobs
  BY <1>1 DEF Jobs, Steps
<1>4. /\ job' \in [Procs -> Jobs] /\ \A q \in Procs : q # p => job'[q] = job[q]
      /\ job'[p].step = "start" /\ job'[p].config = row
  BY <1>1, <1>2, <1>3 DEF TypeOK, Jobs
<1>5. LockInv' /\ TokenInv'
  BY <1>4 DEF Reread, Inv, LockInv, TokenInv, Holds, KeyOf, At
<1>6. Loops'
  BY <1>4, Apart DEF Reread, Inv, TypeOK, Loops, At
<1>7. QED  BY <1>1, <1>4, <1>5, <1>6 DEF Reread, Inv, TypeOK, Loops

\* A job that begins at a step before its list keeps the invariant, if a loop's
\* entry begins with it.
LEMMA BeginStep ==
  ASSUME Inv, NEW p \in Procs, NEW s \in Steps \ {"idle", "import", "store"},
         At(p, "idle"), Begin(p, s),
         row'.token = row.token, UNCHANGED <<imported, lock>>,
         \A c \in Channels : IF c = p THEN state'[c] # "idle" ELSE state'[c] = state[c]
  PROVE  job' \in [Procs -> Jobs] /\ Loops' /\ LockInv' /\ TokenInv'
<1>1. /\ job' \in [Procs -> Jobs] /\ \A q \in Procs : q # p => job'[q] = job[q]
      /\ job'[p].step = s /\ job'[p].config = row
  BY Beginning DEF Inv, TypeOK
<1>2. LockInv' /\ TokenInv'
  BY <1>1 DEF Inv, LockInv, TokenInv, Holds, KeyOf, At
<1>3. Loops'
  BY <1>1, Apart DEF Inv, TypeOK, Loops
<1>4. QED  BY <1>1, <1>2, <1>3

\* Every way to begin a job keeps the invariant.
LEMMA BeginSteps ==
  ASSUME Inv, Sync \/ RenewAll \/ Toggle \/ \E c \in Channels : Receive(c)
  PROVE  Inv'
<1>1. TypeOK /\ row \in Configs /\ job \in [Procs -> Jobs] /\ Manual \in Procs /\ Sweep \in Procs /\ Settings \in Procs
      /\ Manual \notin Channels /\ Sweep \notin Channels /\ Settings \notin Channels
  BY Apart DEF Inv, TypeOK, Others
<1>2. 1 .. google \subseteq Nat
  BY <1>1 DEF TypeOK
<1>3. CASE Sync
  <2>1. job' \in [Procs -> Jobs] /\ Loops' /\ LockInv' /\ TokenInv'
    BY <1>1, <1>3, BeginStep DEF Sync, Steps
  <2>2. QED  BY <1>1, <1>3, <2>1 DEF Sync, Inv, TypeOK, Loops
<1>4. CASE RenewAll
  <2>1. job' \in [Procs -> Jobs] /\ Loops' /\ LockInv' /\ TokenInv'
    BY <1>1, <1>4, BeginStep DEF RenewAll, Steps
  <2>2. QED  BY <1>1, <1>4, <2>1 DEF RenewAll, Inv, TypeOK, Loops
<1>5. CASE Toggle
  <2>1. row' \in Configs /\ row'.token = row.token
    BY <1>1, <1>5 DEF Toggle, Configs
  <2>2. job' \in [Procs -> Jobs] /\ Loops' /\ LockInv' /\ TokenInv'
    BY <1>1, <1>5, <2>1, BeginStep DEF Toggle, Steps
  <2>3. count' \in [{"channels", "faults", "toggles"} -> Nat]
    BY <1>1, <1>5, CountedType, Bounds DEF Toggle, TypeOK
  <2>4. excused' \subseteq Nat
    BY <1>1, <1>2, <1>5 DEF Toggle, TypeOK, Unfetched
  <2>5. QED  BY <1>1, <1>5, <2>1, <2>2, <2>3, <2>4 DEF Toggle, Inv, TypeOK, Loops
<1>6. ASSUME NEW c \in Channels, Receive(c) PROVE Inv'
  <2>1. c \in Procs
    BY Apart
  <2>2. CASE row.channel = c /\ state[c] = "idle"
    <3>1. state' = [state EXCEPT ![c] = "running"] /\ Begin(c, "start") /\ At(c, "idle")
      BY <1>1, <1>6, <2>2 DEF Receive, TypeOK, At
    <3>2. job' \in [Procs -> Jobs] /\ Loops' /\ LockInv' /\ TokenInv'
      BY <1>1, <1>6, <2>1, <3>1, BeginStep DEF Receive, Steps, TypeOK
    <3>3. QED  BY <1>1, <1>6, <3>1, <3>2 DEF Receive, Inv, TypeOK, Loops
  <2>3. CASE ~(row.channel = c /\ state[c] = "idle")
    <3>1. job' = job /\ (state' = state \/ (state[c] # "idle" /\ state' = [state EXCEPT ![c] = "queued"]))
      BY <1>6, <2>3 DEF Receive
    <3>2. Loops' /\ LockInv' /\ TokenInv'
      BY <1>6, <3>1 DEF Receive, Inv, TypeOK, Loops, LockInv, TokenInv, Holds, KeyOf, At
    <3>3. QED  BY <1>1, <1>6, <3>1, <3>2 DEF Receive, Inv, TypeOK, Loops
  <2>4. QED  BY <2>2, <2>3
<1>7. QED  BY <1>3, <1>4, <1>5, <1>6

\* A job that ends takes its loop's entry and its hold with it.
LEMMA EndSteps == ASSUME Inv, NEW p \in Procs, Finish(p) \/ Fail(p) PROVE Inv'
<1> USE DEF world
<1>1. TypeOK /\ job \in [Procs -> Jobs] /\ ~At(p, "idle")
  BY DEF Inv, TypeOK, Finish, Fail, At
<1>2. CASE Finish(p) /\ p \in Channels /\ state[p] = "queued"
  <2>1. state' = [state EXCEPT ![p] = "running"] /\ GoTo(p, "start")
    BY <1>2 DEF Finish
  <2>2. /\ job' \in [Procs -> Jobs] /\ \A q \in Procs : q # p => job'[q] = job[q]
        /\ job'[p].step = "start" /\ job'[p].config = job[p].config
    BY <1>1, <2>1, Going DEF Steps
  <2>3. LockInv' /\ TokenInv'
    BY <1>2, <2>2 DEF Finish, Inv, LockInv, TokenInv, Holds, KeyOf, At
  <2>4. Loops'
    BY <1>1, <1>2, <2>1, <2>2, Apart DEF Inv, TypeOK, Loops
  <2>5. QED  BY <1>1, <1>2, <2>1, <2>2, <2>3, <2>4 DEF Finish, Inv, TypeOK, Loops
<1>3. ASSUME End(p), state' = [c \in Channels |-> IF c = p THEN "idle" ELSE state[c]],
             UNCHANGED <<row, imported>>
      PROVE  /\ job' \in [Procs -> Jobs] /\ Loops' /\ TokenInv'
             /\ state' \in [Channels -> {"idle", "running", "queued"}]
             /\ job'[p] = Idle /\ \A q \in Procs : q # p => job'[q] = job[q]
  <2>1. job' \in [Procs -> Jobs] /\ job'[p] = Idle /\ \A q \in Procs : q # p => job'[q] = job[q]
    BY <1>1, <1>3, Ending
  <2>2. Loops'
    BY <1>3, <2>1, IdleJob, Apart DEF Inv, TypeOK, Loops
  <2>3. TokenInv'
    <3>1. 1 .. 0 = {}
      OBVIOUS
    <3>2. QED  BY <1>3, <2>1, <3>1, IdleJob DEF Inv, TokenInv, At
  <2>4. QED  BY <1>1, <1>3, <2>1, <2>2, <2>3 DEF TypeOK
<1>4. CASE Finish(p) /\ ~(p \in Channels /\ state[p] = "queued")
  <2>1. End(p) /\ state' = [c \in Channels |-> IF c = p THEN "idle" ELSE state[c]] /\ UNCHANGED <<row, imported, lock>>
    BY <1>4 DEF Finish
  <2>2. LockInv'
    BY <1>3, <2>1, IdleJob DEF Inv, LockInv, Holds, KeyOf, At
  <2>3. QED  BY <1>1, <1>3, <1>4, <2>1, <2>2 DEF Finish, Inv, TypeOK, Loops
<1>5. CASE Fail(p)
  <2>1. End(p) /\ state' = [c \in Channels |-> IF c = p THEN "idle" ELSE state[c]] /\ UNCHANGED <<row, imported>>
    BY <1>5 DEF Fail
  <2>2. lock' = lock \/ (Holds(p) /\ Release(p))
    BY <1>5 DEF Fail
  <2>3. lock' \in [Keys -> Seq(Procs)] /\ LockInv'
    <3>1. CASE lock' = lock
      BY <1>1, <1>3, <2>1, <3>1, IdleJob DEF Inv, TypeOK, LockInv, Holds, KeyOf, At
    <3>2. CASE Holds(p) /\ Release(p)
      BY <1>3, <2>1, <3>2, IdleJob, Releasing
    <3>3. QED  BY <2>2, <3>1, <3>2
  <2>4. count' \in [{"channels", "faults", "toggles"} -> Nat]
    BY <1>1, <1>5, CountedType, Bounds DEF Fail, TypeOK
  <2>5. excused' \subseteq Nat
    <3>1. 1 .. google \subseteq Nat
      BY <1>1 DEF TypeOK
    <3>2. QED  BY <1>1, <1>5, <3>1 DEF Fail, TypeOK, Unfetched
  <2>6. QED  BY <1>1, <1>3, <1>5, <2>1, <2>3, <2>4, <2>5 DEF Fail, Inv, TypeOK, Loops
<1>6. QED  BY <1>2, <1>4, <1>5

\* A restart empties all that is in memory.
LEMMA RestartStep == ASSUME Inv, Restart PROVE Inv'
<1>1. TypeOK
  BY DEF Inv
<1>2. job' = [p \in Procs |-> Idle] /\ job' \in [Procs -> Jobs]
  BY IdleJob DEF Restart
<1>3. count' \in [{"channels", "faults", "toggles"} -> Nat]
  BY <1>1, CountedType, Bounds DEF Restart, TypeOK
<1>4. 1 .. google \subseteq Nat /\ 1 .. 0 = {}
  BY <1>1 DEF TypeOK
<1>5. excused' \subseteq Nat /\ lock' \in [Keys -> Seq(Procs)]
  BY <1>1, <1>4 DEF Restart, TypeOK, Unfetched
<1>6. LockInv' /\ TokenInv' /\ Loops'
  BY <1>2, <1>4, IdleJob, Apart DEF Restart, Inv, LockInv, TokenInv, Loops, At
<1>7. QED  BY <1>1, <1>2, <1>3, <1>5, <1>6 DEF Restart, Inv, TypeOK, Loops

\* What happens at Google disturbs no job.
LEMMA GoogleSteps == ASSUME Inv, Change \/ \E c \in Channels : Age(c) PROVE Inv'
<1>1. TypeOK
  BY DEF Inv
<1>2. CASE Change
  <2>1. google' \in Nat /\ notices' \subseteq Channels /\ excused' \subseteq Nat
    BY <1>1, <1>2 DEF Change, TypeOK
  <2>2. QED  BY <1>1, <1>2, <2>1 DEF Change, Inv, TypeOK, LockInv, TokenInv, Holds, KeyOf, At
<1>3. ASSUME NEW c \in Channels, Age(c) PROVE Inv'
  <2>1. age' \in [Keys -> Ages] /\ live' \subseteq Channels
    BY <1>1, <1>3 DEF Age, TypeOK, Ages, Keys
  <2>2. QED  BY <1>1, <1>3, <2>1 DEF Age, Inv, TypeOK, LockInv, TokenInv, Holds, KeyOf, At
<1>4. QED  BY <1>2, <1>3

\* At first nothing runs and nothing is known.
LEMMA InvInit == Init => Inv
<1> SUFFICES ASSUME Init PROVE Inv
  OBVIOUS
<1>1. TypeOK
  BY IdleJob, Apart DEF Init, TypeOK, Configs, Keys, Tokens, Unwatched, Ages
<1>2. 1 .. 0 = {}
  OBVIOUS
<1>3. LockInv /\ TokenInv
  BY <1>2, IdleJob DEF Init, LockInv, TokenInv, At
<1>4. QED  BY <1>1, <1>3 DEF Inv

\* Every step keeps the invariant.
LEMMA InvStep == Inv /\ [Next]_vars => Inv'
<1> SUFFICES ASSUME Inv, [Next]_vars PROVE Inv'
  OBVIOUS
<1>1. CASE UNCHANGED vars
  BY <1>1 DEF vars, Inv, TypeOK, LockInv, TokenInv, Holds, KeyOf, At
<1>2. CASE Next
  BY <1>2, RenewalSteps, EnqueueStep, ListSteps, ImportStep, StoreStep, RereadStep,
     BeginSteps, EndSteps, RestartStep, GoogleSteps DEF Next, Run
<1>3. QED  BY <1>1, <1>2

\* Every state is of its types, and a loop's entry lives exactly as long as the
\* loop, whatever syncs, switches and failures meet.
THEOREM TypeCorrect == Spec => []TypeOK
<1>1. Inv => TypeOK
  BY DEF Inv
<1>2. QED  BY <1>1, InvInit, InvStep, PTL DEF Spec

\* No stored token covers a change that was not imported (calendar.ts,
\* syncSingleCalendar), whatever syncs overlap, fail or start over, for any
\* number of channels and changes.
THEOREM TokenStaysHonest == Spec => []TokenHonest
<1>1. Inv => TokenHonest
  BY DEF Inv, TokenInv, TokenHonest
<1>2. QED  BY <1>1, InvInit, InvStep, PTL DEF Spec
-----------------------------------------------------------------------------
(* One channel and one sync at a time, when nothing but a gap races *)

\* A step of p's job that makes no channel, stops none and writes none to the
\* row keeps what is known of channels.
LEMMA QuietStep ==
  ASSUME Inv, ChannelInv, NEW p \in Procs,
         job' \in [Procs -> Jobs], \A q \in Procs : q # p => job'[q] = job[q],
         job[p].step \notin {"idle", "stop", "watch", "save", "clear", "reread"},
         job'[p].step \notin {"stop", "watch", "save", "clear", "reread"},
         job'[p].step # "idle" => job'[p].config.channel = job[p].config.channel,
         job[p].step = "finish" /\ job'[p].step # "idle" => age[job[p].config.channel] = "fresh",
         p = Settings => job'[p].step = "idle",
         row'.channel = row.channel, row'.enabled = row.enabled,
         live' = live, age' = age, count'["channels"] = count["channels"],
         \A c \in Channels : state'[c] = "queued" => state[c] = "queued"
  PROVE  ChannelInv'
<1>1. Numbered'
  BY DEF ChannelInv, Numbered, Lapsed, At
<1>2. Manual \in Procs /\ Sweep \in Procs /\ Settings \in Procs
      /\ Settings # Manual /\ Settings # Sweep /\ Channels \subseteq Procs
  BY Apart, ProcsAssumption DEF Others
<1>3. \A q \in Procs : Working(q)' => Working(q) /\ job'[q].config.channel = job[q].config.channel
  BY DEF Working, At
<1>4. \A q \in Procs : \A s \in {"stop", "watch", "save", "clear", "reread"} : At(q, s)' <=> At(q, s)
  BY DEF At
<1>5. Roles'
  <2>1. \A c \in Channels : Working(c)' => job'[c].config.channel = c
    BY <1>2, <1>3 DEF ChannelInv, Roles
  <2>2. \A c \in Channels : state'[c] = "queued" => age'[c] = "fresh"
    BY DEF ChannelInv, Roles
  <2>3. \A q \in Procs : /\ At(q, "clear")' => q = Settings /\ ~row'.enabled
                         /\ At(q, "reread")' => q = Sweep /\ ~NeedsRenewal(row)'
                         /\ At(q, "stop")' => row'.channel = job'[q].config.channel
    BY <1>4 DEF ChannelInv, Roles, NeedsRenewal, At
  <2>4. \E s \in {"idle", "stop", "watch", "save", "clear", "finish"} : At(Settings, s)'
    BY <1>2 DEF ChannelInv, Roles, At
  <2>5. /\ row'.enabled /\ At(Settings, "stop")' => NeedsRenewal(job[Settings].config)'
        /\ At(Settings, "watch")' \/ At(Settings, "save")' => row'.enabled
    BY <1>2, <1>4 DEF ChannelInv, Roles, NeedsRenewal, At
  <2>6. ~row'.enabled => At(Manual, "idle")' /\ At(Sweep, "idle")'
    BY <1>2 DEF ChannelInv, Roles, At
  <2>7. ~row'.enabled /\ At(Settings, "finish")' => row'.channel = Unwatched
    BY <1>2 DEF ChannelInv, Roles, At
  <2>8. QED  BY <2>1, <2>2, <2>3, <2>4, <2>5, <2>6, <2>7 DEF Roles
<1>6. \A q \in Procs : Due(q)' => Due(q) /\ job'[q].config.channel = job[q].config.channel
  <2> SUFFICES ASSUME NEW q \in Procs, Due(q)'
               PROVE  Due(q) /\ job'[q].config.channel = job[q].config.channel
    OBVIOUS
  <2>1. Working(q) /\ job'[q].config.channel = job[q].config.channel
    BY <1>3 DEF Due
  <2>2. NeedsRenewal(job[q].config)
    BY <2>1 DEF Due, NeedsRenewal
  <2>3. ~At(q, "finish") /\ ~At(q, "reread")
    BY <1>4, <2>1, <2>2 DEF Due, Working, NeedsRenewal, At
  <2>4. QED  BY <2>1, <2>2, <2>3 DEF Due
<1>7. DueAlone'
  <2> SUFFICES ASSUME NEW q \in Procs, Due(q)'
               PROVE  row'.channel = job'[q].config.channel /\ \A r \in Procs \ {q} : At(r, "idle")'
    BY DEF DueAlone
  <2>1. Due(q) /\ row.channel = job[q].config.channel /\ \A r \in Procs \ {q} : At(r, "idle")
    BY <1>6 DEF ChannelInv, DueAlone
  <2>2. p = q
    BY <2>1 DEF At
  <2>3. QED  BY <1>6, <2>1, <2>2 DEF At
<1>8. \A q \in Procs : Current(q)' => Current(q) /\ job'[q].config.channel = job[q].config.channel
  BY <1>3 DEF Current, NeedsRenewal
<1>9. SameChannel'
  <2> SUFFICES ASSUME NEW q \in Procs, Current(q)'
               PROVE  /\ row'.channel \in {job'[q].config.channel, Unwatched}
                      /\ ~At(q, "watch")' /\ ~At(q, "save")'
                      /\ At(q, "stop")' => q = Settings
                      /\ \A r \in Procs : Current(r)' => job'[r].config.channel = job'[q].config.channel
    BY DEF SameChannel
  <2>1. Current(q) /\ job'[q].config.channel = job[q].config.channel
    BY <1>8
  <2>2. QED  BY <1>4, <1>8, <2>1 DEF ChannelInv, SameChannel
<1>10. OneChannel'
  <2>1. {q \in Procs : At(q, "save")'} = {q \in Procs : At(q, "save")}
    BY <1>4
  <2>2. \A q \in Procs : At(q, "save") => job'[q].minted = job[q].minted
    BY DEF At
  <2>3. NoOrphan'
    BY <2>1, <2>2 DEF ChannelInv, OneChannel, NoOrphan
  <2>4. OffIsOff'
    <3> SUFFICES ASSUME ~row'.enabled, At(Settings, "idle")' PROVE row'.channel = Unwatched
      BY DEF OffIsOff
    <3>1. CASE p = Settings
      BY <3>1 DEF ChannelInv, Roles, At
    <3>2. CASE p # Settings
      BY <1>2, <3>2 DEF ChannelInv, OneChannel, OffIsOff, At
    <3>3. QED  BY <3>1, <3>2
  <2>5. \A q \in Procs : At(q, "watch")' \/ At(q, "save")' \/ At(q, "clear")' => row'.channel \notin live'
    BY <1>4 DEF ChannelInv, OneChannel
  <2>6. row'.channel \in live' \/ Lapsed(row)'
        \/ \E q \in Procs : At(q, "watch")' \/ At(q, "save")' \/ At(q, "clear")'
    BY <1>4 DEF ChannelInv, OneChannel, Lapsed
  <2>7. QED  BY <2>3, <2>4, <2>5, <2>6 DEF OneChannel
<1>11. QED  BY <1>1, <1>5, <1>7, <1>9, <1>10 DEF ChannelInv

\* The processes, by name.
LEMMA Names ==
  /\ Manual \in Procs /\ Sweep \in Procs /\ Settings \in Procs /\ Channels \subseteq Procs
  /\ Manual \notin Channels /\ Sweep \notin Channels /\ Settings \notin Channels
  /\ Manual # Sweep /\ Sweep # Settings /\ Manual # Settings
  /\ Unwatched \in Keys /\ Unwatched \notin Channels /\ Channels \subseteq Keys
  /\ Channels \subseteq Nat /\ Keys \subseteq Nat
BY Apart, ProcsAssumption, Bounds DEF Others, Channels, Unwatched, Keys

\* A process that is off its idle step, or is on its way from one channel to
\* the next, is due; then no other process does anything.
LEMMA Renewer ==
  ASSUME ChannelInv, NEW p \in Procs,
         \/ At(p, "watch") \/ At(p, "save")
         \/ At(p, "renew") /\ NeedsRenewal(job[p].config)
  PROVE  /\ Due(p) /\ row.channel = job[p].config.channel /\ NeedsRenewal(job[p].config)
         /\ \A q \in Procs \ {p} : At(q, "idle")
<1>1. Working(p) /\ ~At(p, "finish") /\ ~At(p, "reread")
  BY DEF At, Working
<1>2. NeedsRenewal(job[p].config)
  BY <1>1 DEF ChannelInv, SameChannel, Current
<1>3. Due(p)
  BY <1>1, <1>2 DEF Due
<1>4. QED  BY <1>2, <1>3 DEF ChannelInv, DueAlone

\* Nobody makes a channel while a switch is under way that stops or clears one.
LEMMA Switching ==
  ASSUME ChannelInv, NEW p \in Procs, At(p, "stop") \/ At(p, "clear"), NEW q \in Procs \ {p}
  PROVE  ~At(q, "watch") /\ ~At(q, "save") /\ (~At(q, "idle") => p = Settings /\ ~Due(q) /\ ~Due(p))
<1>1. ~At(p, "idle") /\ ~At(p, "finish") /\ ~At(p, "reread") /\ Working(p)
  BY DEF At, Working
<1>2. ~At(q, "watch") /\ ~At(q, "save")
  BY <1>1, Renewer
<1>3. ASSUME ~At(q, "idle") PROVE ~Due(q) /\ ~Due(p)
  BY <1>1, <1>3 DEF ChannelInv, DueAlone
<1>4. ASSUME ~At(q, "idle") PROVE p = Settings
  <2>1. CASE At(p, "clear")
    BY <2>1 DEF ChannelInv, Roles
  <2>2. CASE At(p, "stop")
    <3>1. Current(p)
      BY <1>1, <1>3, <1>4 DEF Current, Due
    <3>2. QED  BY <2>2, <3>1 DEF ChannelInv, SameChannel
  <2>3. QED  BY <2>1, <2>2
<1>5. QED  BY <1>2, <1>3, <1>4

\* A job that goes on keeps all but its step.
LEMMA Onward ==
  ASSUME job \in [Procs -> Jobs], NEW p \in Procs, NEW s \in Steps, GoTo(p, s)
  PROVE  /\ job' \in [Procs -> Jobs] /\ \A q \in Procs : q # p => job'[q] = job[q]
         /\ job'[p].step = s /\ job'[p].config = job[p].config
         /\ job'[p].listing = job[p].listing
         /\ job'[p].lapsed = job[p].lapsed /\ job'[p].minted = job[p].minted
<1>1. job' = [job EXCEPT ![p] = [job[p] EXCEPT !.step = s]]
  BY DEF GoTo
<1>2. job[p] \in Jobs
  OBVIOUS
<1>3. [job[p] EXCEPT !.step = s] \in Jobs
  BY <1>2 DEF Jobs
<1>4. job'[p] = [job[p] EXCEPT !.step = s]
  BY <1>1
<1>5. QED  BY <1>1, <1>2, <1>3, <1>4 DEF Jobs

\* What Renew does to its job.
LEMMA RenewEffect ==
  ASSUME Inv, NEW p \in Procs, Renew(p)
  PROVE  /\ job' \in [Procs -> Jobs] /\ \A q \in Procs : q # p => job'[q] = job[q]
         /\ job[p].step = "renew"
         /\ job'[p].step = IF NeedsRenewal(job[p].config) THEN "stop" ELSE "finish"
         /\ job'[p].lapsed = Lapsed(job[p].config)
         /\ job'[p].config = job[p].config /\ job'[p].listing = job[p].listing
<1> DEFINE s == IF NeedsRenewal(job[p].config) THEN "stop" ELSE "finish"
<1>1. job' = [job EXCEPT ![p] = [job[p] EXCEPT !.lapsed = Lapsed(job[p].config), !.step = s]]
  BY DEF Renew
<1>2. job \in [Procs -> Jobs] /\ job[p] \in Jobs
  BY DEF Inv, TypeOK
<1>3. Lapsed(job[p].config) \in BOOLEAN
  BY DEF Lapsed
<1>4. s \in Steps
  BY DEF Steps
<1> DEFINE r == [job[p] EXCEPT !.lapsed = Lapsed(job[p].config), !.step = s]
<1>5. /\ r \in Jobs /\ r.step = s /\ r.lapsed = Lapsed(job[p].config)
      /\ r.config = job[p].config /\ r.listing = job[p].listing
  <2> HIDE DEF s
  <2>1. QED  BY <1>2, <1>3, <1>4 DEF Jobs
<1>6. job'[p] = r /\ job' \in [Procs -> Jobs] /\ \A q \in Procs : q # p => job'[q] = job[q]
  <2> HIDE DEF r
  <2>1. QED  BY <1>1, <1>2, <1>5 DEF r
<1>7. job[p].step = "renew"
  BY DEF Renew, At
<1>8. QED  BY <1>5, <1>6, <1>7

\* What Watch does to its job, when no renewal fails.
LEMMA WatchEffect ==
  ASSUME Inv, Races \subseteq {"gap"}, NEW p \in Procs, Watch(p)
  PROVE  /\ job' \in [Procs -> Jobs] /\ \A q \in Procs : q # p => job'[q] = job[q]
         /\ job[p].step = "watch" /\ job'[p].step = "save"
         /\ job'[p].minted = count["channels"] + 1 /\ count'["channels"] = count["channels"] + 1
         /\ count["channels"] + 1 \in Channels
         /\ job'[p].config = job[p].config /\ job'[p].lapsed = job[p].lapsed
         /\ live' = live \cup {count["channels"] + 1}
<1>1. /\ Counted("channels", MaxChannels) /\ live' = live \cup {count'["channels"]}
      /\ job' = [job EXCEPT ![p].step = "save", ![p].minted = count'["channels"]]
      /\ job[p].step = "watch"
  BY DEF Watch, At
<1>2. /\ job \in [Procs -> Jobs] /\ job[p] \in Jobs
      /\ count \in [{"channels", "faults", "toggles"} -> Nat]
  BY DEF Inv, TypeOK
<1>3. count'["channels"] \in Channels
  BY <1>1, <1>2, CountedType, Bounds DEF Channels
<1>4. count'["channels"] = count["channels"] + 1
  BY <1>1, <1>2 DEF Counted
<1> DEFINE r == [job[p] EXCEPT !.step = "save", !.minted = count'["channels"]]
<1>5. /\ r \in Jobs /\ r.step = "save" /\ r.minted = count'["channels"]
      /\ r.config = job[p].config /\ r.lapsed = job[p].lapsed
  BY <1>2, <1>3 DEF Jobs, Steps, Keys
<1>6. job' = [job EXCEPT ![p] = r]
  BY <1>1
<1>7. job'[p] = r /\ job' \in [Procs -> Jobs] /\ \A q \in Procs : q # p => job'[q] = job[q]
  <2> HIDE DEF r
  <2>1. QED  BY <1>2, <1>5, <1>6
<1>8. QED  BY <1>1, <1>3, <1>4, <1>5, <1>7

\* Where p works alone, what is known of the others holds of p.
LEMMA AloneNext ==
  ASSUME NEW p \in Procs, \A q \in Procs \ {p} : At(q, "idle")',
         Due(p)' => row'.channel = job'[p].config.channel,
         Current(p)' => /\ row'.channel \in {job'[p].config.channel, Unwatched}
                        /\ ~At(p, "watch")' /\ ~At(p, "save")'
                        /\ At(p, "stop")' => p = Settings
  PROVE  DueAlone' /\ SameChannel'
<1>1. \A q \in Procs : Working(q)' => q = p
  BY DEF Working
<1>2. \A q \in Procs : (Due(q)' => q = p) /\ (Current(q)' => q = p)
  BY <1>1 DEF Due, Current
<1>3. DueAlone'
  BY <1>2 DEF DueAlone
<1>4. SameChannel'
  BY <1>2 DEF SameChannel
<1>5. QED  BY <1>3, <1>4

\* A renewal that finds its channel due goes on alone.
LEMMA RenewKeeps == ASSUME Inv, ChannelInv, NEW p \in Procs, Renew(p) PROVE ChannelInv'
<1> USE DEF world, memory
<1>1. /\ job' \in [Procs -> Jobs] /\ \A q \in Procs : q # p => job'[q] = job[q]
      /\ job[p].step = "renew" /\ job'[p].config = job[p].config
      /\ job'[p].step = IF NeedsRenewal(job[p].config) THEN "stop" ELSE "finish"
  BY RenewEffect
<1>2. UNCHANGED <<google, notices, excused, count, live, age, row, imported, state, lock>>
  BY DEF Renew
<1>3. p # Settings
  BY <1>1 DEF ChannelInv, Roles, At
<1>4. CASE ~NeedsRenewal(job[p].config)
  BY <1>1, <1>2, <1>3, <1>4, QuietStep
<1>5. CASE NeedsRenewal(job[p].config)
  <2>1. Due(p) /\ row.channel = job[p].config.channel /\ \A q \in Procs \ {p} : At(q, "idle")
    BY <1>1, <1>5, Renewer DEF At
  <2>2. job'[p].step = "stop" /\ NeedsRenewal(job[p].config)' /\ \A q \in Procs \ {p} : At(q, "idle")'
    BY <1>1, <1>2, <1>5, <2>1 DEF At, NeedsRenewal
  <2>3. Numbered'
    BY <1>1, <1>2, <2>2 DEF ChannelInv, Numbered, Lapsed, At
  <2>4. Roles'
    BY <1>1, <1>2, <1>3, <2>1, <2>2, Names DEF ChannelInv, Roles, NeedsRenewal, At, Working
  <2>5. DueAlone' /\ SameChannel'
    BY <1>1, <1>2, <2>1, <2>2, AloneNext DEF Current
  <2>6. \A q \in Procs : ~At(q, "save") /\ ~At(q, "save")'
                         /\ (At(q, "watch")' => At(q, "watch")) /\ (At(q, "clear")' => At(q, "clear"))
                         /\ (At(q, "watch") => At(q, "watch")') /\ (At(q, "clear") => At(q, "clear")')
    BY <1>1, <2>1, <2>2 DEF At
  <2>7. NoOrphan'
    BY <1>2, <2>6 DEF ChannelInv, OneChannel, NoOrphan
  <2>8. OffIsOff'
    BY <1>1, <1>2, <1>3, Names DEF ChannelInv, OneChannel, OffIsOff, At
  <2>9. OneChannel'
    BY <1>2, <2>6, <2>7, <2>8 DEF ChannelInv, OneChannel, Lapsed
  <2>10. QED  BY <2>3, <2>4, <2>5, <2>9 DEF ChannelInv
<1>6. QED  BY <1>4, <1>5

\* The channel that is stopped is the row's, and no other is live.
LEMMA StopKeeps == ASSUME Inv, Races \subseteq {"gap"}, ChannelInv, NEW p \in Procs, Stop(p) PROVE ChannelInv'
<1> USE DEF world, memory
<1>1. job \in [Procs -> Jobs] /\ job[p].step = "stop" /\ AfterStop(p) \in {"clear", "watch"}
      /\ AfterStop(p) \in Steps
  BY DEF Inv, TypeOK, Stop, At, AfterStop, Steps
<1>2. /\ job' \in [Procs -> Jobs] /\ \A q \in Procs : q # p => job'[q] = job[q]
      /\ job'[p].step = AfterStop(p) /\ job'[p].config = job[p].config
  BY <1>1, Onward DEF Stop
<1>3. UNCHANGED <<google, notices, excused, count, age, row, imported, state, lock>>
  BY DEF Stop
<1>4. row.channel = job[p].config.channel /\ live' = live \ {row.channel}
  BY <1>1 DEF Stop, ChannelInv, Roles, At
<1>5. \A q \in Procs : ~At(q, "watch") /\ ~At(q, "save")
  BY <1>1, Switching DEF At
<1>6. \A q \in Procs : ~At(q, "save")' /\ (At(q, "watch")' => q = p) /\ (At(q, "idle")' <=> At(q, "idle"))
                       /\ (At(q, "stop")' => At(q, "stop") /\ q # p) /\ (At(q, "reread")' => At(q, "reread"))
                       /\ (q # p => (At(q, "clear")' <=> At(q, "clear")))
                       /\ (At(q, "finish")' <=> At(q, "finish")) /\ job'[q].config = job[q].config
  BY <1>1, <1>2, <1>5 DEF At
<1>7. \A q \in Procs : (Due(q)' <=> Due(q)) /\ (Current(q)' <=> Current(q)) /\ (Working(q)' <=> Working(q))
  BY <1>1, <1>2, <1>3 DEF Due, Current, Working, NeedsRenewal, At
<1>8. At(p, "clear")' => p = Settings /\ ~row.enabled
  BY <1>2 DEF AfterStop, At
<1>9. At(p, "watch")' => (p = Settings => row.enabled)
  BY <1>2 DEF AfterStop, At
<1>10. Numbered'
  BY <1>3, <1>4, <1>6 DEF ChannelInv, Numbered, Lapsed
<1>11. Roles'
  <2>1. \A c \in Channels : Working(c)' => job'[c].config.channel = c
    BY <1>6, <1>7, Names DEF ChannelInv, Roles
  <2>2. \A c \in Channels : state'[c] = "queued" => age'[c] = "fresh"
    BY <1>3 DEF ChannelInv, Roles
  <2>3. \A q \in Procs : /\ At(q, "clear")' => q = Settings /\ ~row'.enabled
                         /\ At(q, "reread")' => q = Sweep /\ ~NeedsRenewal(row)'
                         /\ At(q, "stop")' => row'.channel = job'[q].config.channel
    BY <1>3, <1>6, <1>8 DEF ChannelInv, Roles, NeedsRenewal
  <2>4. \E s \in {"idle", "stop", "watch", "save", "clear", "finish"} : At(Settings, s)'
    BY <1>1, <1>2, Names DEF ChannelInv, Roles, At
  <2>5. /\ row'.enabled /\ At(Settings, "stop")' => NeedsRenewal(job[Settings].config)'
        /\ At(Settings, "watch")' \/ At(Settings, "save")' => row'.enabled
    BY <1>3, <1>6, <1>9, Names DEF ChannelInv, Roles, NeedsRenewal
  <2>6. ~row'.enabled => At(Manual, "idle")' /\ At(Sweep, "idle")'
    BY <1>3, <1>6, Names DEF ChannelInv, Roles
  <2>7. ~row'.enabled /\ At(Settings, "finish")' => row'.channel = Unwatched
    BY <1>3, <1>6, Names DEF ChannelInv, Roles
  <2>8. QED  BY <2>1, <2>2, <2>3, <2>4, <2>5, <2>6, <2>7 DEF Roles
<1>12. DueAlone'
  BY <1>3, <1>6, <1>7 DEF ChannelInv, DueAlone
<1>13. SameChannel'
  <2> SUFFICES ASSUME NEW q \in Procs, Current(q)'
               PROVE  /\ row'.channel \in {job'[q].config.channel, Unwatched}
                      /\ ~At(q, "watch")' /\ ~At(q, "save")'
                      /\ At(q, "stop")' => q = Settings
                      /\ \A r \in Procs : Current(r)' => job'[r].config.channel = job'[q].config.channel
    BY DEF SameChannel
  <2>1. Current(q)
    BY <1>7
  <2>2. ~At(q, "watch")'
    <3>1. ASSUME q = p PROVE AfterStop(p) = "clear"
      <4>1. p = Settings /\ ~NeedsRenewal(job[p].config)
        BY <1>1, <2>1, <3>1 DEF ChannelInv, SameChannel, Current, At
      <4>2. ~row.enabled
        BY <1>1, <4>1 DEF ChannelInv, Roles, At
      <4>3. QED  BY <4>1, <4>2 DEF AfterStop
    <3>2. QED  BY <1>2, <1>6, <3>1 DEF At
  <2>3. QED  BY <1>3, <1>6, <1>7, <2>1, <2>2 DEF ChannelInv, SameChannel
<1>14. OneChannel'
  <2>1. NoOrphan'
    BY <1>4, <1>5, Names DEF ChannelInv, OneChannel, NoOrphan
  <2>2. OffIsOff'
    BY <1>3, <1>6, Names DEF ChannelInv, OneChannel, OffIsOff
  <2>3. row'.channel \notin live'
    BY <1>3, <1>4
  <2>4. At(p, "watch")' \/ At(p, "clear")'
    BY <1>1, <1>2 DEF At
  <2>5. QED  BY <2>1, <2>2, <2>3, <2>4 DEF OneChannel
<1>15. QED  BY <1>10, <1>11, <1>12, <1>13, <1>14 DEF ChannelInv

\* The channel that is made is new, and is alone.
LEMMA WatchKeeps == ASSUME Inv, Races \subseteq {"gap"}, ChannelInv, NEW p \in Procs, Watch(p) PROVE ChannelInv'
<1> USE DEF world, memory
<1> DEFINE n == count["channels"]
<1>1. /\ job' \in [Procs -> Jobs] /\ \A q \in Procs : q # p => job'[q] = job[q]
      /\ job[p].step = "watch" /\ job'[p].step = "save" /\ job'[p].minted = n + 1
      /\ job'[p].config = job[p].config /\ n + 1 \in Channels
      /\ count'["channels"] = n + 1 /\ live' = live \cup {n + 1}
  BY WatchEffect
<1>2. UNCHANGED <<google, notices, excused, age, row, imported, state, lock>>
  BY DEF Watch
<1>3. /\ n \in Nat /\ row.channel \in Nat /\ live \subseteq Nat /\ Channels \subseteq Nat
      /\ \A c \in Channels : c > n => age[c] = "fresh"
      /\ row.channel <= n /\ \A c \in live : c <= n
  BY Names DEF Inv, TypeOK, Configs, ChannelInv, Numbered
<1>4. Due(p) /\ row.channel = job[p].config.channel /\ NeedsRenewal(job[p].config)
      /\ \A q \in Procs \ {p} : At(q, "idle")
  BY <1>1, Renewer DEF At
<1>5. \A q \in Procs \ {p} : At(q, "idle")' /\ ~At(q, "save")'
  BY <1>1, <1>4 DEF At
<1>6. Numbered'
  <2>1. \A c \in Channels : c > n + 1 => c > n
    BY <1>3
  <2>2. age[n + 1] = "fresh"
    BY <1>1, <1>3
  <2>3. row'.channel <= n + 1 /\ \A c \in live' : c <= n + 1
    BY <1>1, <1>2, <1>3
  <2>4. \A q \in Procs : At(q, "save")' => job'[q].minted \in live' /\ age'[job'[q].minted] = "fresh"
    BY <1>1, <1>2, <1>5, <2>2
  <2>5. QED  BY <1>1, <1>2, <1>3, <2>1, <2>3, <2>4 DEF ChannelInv, Numbered, Lapsed
<1>7. Roles'
  BY <1>1, <1>2, <1>4, <1>5, Names DEF ChannelInv, Roles, At, Working
<1>8. DueAlone' /\ SameChannel'
  <2>1. NeedsRenewal(job[p].config)'
    BY <1>1, <1>2, <1>4 DEF NeedsRenewal
  <2>2. QED  BY <1>1, <1>2, <1>4, <1>5, <2>1, AloneNext DEF Current
<1>9. OneChannel'
  <2>1. \A q \in Procs : ~At(q, "save")
    BY <1>1, <1>4 DEF At
  <2>2. live \subseteq {row.channel}
    BY <2>1 DEF ChannelInv, OneChannel, NoOrphan
  <2>3. At(p, "save")'
    BY <1>1 DEF At
  <2>4. NoOrphan'
    BY <1>1, <1>2, <2>2, <2>3 DEF NoOrphan
  <2>5. OffIsOff'
    BY <1>1, <1>2, Names DEF ChannelInv, OneChannel, OffIsOff, At
  <2>6. row.channel \notin live
    BY <1>1 DEF ChannelInv, OneChannel, At
  <2>7. row'.channel \notin live'
    BY <1>1, <1>2, <1>3, <2>6
  <2>8. QED  BY <2>3, <2>4, <2>5, <2>7 DEF OneChannel
<1>10. QED  BY <1>6, <1>7, <1>8, <1>9 DEF ChannelInv

\* The row takes the one live channel.
LEMMA SaveKeeps == ASSUME Inv, ChannelInv, NEW p \in Procs, SaveChannel(p) PROVE ChannelInv'
<1> USE DEF world, memory
<1> DEFINE s == IF CatchingUp(p) THEN "reread" ELSE "finish"
<1>1. job \in [Procs -> Jobs] /\ s \in Steps /\ job[p].step = "save" /\ row \in Configs
      /\ job[p].minted \in Keys
  BY JobFacts DEF Inv, TypeOK, Steps, SaveChannel, At
<1>2. /\ job' \in [Procs -> Jobs] /\ \A q \in Procs : q # p => job'[q] = job[q]
      /\ job'[p].step = s /\ job'[p].config = job[p].config
  BY <1>1, Onward DEF SaveChannel
<1>3. /\ UNCHANGED <<google, notices, excused, count, live, age, imported, state, lock>>
      /\ row'.channel = job[p].minted /\ row'.enabled = row.enabled
  BY <1>1 DEF SaveChannel, Configs
<1>4. Due(p) /\ row.channel = job[p].config.channel /\ NeedsRenewal(job[p].config)
      /\ \A q \in Procs \ {p} : At(q, "idle")
  BY <1>1, Renewer DEF At
<1>5. \A q \in Procs : (q # p => At(q, "idle")') /\ ~At(q, "watch")' /\ ~At(q, "save")' /\ ~At(q, "clear")'
                       /\ ~At(q, "stop")' /\ (At(q, "reread")' => q = p)
  BY <1>1, <1>2, <1>4 DEF At
<1>6. job[p].minted \in live /\ age[job[p].minted] = "fresh"
  BY <1>1 DEF ChannelInv, Numbered, At
<1>7. Numbered'
  BY <1>3, <1>5, <1>6 DEF ChannelInv, Numbered, Lapsed
<1>8. Roles'
  <2>1. \A c \in Channels : Working(c)' => job'[c].config.channel = c
    BY <1>1, <1>2, <1>5, Names DEF ChannelInv, Roles, Working, At
  <2>2. \A c \in Channels : state'[c] = "queued" => age'[c] = "fresh"
    BY <1>3 DEF ChannelInv, Roles
  <2>3. \A q \in Procs : At(q, "reread")' => q = Sweep /\ ~NeedsRenewal(row)'
    BY <1>2, <1>3, <1>5, <1>6 DEF CatchingUp, NeedsRenewal, At
  <2>4. \E t \in {"idle", "stop", "watch", "save", "clear", "finish"} : At(Settings, t)'
    BY <1>2, <1>5, Names DEF CatchingUp, At
  <2>5. ~row'.enabled => At(Manual, "idle")' /\ At(Sweep, "idle")'
    BY <1>1, <1>2, <1>3, Names DEF ChannelInv, Roles, At
  <2>6. ~row'.enabled /\ At(Settings, "finish")' => FALSE
    BY <1>1, <1>3, <1>5, Names DEF ChannelInv, Roles, At
  <2>7. QED  BY <1>3, <1>5, <2>1, <2>2, <2>3, <2>4, <2>5, <2>6, Names DEF Roles
<1>9. DueAlone' /\ SameChannel'
  <2>1. NeedsRenewal(job[p].config)' /\ ~Due(p)'
    BY <1>2, <1>3, <1>4 DEF NeedsRenewal, Due, At
  <2>2. QED  BY <1>5, <2>1, AloneNext DEF Current
<1>10. OneChannel'
  <2>1. \A q \in Procs : At(q, "save") => q = p
    BY <1>4 DEF At
  <2>2. live \subseteq {row.channel, job[p].minted} /\ row.channel \notin live
    BY <1>1, <2>1 DEF ChannelInv, OneChannel, NoOrphan, At
  <2>3. NoOrphan'
    BY <1>3, <2>2 DEF NoOrphan
  <2>4. OffIsOff'
    <3> SUFFICES ASSUME ~row.enabled, At(Settings, "idle")' PROVE FALSE
      BY <1>3 DEF OffIsOff
    <3>1. p # Settings /\ p # Manual /\ p # Sweep
      BY <1>1, <1>2, Names DEF ChannelInv, Roles, At
    <3>2. p \in Channels /\ Working(p) /\ At(Settings, "idle")
      BY <1>1, <1>4, <3>1, Names DEF Procs, Others, At, Working
    <3>3. row.channel = p /\ row.channel = Unwatched
      BY <1>4, <3>2 DEF ChannelInv, Roles, OneChannel, OffIsOff
    <3>4. QED  BY <3>2, <3>3, Names
  <2>5. QED  BY <1>3, <1>5, <1>6, <2>3, <2>4 DEF OneChannel
<1>11. QED  BY <1>7, <1>8, <1>9, <1>10 DEF ChannelInv

\* A switched-off calendar's row loses a channel that is not live any more.
LEMMA ClearKeeps == ASSUME Inv, ChannelInv, NEW p \in Procs, ClearChannel(p) PROVE ChannelInv'
<1> USE DEF world, memory
<1>1. job \in [Procs -> Jobs] /\ job[p].step = "clear" /\ "finish" \in Steps /\ row \in Configs
  BY DEF Inv, TypeOK, Steps, ClearChannel, At
<1>2. /\ job' \in [Procs -> Jobs] /\ \A q \in Procs : q # p => job'[q] = job[q]
      /\ job'[p].step = "finish" /\ job'[p].config = job[p].config
  BY <1>1, Onward DEF ClearChannel
<1>3. /\ UNCHANGED <<google, notices, excused, count, live, age, imported, state, lock>>
      /\ row'.channel = Unwatched /\ row'.enabled = row.enabled
  BY <1>1 DEF ClearChannel, Configs
<1>4. p = Settings /\ ~row.enabled /\ At(Sweep, "idle") /\ At(Manual, "idle") /\ row.channel \notin live
  BY <1>1 DEF ChannelInv, Roles, OneChannel, At
<1>5. \A q \in Procs \ {p} : ~At(q, "watch") /\ ~At(q, "save") /\ (~At(q, "idle") => ~Due(q))
  BY <1>1, Switching DEF At
<1>6. \A q \in Procs \ {p} : ~At(q, "stop") /\ ~At(q, "clear") /\ ~At(q, "reread")
  <2> SUFFICES ASSUME NEW q \in Procs \ {p} PROVE ~At(q, "stop") /\ ~At(q, "clear") /\ ~At(q, "reread")
    OBVIOUS
  <2>1. ~At(q, "clear")
    BY <1>4 DEF ChannelInv, Roles
  <2>2. ~At(q, "reread")
    BY <1>4 DEF ChannelInv, Roles, At
  <2>3. ~At(q, "stop")
    <3>1. At(q, "stop") => Current(q) \/ Due(q)
      BY DEF At, Current, Due, Working
    <3>2. At(q, "stop") => ~At(q, "idle")
      BY DEF At
    <3>3. QED  BY <1>4, <1>5, <3>1, <3>2 DEF ChannelInv, SameChannel
  <2>4. QED  BY <2>1, <2>2, <2>3
<1>7. \A q \in Procs : \A t \in {"watch", "save", "stop", "clear", "reread"} : ~At(q, t)'
  BY <1>2, <1>5, <1>6 DEF At
<1>8. Numbered'
  BY <1>3, <1>7 DEF ChannelInv, Numbered, Lapsed, Unwatched, Inv, TypeOK
<1>9. Roles'
  <2>1. \A c \in Channels : Working(c)' => job'[c].config.channel = c
    BY <1>2, <1>4, Names DEF ChannelInv, Roles, Working, At
  <2>2. \A c \in Channels : state'[c] = "queued" => age'[c] = "fresh"
    BY <1>3 DEF ChannelInv, Roles
  <2>3. At(Settings, "finish")'
    BY <1>2, <1>4 DEF At
  <2>4. At(Manual, "idle")' /\ At(Sweep, "idle")'
    BY <1>2, <1>4, Names DEF At
  <2>5. QED  BY <1>3, <1>7, <2>1, <2>2, <2>3, <2>4, Names DEF Roles
<1>10. DueAlone'
  <2> SUFFICES ASSUME NEW q \in Procs, Due(q)' PROVE FALSE
    BY DEF DueAlone
  <2>1. q # p
    BY <1>2 DEF Due, At
  <2>2. Due(q) /\ ~At(q, "idle")
    BY <1>2, <1>3, <2>1 DEF Due, Working, NeedsRenewal, At
  <2>3. QED  BY <1>5, <2>1, <2>2
<1>11. SameChannel'
  <2>1. \A q \in Procs : Current(q)' => Current(q) /\ job'[q].config = job[q].config
    BY <1>1, <1>2, <1>3 DEF Current, Working, NeedsRenewal, At
  <2>2. QED  BY <1>3, <1>7, <2>1 DEF ChannelInv, SameChannel
<1>12. OneChannel'
  <2>1. \A q \in Procs : ~At(q, "save")
    BY <1>1, <1>5 DEF At
  <2>2. live = {}
    BY <1>4, <2>1 DEF ChannelInv, OneChannel, NoOrphan
  <2>3. Lapsed(row)'
    BY <1>3 DEF ChannelInv, Numbered, Lapsed, NoConfig
  <2>4. QED  BY <1>3, <1>7, <2>2, <2>3 DEF OneChannel, NoOrphan, OffIsOff
<1>13. QED  BY <1>8, <1>9, <1>10, <1>11, <1>12 DEF ChannelInv

\* The catch-up goes on with the channel of the row, that is not due.
LEMMA RereadKeeps == ASSUME Inv, ChannelInv, NEW p \in Procs, Reread(p) PROVE ChannelInv'
<1> USE DEF world, memory
<1>1. TypeOK /\ job[p] \in Jobs /\ row \in Configs
  BY JobFacts DEF Inv, TypeOK
<1>2. job' = [job EXCEPT ![p] = [job[p] EXCEPT !.step = "start", !.config = row]]
  BY DEF Reread
<1>3. [job[p] EXCEPT !.step = "start", !.config = row] \in Jobs
  BY <1>1 DEF Jobs, Steps
<1>4. /\ job' \in [Procs -> Jobs] /\ \A q \in Procs : q # p => job'[q] = job[q]
      /\ job'[p].step = "start" /\ job'[p].config = row /\ job[p].step = "reread"
  BY <1>1, <1>2, <1>3 DEF TypeOK, Jobs, Reread, At
<1>5. UNCHANGED <<google, notices, excused, count, live, age, row, imported, state, lock>>
  BY DEF Reread
<1>6. p = Sweep /\ ~NeedsRenewal(row) /\ row.enabled
  BY <1>4 DEF ChannelInv, Roles, At
<1>7. row.channel # Unwatched
  BY <1>6 DEF ChannelInv, Numbered, Lapsed, NeedsRenewal, NoConfig
<1>8. \A q \in Procs : q # p => \A t \in Steps : At(q, t)' <=> At(q, t)
  BY <1>4 DEF At
<1>9. \A t \in {"watch", "save", "stop", "clear", "reread", "finish", "idle"} : ~At(p, t)'
  BY <1>4 DEF At
<1>10. \A q \in Procs : \A t \in {"watch", "save", "stop", "clear"} : At(q, t)' <=> At(q, t)
  BY <1>4 DEF At
<1>11. \A q \in Procs : At(q, "save")' => job'[q].minted = job[q].minted
  BY <1>4 DEF At
<1>12. Numbered'
  BY <1>5, <1>10, <1>11 DEF ChannelInv, Numbered, Lapsed
<1>13. Roles'
  <2>1. \A c \in Channels : Working(c)' => job'[c].config.channel = c
    BY <1>4, <1>6, Names DEF ChannelInv, Roles, Working, At
  <2>2. \A c \in Channels : state'[c] = "queued" => age'[c] = "fresh"
    BY <1>5 DEF ChannelInv, Roles
  <2>3. \A q \in Procs : /\ At(q, "clear")' => q = Settings /\ ~row'.enabled
                         /\ At(q, "reread")' => q = Sweep /\ ~NeedsRenewal(row)'
                         /\ At(q, "stop")' => row'.channel = job'[q].config.channel
    BY <1>4, <1>5, <1>6 DEF ChannelInv, Roles, NeedsRenewal, At
  <2>4. \E s \in {"idle", "stop", "watch", "save", "clear", "finish"} : At(Settings, s)'
    BY <1>4, <1>6, Names DEF ChannelInv, Roles, At
  <2>5. /\ row'.enabled /\ At(Settings, "stop")' => NeedsRenewal(job[Settings].config)'
        /\ At(Settings, "watch")' \/ At(Settings, "save")' => row'.enabled
    BY <1>4, <1>5, <1>6, Names DEF ChannelInv, Roles, NeedsRenewal, At
  <2>6. QED  BY <1>5, <1>6, <2>1, <2>2, <2>3, <2>4, <2>5 DEF Roles
<1>14. DueAlone'
  <2> SUFFICES ASSUME NEW q \in Procs, Due(q)' PROVE FALSE
    BY DEF DueAlone
  <2>1. q # p
    BY <1>4, <1>5, <1>6 DEF Due, NeedsRenewal
  <2>2. Due(q)
    BY <1>4, <1>5, <2>1 DEF Due, Working, NeedsRenewal, At
  <2>3. QED  BY <1>4, <2>1, <2>2 DEF ChannelInv, DueAlone, At
<1>15. SameChannel'
  <2>1. \A q \in Procs : Current(q)' => job'[q].config.channel = row.channel
    <3> SUFFICES ASSUME NEW q \in Procs, Current(q)', q # p PROVE job[q].config.channel = row.channel
      BY <1>4
    <3>1. Current(q)
      BY <1>4, <1>5 DEF Current, Working, NeedsRenewal, At
    <3>2. QED  BY <1>7, <3>1 DEF ChannelInv, SameChannel
  <2>2. \A q \in Procs : Current(q)' => ~At(q, "watch")' /\ ~At(q, "save")' /\ (At(q, "stop")' => q = Settings)
    <3> SUFFICES ASSUME NEW q \in Procs, Current(q)', q # p
                 PROVE  ~At(q, "watch")' /\ ~At(q, "save")' /\ (At(q, "stop")' => q = Settings)
      BY <1>9
    <3>1. Current(q)
      BY <1>4, <1>5 DEF Current, Working, NeedsRenewal, At
    <3>2. QED  BY <1>10, <3>1 DEF ChannelInv, SameChannel
  <2>3. QED  BY <1>5, <2>1, <2>2 DEF SameChannel
<1>16. OneChannel'
  <2>1. NoOrphan'
    BY <1>5, <1>10, <1>11 DEF ChannelInv, OneChannel, NoOrphan
  <2>2. OffIsOff'
    BY <1>5, <1>6 DEF OffIsOff
  <2>3. QED  BY <1>5, <1>10, <2>1, <2>2 DEF ChannelInv, OneChannel, Lapsed
<1>17. QED  BY <1>12, <1>13, <1>14, <1>15, <1>16 DEF ChannelInv

\* A channel ages while nothing works, and it is the row's.
LEMMA AgeKeeps ==
  ASSUME Inv, Races \subseteq {"gap"}, ChannelInv, NEW c \in Channels, Age(c)
  PROVE  /\ ChannelInv' /\ c = row.channel /\ ~Busy
         /\ (Lapsed(row) => Lapsed(row)')
<1>1. /\ ~Busy /\ c \in live \cup {row.channel}
      /\ age' = [age EXCEPT ![c] = IF @ = "fresh" THEN "soon" ELSE "lapsed"]
      /\ live' = (IF age[c] = "soon" THEN live \ {c} ELSE live)
      /\ UNCHANGED <<google, notices, row, imported, state, lock, job, excused, count>>
  BY DEF Age
<1>2. \A q \in Procs : At(q, "idle") /\ At(q, "idle")'
  BY <1>1 DEF Busy, At
<1>3. live \subseteq {row.channel} /\ c = row.channel
  BY <1>1, <1>2 DEF ChannelInv, OneChannel, NoOrphan, At
<1>4. /\ age \in [Keys -> Ages] /\ c \in Keys /\ c # Unwatched /\ Unwatched \in Keys
      /\ count["channels"] \in Nat
  BY Names DEF Inv, TypeOK
<1>5. \A k \in Keys : k # c => age'[k] = age[k]
  BY <1>1, <1>4
<1>6. age'[c] = IF age[c] = "fresh" THEN "soon" ELSE "lapsed"
  BY <1>1, <1>4
<1>7. Numbered'
  <2>1. Lapsed(NoConfig)'
    BY <1>4, <1>5 DEF ChannelInv, Numbered, Lapsed, NoConfig
  <2>2. \A k \in Channels : k > count["channels"] => age'[k] = "fresh"
    <3> SUFFICES ASSUME NEW k \in Channels, k > count["channels"] PROVE age'[k] = "fresh"
      OBVIOUS
    <3>1. k # c
      BY <1>3, <1>4, Names DEF ChannelInv, Numbered
    <3>2. QED  BY <1>5, <3>1, Names DEF ChannelInv, Numbered
  <2>3. row'.channel <= count'["channels"] /\ \A k \in live' : k <= count'["channels"]
    BY <1>1 DEF ChannelInv, Numbered
  <2>4. \A p \in Procs : ~At(p, "save")'
    BY <1>2 DEF At
  <2>5. QED  BY <1>1, <2>1, <2>2, <2>3, <2>4 DEF Numbered
<1>8. \A p \in Procs : ~Working(p)'
  BY <1>2 DEF Working
<1>9. \A p \in Procs : \A s \in Steps \ {"idle"} : ~At(p, s)'
  BY <1>2 DEF At
<1>10. \A k \in Channels : state'[k] = "idle"
  BY <1>1, <1>2, Names DEF Inv, TypeOK, At
<1>11. Roles'
  BY <1>2, <1>8, <1>9, <1>10, Names DEF Roles, Steps
<1>12. DueAlone' /\ SameChannel'
  BY <1>8 DEF DueAlone, SameChannel, Due, Current
<1>13. OneChannel'
  <2>1. NoOrphan'
    BY <1>1, <1>3 DEF NoOrphan
  <2>2. OffIsOff'
    BY <1>1, <1>2, Names DEF ChannelInv, OneChannel, OffIsOff
  <2>3. \A q \in Procs : ~At(q, "watch") /\ ~At(q, "save") /\ ~At(q, "clear")
    BY <1>2 DEF At
  <2>4. row.channel \in live \/ Lapsed(row)
    BY <2>3 DEF ChannelInv, OneChannel
  <2>5. row'.channel \in live' \/ Lapsed(row)'
    BY <1>1, <1>3, <1>6, <2>4 DEF Lapsed
  <2>6. QED  BY <1>9, <2>1, <2>2, <2>5 DEF OneChannel, Steps
<1>14. Lapsed(row) => Lapsed(row)'
  BY <1>1, <1>3, <1>6 DEF Lapsed
<1>15. QED  BY <1>1, <1>3, <1>7, <1>11, <1>12, <1>13, <1>14 DEF ChannelInv

\* A change at Google touches no channel.
LEMMA ChangeKeeps == ASSUME ChannelInv, Change PROVE ChannelInv'
<1>1. UNCHANGED <<live, age, row, imported, state, lock, job, count>>
  BY DEF Change
<1>2. Numbered' /\ Roles'
  BY <1>1 DEF ChannelInv, Numbered, Roles, Lapsed, At, Working, NeedsRenewal
<1>3. DueAlone' /\ SameChannel'
  BY <1>1 DEF ChannelInv, DueAlone, SameChannel, Due, Current, At, Working, NeedsRenewal
<1>4. OneChannel'
  BY <1>1 DEF ChannelInv, OneChannel, NoOrphan, OffIsOff, At, Lapsed
<1>5. QED  BY <1>2, <1>3, <1>4 DEF ChannelInv

\* A restart finds nobody between two channels.
LEMMA RestartKeeps == ASSUME Inv, Races \subseteq {"gap"}, ChannelInv, Restart PROVE ChannelInv'
<1>1. /\ UNCHANGED <<google, notices, live, age, row, imported>>
      /\ state' = [c \in Channels |-> "idle"] /\ job' = [p \in Procs |-> Idle]
      /\ \A p \in Procs : ~Renewing(p)
  BY DEF Restart
<1>2. count'["channels"] = count["channels"]
  BY DEF Restart, Counted, Inv, TypeOK
<1>3. \A p \in Procs : At(p, "idle")' /\ ~Working(p)'
  BY <1>1, IdleJob DEF At, Working
<1>4. \A p \in Procs : \A s \in Steps \ {"idle"} : ~At(p, s)'
  BY <1>3 DEF At
<1>5. \A p \in Procs : ~At(p, "watch") /\ ~At(p, "save") /\ ~At(p, "clear") /\ ~At(p, "stop")
  BY <1>1 DEF Renewing
<1>6. Numbered'
  BY <1>1, <1>2, <1>4 DEF ChannelInv, Numbered, Lapsed, Steps
<1>7. Roles'
  BY <1>1, <1>3, <1>4, Names DEF Roles, Steps
<1>8. DueAlone' /\ SameChannel'
  BY <1>3 DEF DueAlone, SameChannel, Due, Current
<1>9. OneChannel'
  <2>1. NoOrphan'
    BY <1>1, <1>5 DEF ChannelInv, OneChannel, NoOrphan
  <2>2. OffIsOff'
    BY <1>1, <1>5, Names DEF ChannelInv, Roles, OneChannel, OffIsOff, At
  <2>3. QED  BY <1>1, <1>4, <1>5, <2>1, <2>2 DEF ChannelInv, OneChannel, Lapsed, Steps
<1>10. QED  BY <1>6, <1>7, <1>8, <1>9 DEF ChannelInv

\* A job that begins meets no other over a channel that is due.
LEMMA BeginKeeps ==
  ASSUME Inv, ChannelInv, NEW p \in Procs, NEW s \in {"start", "renew", "stop"},
         At(p, "idle"), Begin(p, s), Busy => ~NeedsRenewal(row),
         UNCHANGED <<live, age>>, count'["channels"] = count["channels"],
         row'.channel = row.channel, row'.token = row.token,
         s = "stop" <=> p = Settings,
         p # Settings => row'.enabled = row.enabled,
         p = Settings => ~Busy /\ row'.enabled = ~row.enabled,
         p \in Channels => row.channel = p,
         p \in {Manual, Sweep} => row.enabled,
         \A c \in Channels : state'[c] = "queued" => state[c] = "queued"
  PROVE  ChannelInv'
<1>1. /\ job' \in [Procs -> Jobs] /\ \A q \in Procs : q # p => job'[q] = job[q]
      /\ job'[p].step = s /\ job'[p].config = row
  BY Beginning DEF Inv, TypeOK, Steps
<1>2. \A q \in Procs : /\ \A t \in {"watch", "save", "clear", "reread", "finish"} : At(q, t)' <=> At(q, t)
                       /\ (At(q, "stop")' => At(q, "stop") \/ (q = p /\ p = Settings))
                       /\ (At(q, "idle")' <=> At(q, "idle") /\ q # p)
  BY <1>1 DEF At
<1>3. \A q \in Procs : q # p =>
        (Due(q)' <=> Due(q)) /\ (Current(q)' <=> Current(q)) /\ (Working(q)' <=> Working(q))
  BY <1>1 DEF Due, Current, Working, NeedsRenewal, At
<1>4. \A q \in Procs : Working(q) => ~NeedsRenewal(row) /\ q # p
  BY DEF Working, Busy, At
<1>5. (\E q \in Procs : Working(q)) => row.channel # Unwatched
  BY <1>4 DEF ChannelInv, Numbered, Lapsed, NeedsRenewal, NoConfig
<1>6. Numbered'
  BY <1>1, <1>2 DEF ChannelInv, Numbered, Lapsed, At
<1>7. Roles'
  <2>1. \A c \in Channels : Working(c)' => job'[c].config.channel = c
    BY <1>1, <1>3, Names DEF ChannelInv, Roles
  <2>2. \A c \in Channels : state'[c] = "queued" => age'[c] = "fresh"
    BY DEF ChannelInv, Roles
  <2>3. \A q \in Procs : At(q, "clear")' => q = Settings /\ ~row'.enabled
    <3> SUFFICES ASSUME NEW q \in Procs, At(q, "clear")' PROVE q = Settings /\ ~row'.enabled
      OBVIOUS
    <3>1. At(q, "clear") /\ q # p
      BY <1>2 DEF At
    <3>2. QED  BY <3>1 DEF ChannelInv, Roles
  <2>4. \A q \in Procs : At(q, "reread")' => q = Sweep /\ ~NeedsRenewal(row)'
    BY <1>2 DEF ChannelInv, Roles, NeedsRenewal
  <2>5. \A q \in Procs : At(q, "stop")' => row'.channel = job'[q].config.channel
    BY <1>1, <1>2 DEF ChannelInv, Roles
  <2>6. \E t \in {"idle", "stop", "watch", "save", "clear", "finish"} : At(Settings, t)'
    BY <1>1, Names DEF ChannelInv, Roles, At
  <2>7. row'.enabled /\ At(Settings, "stop")' => NeedsRenewal(job[Settings].config)'
    <3>1. CASE p = Settings
      <4>1. ASSUME row'.enabled PROVE age[Unwatched] = "lapsed" /\ row.channel = Unwatched
        BY <3>1, <4>1 DEF ChannelInv, OneChannel, OffIsOff, Numbered, Lapsed, NoConfig
      <4>2. QED  BY <1>1, <3>1, <4>1 DEF NeedsRenewal
    <3>2. CASE p # Settings
      BY <1>1, <3>2, Names DEF ChannelInv, Roles, NeedsRenewal, At
    <3>3. QED  BY <3>1, <3>2
  <2>8. At(Settings, "watch")' \/ At(Settings, "save")' => row'.enabled
    BY <1>2, Names DEF ChannelInv, Roles, At
  <2>9. ~row'.enabled => At(Manual, "idle")' /\ At(Sweep, "idle")'
    BY <1>2, Names DEF ChannelInv, Roles, Busy
  <2>10. ~row'.enabled /\ At(Settings, "finish")' => row'.channel = Unwatched
    BY <1>2, Names DEF ChannelInv, Roles, At
  <2>11. QED  BY <2>1, <2>2, <2>3, <2>4, <2>5, <2>6, <2>7, <2>8, <2>9, <2>10 DEF Roles
<1>8. \A q \in Procs : Working(q) => ~Due(q)
  <2> SUFFICES ASSUME NEW q \in Procs, Working(q), Due(q) PROVE FALSE
    OBVIOUS
  <2>1. NeedsRenewal(row)
    BY DEF ChannelInv, DueAlone, Due, NeedsRenewal
  <2>2. QED  BY <1>4, <2>1
<1>9. DueAlone'
  <2> SUFFICES ASSUME NEW q \in Procs, Due(q)'
               PROVE  row'.channel = job'[q].config.channel /\ \A r \in Procs \ {q} : At(r, "idle")'
    BY DEF DueAlone
  <2>1. q = p
    BY <1>3, <1>8 DEF Due
  <2>2. NeedsRenewal(row)
    BY <1>1, <2>1 DEF Due, NeedsRenewal
  <2>3. \A r \in Procs : At(r, "idle")
    BY <1>4, <2>2 DEF Working
  <2>4. QED  BY <1>1, <1>2, <2>1, <2>3
<1>10. SameChannel'
  <2>1. \A q \in Procs : Current(q)' => job'[q].config.channel = row.channel
    <3> SUFFICES ASSUME NEW q \in Procs, Current(q)', q # p PROVE job[q].config.channel = row.channel
      BY <1>1
    <3>1. Current(q) /\ Working(q)
      BY <1>3 DEF Current
    <3>2. QED  BY <1>5, <3>1 DEF ChannelInv, SameChannel
  <2>2. \A q \in Procs : Current(q)' => ~At(q, "watch")' /\ ~At(q, "save")' /\ (At(q, "stop")' => q = Settings)
    <3> SUFFICES ASSUME NEW q \in Procs, Current(q)', q # p
                 PROVE  ~At(q, "watch")' /\ ~At(q, "save")' /\ (At(q, "stop")' => q = Settings)
      BY <1>1 DEF At
    <3>1. Current(q)
      BY <1>3
    <3>2. QED  BY <1>2, <3>1 DEF ChannelInv, SameChannel
  <2>3. QED  BY <2>1, <2>2 DEF SameChannel
<1>11. OneChannel'
  <2>1. \A q \in Procs : At(q, "save")' => job'[q].minted = job[q].minted
    BY <1>1 DEF At
  <2>2. NoOrphan'
    BY <1>2, <2>1 DEF ChannelInv, OneChannel, NoOrphan
  <2>3. OffIsOff'
    BY <1>2, Names DEF ChannelInv, OneChannel, OffIsOff
  <2>4. QED  BY <1>2, <2>2, <2>3 DEF ChannelInv, OneChannel, Lapsed
<1>12. QED  BY <1>6, <1>7, <1>9, <1>10, <1>11 DEF ChannelInv

\* What listing does to its job.
LEMMA ListEffect ==
  ASSUME Inv, NEW p \in Procs, List(p) \/ ListGone(p)
  PROVE  /\ job' \in [Procs -> Jobs] /\ \A q \in Procs : q # p => job'[q] = job[q]
         /\ job[p].step = "wait" /\ job'[p].step = "import" /\ job'[p].listing = google
         /\ job'[p].config.channel = job[p].config.channel /\ job'[p].lapsed = job[p].lapsed
         /\ row'.channel = row.channel /\ row'.enabled = row.enabled
         /\ count'["channels"] = count["channels"]
         /\ UNCHANGED <<google, live, age, notices, imported, state, lock, excused>>
<1> USE DEF world, memory
<1>1. /\ job \in [Procs -> Jobs] /\ job[p] \in Jobs /\ job[p].config \in Configs /\ google \in Nat
      /\ row \in Configs /\ count \in [{"channels", "faults", "toggles"} -> Nat]
  BY JobFacts DEF Inv, TypeOK
<1>2. job[p].step = "wait"
  BY DEF List, ListGone, At
<1>3. UNCHANGED <<google, live, age, notices, imported, state, lock, excused>>
  BY DEF List, ListGone
<1>4. row'.channel = row.channel /\ row'.enabled = row.enabled
  BY <1>1 DEF List, ListGone, Configs
<1>5. count'["channels"] = count["channels"]
  BY <1>1 DEF List, ListGone, Counted
<1> DEFINE c == IF ListGone(p) THEN [job[p].config EXCEPT !.token = 0] ELSE job[p].config
<1>6. c \in Configs /\ c.channel = job[p].config.channel
  BY <1>1 DEF Configs, Tokens
<1>7. job' = [job EXCEPT ![p] = [job[p] EXCEPT !.step = "import", !.listing = google, !.config = c]]
  <2>1. CASE ListGone(p)
    BY <1>1, <2>1 DEF ListGone, Jobs
  <2>2. CASE ~ListGone(p)
    <3>1. job' = [job EXCEPT ![p] = [job[p] EXCEPT !.step = "import", !.listing = google]]
      BY <2>2 DEF List
    <3>2. [job[p] EXCEPT !.step = "import", !.listing = google]
          = [job[p] EXCEPT !.step = "import", !.listing = google, !.config = job[p].config]
      BY <1>1 DEF Jobs
    <3>3. QED  BY <2>2, <3>1, <3>2
  <2>3. QED  BY <2>1, <2>2
<1> HIDE DEF c
<1> DEFINE r == [job[p] EXCEPT !.step = "import", !.listing = google, !.config = c]
<1>8. /\ r \in Jobs /\ r.step = "import" /\ r.listing = google /\ r.config = c
      /\ r.lapsed = job[p].lapsed
  BY <1>1, <1>6 DEF Jobs, Steps, Tokens
<1>9. job'[p] = r /\ job' \in [Procs -> Jobs] /\ \A q \in Procs : q # p => job'[q] = job[q]
  <2>1. job' = [job EXCEPT ![p] = r]
    BY <1>7
  <2> HIDE DEF r
  <2>2. QED  BY <1>1, <1>8, <2>1
<1>10. QED  BY <1>2, <1>3, <1>4, <1>5, <1>6, <1>8, <1>9

\* The steps of a sync are quiet.
LEMMA SyncKeeps ==
  ASSUME Inv, ChannelInv, NEW p \in Procs,
         Enqueue(p) \/ List(p) \/ ListGone(p) \/ Import(p) \/ StoreToken(p)
  PROVE  ChannelInv'
<1> USE DEF world, memory
<1>1. job \in [Procs -> Jobs] /\ job[p] \in Jobs /\ row \in Configs
  BY JobFacts DEF Inv, TypeOK
<1>2. job[p].step \in {"start", "wait", "import", "store"}
  BY DEF Enqueue, List, ListGone, Import, StoreToken, At
<1>3. p # Settings
  BY <1>2 DEF ChannelInv, Roles, At
<1>4. CASE List(p) \/ ListGone(p)
  <2>1. /\ job' \in [Procs -> Jobs] /\ \A q \in Procs : q # p => job'[q] = job[q]
        /\ job'[p].step = "import" /\ job'[p].config.channel = job[p].config.channel
        /\ row'.channel = row.channel /\ row'.enabled = row.enabled
        /\ count'["channels"] = count["channels"] /\ UNCHANGED <<live, age, state>>
    BY <1>4, ListEffect
  <2>2. QED  BY <1>2, <1>3, <2>1, QuietStep
<1>5. CASE Enqueue(p) \/ Import(p) \/ StoreToken(p)
  <2>1. PICK s \in {"wait", "store", "finish", "renew"} : GoTo(p, s)
    BY <1>5 DEF Enqueue, Import, StoreToken
  <2>2. s \in Steps
    BY DEF Steps
  <2>3. /\ job' \in [Procs -> Jobs] /\ \A q \in Procs : q # p => job'[q] = job[q]
        /\ job'[p].step = s /\ job'[p].config = job[p].config
    BY <1>1, <2>1, <2>2, Onward
  <2>4. /\ row'.channel = row.channel /\ row'.enabled = row.enabled
        /\ UNCHANGED <<live, age, state, count>>
    BY <1>1, <1>5 DEF Enqueue, Import, StoreToken, Configs
  <2>5. QED  BY <1>2, <1>3, <2>3, <2>4, QuietStep
<1>6. QED  BY <1>4, <1>5

\* What the end of a job leaves.
LEMMA EndEffect ==
  ASSUME Inv, NEW p \in Procs, Finish(p) \/ Fail(p)
  PROVE  /\ job' \in [Procs -> Jobs] /\ \A q \in Procs : q # p => job'[q] = job[q]
         /\ job[p].step \in {"start", "wait", "import", "store", "finish"}
         /\ job'[p].step \in {"idle", "start"}
         /\ job'[p].step = "start" =>
              /\ p \in Channels /\ state[p] = "queued" /\ job[p].step = "finish"
              /\ job'[p].config = job[p].config /\ job'[p].lapsed = job[p].lapsed
         /\ \A c \in Channels : state'[c] = "queued" => state[c] = "queued"
         /\ \A c \in Channels : c # p => state'[c] = state[c]
         /\ count'["channels"] = count["channels"]
         /\ UNCHANGED <<google, notices, live, age, row, imported>>
<1> USE DEF world
<1>1. job \in [Procs -> Jobs] /\ state \in [Channels -> {"idle", "running", "queued"}]
      /\ count \in [{"channels", "faults", "toggles"} -> Nat]
  BY DEF Inv, TypeOK
<1>2. job[p].step \in {"start", "wait", "import", "store", "finish"}
  BY DEF Finish, Fail, At
<1>3. UNCHANGED <<google, notices, live, age, row, imported>>
  BY DEF Finish, Fail
<1>4. count'["channels"] = count["channels"]
  BY <1>1 DEF Finish, Fail, Counted
<1>5. CASE Finish(p) /\ p \in Channels /\ state[p] = "queued"
  <2>1. GoTo(p, "start") /\ state' = [state EXCEPT ![p] = "running"] /\ job[p].step = "finish"
    BY <1>5 DEF Finish, At
  <2>2. "start" \in Steps
    BY DEF Steps
  <2>3. /\ job' \in [Procs -> Jobs] /\ \A q \in Procs : q # p => job'[q] = job[q]
        /\ job'[p].step = "start" /\ job'[p].config = job[p].config /\ job'[p].lapsed = job[p].lapsed
    BY <1>1, <2>1, <2>2, Onward
  <2>4. \A c \in Channels : (state'[c] = "queued" => state[c] = "queued") /\ (c # p => state'[c] = state[c])
    BY <1>1, <2>1
  <2>5. QED  BY <1>2, <1>3, <1>4, <1>5, <2>1, <2>3, <2>4
<1>6. CASE ~(Finish(p) /\ p \in Channels /\ state[p] = "queued")
  <2>1. End(p) /\ state' = [c \in Channels |-> IF c = p THEN "idle" ELSE state[c]]
    BY <1>6 DEF Finish, Fail
  <2>2. job' \in [Procs -> Jobs] /\ job'[p].step = "idle" /\ \A q \in Procs : q # p => job'[q] = job[q]
    BY <1>1, <2>1, Ending, IdleJob
  <2>3. \A c \in Channels : (state'[c] = "queued" => state[c] = "queued") /\ (c # p => state'[c] = state[c])
    BY <2>1
  <2>4. QED  BY <1>2, <1>3, <1>4, <2>2, <2>3
<1>7. QED  BY <1>5, <1>6

\* The end of a job is quiet: what runs again has a channel that is not due.
LEMMA EndKeeps ==
  ASSUME Inv, ChannelInv, NEW p \in Procs, Finish(p) \/ Fail(p)
  PROVE  ChannelInv'
<1>1. /\ job' \in [Procs -> Jobs] /\ \A q \in Procs : q # p => job'[q] = job[q]
      /\ job[p].step \in {"start", "wait", "import", "store", "finish"}
      /\ job'[p].step \in {"idle", "start"}
      /\ job'[p].step = "start" =>
           /\ p \in Channels /\ state[p] = "queued" /\ job[p].step = "finish"
           /\ job'[p].config = job[p].config
      /\ \A c \in Channels : state'[c] = "queued" => state[c] = "queued"
      /\ count'["channels"] = count["channels"]
      /\ UNCHANGED <<live, age, row>>
  BY EndEffect
<1>2. job'[p].step = "start" => age[job[p].config.channel] = "fresh"
  BY <1>1 DEF ChannelInv, Roles, Working, At
<1>3. p = Settings => job'[p].step = "idle"
  BY <1>1, Names
<1>4. QED  BY <1>1, <1>2, <1>3, QuietStep

\* Every way to begin a job, as far as channels go.
LEMMA BeginsKeep ==
  ASSUME Inv, Races \subseteq {"gap"}, ChannelInv, Sync \/ RenewAll \/ Toggle \/ \E c \in Channels : Receive(c)
  PROVE  ChannelInv'
<1>1. row \in Configs /\ state \in [Channels -> {"idle", "running", "queued"}]
      /\ count \in [{"channels", "faults", "toggles"} -> Nat]
  BY DEF Inv, TypeOK
<1>2. CASE Sync
  <2>1. /\ At(Manual, "idle") /\ row.enabled /\ Begin(Manual, "start") /\ (Busy => ~NeedsRenewal(row))
        /\ UNCHANGED <<live, age, row, state, count>>
    BY <1>2 DEF Sync, MayMeet
  <2>2. QED  BY <2>1, Names, BeginKeeps
<1>3. CASE RenewAll
  <2>1. /\ At(Sweep, "idle") /\ row.enabled /\ Begin(Sweep, "renew") /\ (Busy => ~NeedsRenewal(row))
        /\ UNCHANGED <<live, age, row, state, count>>
    BY <1>3 DEF RenewAll, MayMeet
  <2>2. QED  BY <2>1, Names, BeginKeeps
<1>4. CASE Toggle
  <2>1. /\ At(Settings, "idle") /\ ~Busy /\ Begin(Settings, "stop") /\ row' = [row EXCEPT !.enabled = ~@]
        /\ Counted("toggles", MaxToggles) /\ UNCHANGED <<live, age, state>>
    BY <1>4 DEF Toggle
  <2>2. row'.channel = row.channel /\ row'.token = row.token /\ row'.enabled = ~row.enabled
    BY <1>1, <2>1 DEF Configs
  <2>3. count'["channels"] = count["channels"]
    BY <1>1, <2>1 DEF Counted
  <2>4. QED  BY <2>1, <2>2, <2>3, Names, BeginKeeps
<1>5. ASSUME NEW c \in Channels, Receive(c) PROVE ChannelInv'
  <2>1. c \in Procs /\ c # Manual /\ c # Sweep /\ c # Settings
    BY Names
  <2>2. CASE row.channel = c /\ state[c] = "idle"
    <3>1. /\ Begin(c, "start") /\ At(c, "idle") /\ state' = [state EXCEPT ![c] = "running"]
          /\ (Busy => ~NeedsRenewal(row)) /\ UNCHANGED <<live, age, row, count>>
      BY <1>5, <2>1, <2>2 DEF Receive, MayMeet, Inv, TypeOK, At
    <3>2. \A k \in Channels : state'[k] = "queued" => state[k] = "queued"
      BY <1>1, <3>1
    <3>3. QED  BY <2>1, <2>2, <3>1, <3>2, BeginKeeps
  <2>3. CASE ~(row.channel = c /\ state[c] = "idle")
    <3>1. /\ UNCHANGED <<live, age, row, job, count>>
          /\ state' = state \/ (state' = [state EXCEPT ![c] = "queued"] /\ row.channel = c /\ ~NeedsRenewal(row))
      BY <1>5, <2>3 DEF Receive
    <3>2. \A k \in Channels : state'[k] = "queued" => age'[k] = "fresh"
      BY <1>1, <3>1 DEF ChannelInv, Roles, NeedsRenewal
    <3>3. Numbered'
      BY <3>1 DEF ChannelInv, Numbered, Lapsed, At
    <3>4. Roles'
      BY <3>1, <3>2 DEF ChannelInv, Roles, At, Working, NeedsRenewal
    <3>5. DueAlone' /\ SameChannel'
      BY <3>1 DEF ChannelInv, DueAlone, SameChannel, Due, Current, At, Working, NeedsRenewal
    <3>6. OneChannel'
      BY <3>1 DEF ChannelInv, OneChannel, NoOrphan, OffIsOff, At, Lapsed
    <3>7. QED  BY <3>3, <3>4, <3>5, <3>6 DEF ChannelInv
  <2>4. QED  BY <2>2, <2>3
<1>6. QED  BY <1>2, <1>3, <1>4, <1>5

\* At first there is no channel.
LEMMA ChannelInit == Init => ChannelInv
<1> SUFFICES ASSUME Init PROVE ChannelInv
  OBVIOUS
<1>1. \A p \in Procs : job[p] = Idle /\ At(p, "idle") /\ ~Working(p)
  BY IdleJob DEF Init, At, Working
<1>2. \A p \in Procs : \A s \in Steps \ {"idle"} : ~At(p, s)
  BY <1>1 DEF At
<1>3. Numbered
  BY <1>2, Names DEF Init, Numbered, Lapsed, NoConfig, Steps, Unwatched
<1>4. Roles
  BY <1>1, <1>2, Names DEF Init, Roles, Steps
<1>5. DueAlone /\ SameChannel
  BY <1>1 DEF DueAlone, SameChannel, Due, Current
<1>6. OneChannel
  BY <1>2, Names DEF Init, OneChannel, NoOrphan, OffIsOff, Lapsed, Steps
<1>7. QED  BY <1>3, <1>4, <1>5, <1>6 DEF ChannelInv

\* Every step keeps what is known of channels, when nothing but a gap races.
LEMMA ChannelStep == Races \subseteq {"gap"} /\ Inv /\ ChannelInv /\ [Next]_vars => ChannelInv'
<1> SUFFICES ASSUME Races \subseteq {"gap"}, Inv, ChannelInv, [Next]_vars PROVE ChannelInv'
  OBVIOUS
<1>1. CASE UNCHANGED vars
  <2>1. UNCHANGED <<live, age, row, state, job, count>>
    BY <1>1 DEF vars
  <2>2. Numbered' /\ Roles'
    BY <2>1 DEF ChannelInv, Numbered, Roles, Lapsed, At, Working, NeedsRenewal
  <2>3. DueAlone' /\ SameChannel'
    BY <2>1 DEF ChannelInv, DueAlone, SameChannel, Due, Current, At, Working, NeedsRenewal
  <2>4. OneChannel'
    BY <2>1 DEF ChannelInv, OneChannel, NoOrphan, OffIsOff, At, Lapsed
  <2>5. QED  BY <2>2, <2>3, <2>4 DEF ChannelInv
<1>2. CASE Next
  BY <1>2, ChangeKeeps, AgeKeeps, BeginsKeep, SyncKeeps, RenewKeeps, StopKeeps, WatchKeeps, SaveKeeps,
     ClearKeeps, RereadKeeps, EndKeeps, RestartKeeps DEF Next, Run
<1>3. QED  BY <1>1, <1>2

\* Two jobs that import are one: both hold their lock, and it is the same lock.
LEMMA Exclusion == Inv /\ ChannelInv => ExclusiveSync
<1> SUFFICES ASSUME Inv, ChannelInv, NEW p \in Procs, NEW q \in Procs,
                    At(p, "import") \/ At(p, "store"), At(q, "import") \/ At(q, "store"), p # q
             PROVE  FALSE
  BY DEF ExclusiveSync
<1>1. Holds(p) /\ Holds(q)
  BY DEF Inv, LockInv
<1>2. Working(p) /\ Working(q) /\ ~Due(p) /\ ~Due(q)
  BY DEF ChannelInv, DueAlone, At, Working
<1>3. Current(p) /\ Current(q)
  BY <1>2 DEF Current, Due, At
<1>4. KeyOf(p) = KeyOf(q)
  BY <1>3 DEF ChannelInv, SameChannel, KeyOf
<1>5. QED  BY <1>1, <1>4 DEF Holds

-----------------------------------------------------------------------------
(* No change is lost, when nothing races *)

\* A step of one job leaves the others' word as it is.
LEMMA ToldNext ==
  ASSUME ChannelInv, NEW p \in Procs, Working(p),
         \A q \in Procs : q # p => job'[q] = job[q], age' = age,
         p # Settings /\ Due(p)' =>
           /\ ~CatchingUp(p)' => row'.channel \notin notices'
           /\ CatchingUp(p)' => Lapsed(row)' /\ ~At(p, "renew")'
           /\ p = Sweep /\ Renewing(p)' /\ Lapsed(row)' => CatchingUp(p)'
           /\ p # Sweep /\ (At(p, "import")' \/ At(p, "store")') => job'[p].listing = google'
           /\ p # Sweep /\ (At(p, "renew")' \/ Renewing(p)') => Unfetched' = {}
  PROVE  Told'
<1>1. \A q \in Procs \ {p} : ~Due(q)'
  <2> SUFFICES ASSUME NEW q \in Procs \ {p}, Due(q)' PROVE FALSE
    OBVIOUS
  <2>1. Due(q)
    BY DEF Due, Working, NeedsRenewal, At
  <2>2. At(p, "idle")
    BY <2>1 DEF ChannelInv, DueAlone
  <2>3. QED  BY <2>2 DEF Working
<1>2. QED  BY <1>1 DEF Told

\* What was owed still is, if who was to fetch it is.
LEMMA OwedNext ==
  ASSUME Owed, NEW p \in Procs,
         \A q \in Procs : q # p => job'[q] = job[q],
         Unfetched' \subseteq Unfetched, excused \subseteq excused',
         UNCHANGED <<notices, age>>, row'.channel = row.channel,
         (\E c \in Channels : state[c] = "queued") => \E c \in Channels : state'[c] = "queued",
         WillList(p) => WillList(p)' \/ \A n \in Unfetched' : WillImport(p, n)',
         \A n \in Unfetched' : WillImport(p, n) => WillImport(p, n)'
  PROVE  Owed'
<1> SUFFICES ASSUME NEW n \in Unfetched' \ excused',
                    ~(row'.channel \in notices'), ~(\E c \in Channels : state'[c] = "queued"), ~Lapsed(row)'
             PROVE  \E q \in Procs : WillList(q)' \/ WillImport(q, n)'
  BY DEF Owed
<1>1. ~Lapsed(row)
  BY DEF Lapsed
<1>2. PICK q \in Procs : WillList(q) \/ WillImport(q, n)
  BY <1>1 DEF Owed
<1>3. CASE q = p
  BY <1>2, <1>3
<1>4. CASE q # p
  BY <1>2, <1>4 DEF WillList, WillImport, At
<1>5. QED  BY <1>3, <1>4

\* What nobody promised to fetch stays so while the switch does not move.
LEMMA ExcusedNext ==
  ASSUME Excused, Unfetched' \subseteq Unfetched, excused \subseteq excused',
         row'.enabled = row.enabled, At(Settings, "idle") => At(Settings, "idle")'
  PROVE  Excused'
BY DEF Excused

\* A change is told, or is for the sweep, or was never promised.
LEMMA ChangeFetch == ASSUME Inv, Races = {}, ChannelInv, FetchInv, Change PROVE FetchInv'
<1>1. /\ google \in Nat /\ google' = google + 1 /\ notices' = notices \cup live
      /\ excused' = (IF row.enabled /\ At(Settings, "idle") THEN excused ELSE excused \cup {google + 1})
      /\ UNCHANGED <<live, age, row, imported, state, lock, job, count>>
  BY DEF Change, Inv, TypeOK
<1>2. \A p \in Procs : Working(p) /\ NeedsRenewal(row) => CatchingUp(p)
  BY DEF Change, MayMiss, Working
<1>3. Unfetched' \subseteq Unfetched \cup {google + 1}
  BY <1>1 DEF Unfetched
<1>4. \A p \in Procs : Due(p) => CatchingUp(p) /\ p = Sweep
  BY <1>2 DEF ChannelInv, DueAlone, Due, NeedsRenewal, CatchingUp
<1>5. Owed'
  <2> SUFFICES ASSUME NEW n \in Unfetched' \ excused'
               PROVE  \/ row'.channel \in notices'
                      \/ \E c \in Channels : state'[c] = "queued"
                      \/ \E p \in Procs : WillList(p)' \/ WillImport(p, n)'
                      \/ Lapsed(row)'
    BY DEF Owed
  <2>1. CASE n \in Unfetched
    <3>1. n \notin excused
      BY <1>1
    <3>2. \A p \in Procs : (WillList(p) => WillList(p)') /\ (WillImport(p, n) => WillImport(p, n)')
      BY <1>1 DEF WillList, WillImport, At
    <3>3. QED  BY <1>1, <2>1, <3>1, <3>2 DEF FetchInv, Owed, Lapsed
  <2>2. CASE n \notin Unfetched
    <3>1. row.enabled /\ At(Settings, "idle")
      BY <1>1, <1>3, <2>2
    <3>2. CASE row.channel \in live
      BY <1>1, <3>2
    <3>3. CASE Lapsed(row)
      BY <1>1, <3>3 DEF Lapsed
    <3>4. ASSUME NEW p \in Procs, At(p, "watch") \/ At(p, "save") \/ At(p, "clear") PROVE Lapsed(row)
      <4>1. ~At(p, "clear")
        BY <3>1 DEF ChannelInv, Roles
      <4>2. Due(p)
        BY <3>4, <4>1, Renewer
      <4>3. QED  BY <1>4, <4>2, Names DEF FetchInv, Told
    <3>5. QED  BY <3>2, <3>3, <3>4 DEF ChannelInv, OneChannel
  <2>3. QED  BY <2>1, <2>2
<1>6. Told'
  <2> SUFFICES ASSUME NEW p \in Procs \ {Settings}, Due(p)'
               PROVE  /\ ~CatchingUp(p)' => row'.channel \notin notices'
                      /\ CatchingUp(p)' => Lapsed(row)' /\ ~At(p, "renew")'
                      /\ p = Sweep /\ Renewing(p)' /\ Lapsed(row)' => CatchingUp(p)'
                      /\ p # Sweep /\ (At(p, "import")' \/ At(p, "store")') => job'[p].listing = google'
                      /\ p # Sweep /\ (At(p, "renew")' \/ Renewing(p)') => Unfetched' = {}
    BY DEF Told
  <2>1. Due(p)
    BY <1>1 DEF Due, Working, NeedsRenewal, At
  <2>2. CatchingUp(p) /\ p = Sweep /\ CatchingUp(p)'
    BY <1>1, <1>4, <2>1 DEF CatchingUp
  <2>3. Lapsed(row) /\ ~At(p, "renew")
    BY <2>1, <2>2 DEF FetchInv, Told
  <2>4. QED  BY <1>1, <2>2, <2>3 DEF Lapsed, At
<1>7. Excused'
  <2>1. (~row.enabled \/ ~At(Settings, "idle")) <=> (~row'.enabled \/ ~At(Settings, "idle")')
    BY <1>1 DEF At
  <2>2. QED  BY <1>1, <1>3, <2>1 DEF FetchInv, Excused
<1>8. QED  BY <1>5, <1>6, <1>7 DEF FetchInv

\* A channel that ages has told all it will.
LEMMA AgeFetch ==
  ASSUME Inv, Races = {}, ChannelInv, FetchInv, NEW c \in Channels, Age(c)
  PROVE  FetchInv'
<1>1. ~Busy /\ (Lapsed(row) => Lapsed(row)')
  BY AgeKeeps
<1>2. UNCHANGED <<google, notices, row, imported, state, job, excused>>
  BY DEF Age
<1>3. Unfetched' = Unfetched
  BY <1>2 DEF Unfetched
<1>4. Owed'
  BY <1>1, <1>2, <1>3 DEF FetchInv, Owed, WillList, WillImport, At
<1>5. Told'
  BY <1>1, <1>2 DEF Told, Due, Working, Busy, At
<1>6. Excused'
  BY <1>2, <1>3 DEF FetchInv, Excused, At
<1>7. QED  BY <1>4, <1>5, <1>6 DEF FetchInv

\* What a job that begins knows of its channel.
LEMMA BeginFetch ==
  ASSUME Inv, ChannelInv, FetchInv, NEW p \in Procs \ {Settings}, NEW s \in {"start", "renew"},
         At(p, "idle"), Begin(p, s), Busy => ~NeedsRenewal(row),
         s = "renew" => p = Sweep,
         UNCHANGED <<google, age, row, imported, excused>>,
         notices' \subseteq notices,
         s = "renew" => notices' = notices,
         NeedsRenewal(row) => row.channel \notin notices',
         \A c \in Channels : state[c] = "queued" => state'[c] = "queued"
  PROVE  FetchInv'
<1>1. /\ job' \in [Procs -> Jobs] /\ \A q \in Procs : q # p => job'[q] = job[q]
      /\ job'[p].step = s /\ job'[p].config = row
  BY Beginning DEF Inv, TypeOK, Steps
<1>2. ~job'[p].lapsed
  <2>1. job' = [job EXCEPT ![p] = [Idle EXCEPT !.step = s, !.config = row]]
    BY DEF Begin
  <2>2. [Idle EXCEPT !.step = s, !.config = row].lapsed = FALSE
    BY DEF Idle
  <2>3. QED  BY <2>1, <2>2 DEF Inv, TypeOK
<1>3. Unfetched' = Unfetched
  BY DEF Unfetched
<1>4. \A q \in Procs \ {p} : ~Due(q)'
  <2> SUFFICES ASSUME NEW q \in Procs \ {p}, Due(q)' PROVE FALSE
    OBVIOUS
  <2>1. Due(q) /\ Busy
    BY <1>1 DEF Due, Working, NeedsRenewal, At, Busy
  <2>2. NeedsRenewal(row)
    BY <2>1 DEF ChannelInv, DueAlone, Due, NeedsRenewal
  <2>3. QED  BY <2>1, <2>2
<1>5. Owed'
  <2>1. CASE s = "start"
    <3>1. WillList(p)'
      BY <1>1, <2>1 DEF WillList, At
    <3>2. QED  BY <3>1 DEF Owed
  <2>2. CASE s = "renew"
    <3>1. ~WillList(p) /\ \A n \in Unfetched : ~WillImport(p, n)
      BY DEF WillList, WillImport, At
    <3>2. QED  BY <1>1, <1>3, <2>2, <3>1, OwedNext DEF FetchInv
  <2>3. QED  BY <2>1, <2>2
<1>6. Told'
  <2>1. Due(p)' => row'.channel \notin notices'
    BY <1>1 DEF Due, NeedsRenewal
  <2>2. ~CatchingUp(p)' /\ ~Renewing(p)' /\ ~At(p, "import")' /\ ~At(p, "store")' /\ (At(p, "renew")' => p = Sweep)
    BY <1>1, <1>2 DEF CatchingUp, Renewing, At
  <2>3. QED  BY <1>4, <2>1, <2>2 DEF Told
<1>7. Excused'
  <2>1. At(Settings, "idle") <=> At(Settings, "idle")'
    BY <1>1, Names DEF At
  <2>2. QED  BY <1>3, <2>1, ExcusedNext DEF FetchInv
<1>8. QED  BY <1>5, <1>6, <1>7 DEF FetchInv

\* Every way to begin a job, as far as changes go.
LEMMA BeginsFetch ==
  ASSUME Inv, Races = {}, ChannelInv, FetchInv,
         Sync \/ RenewAll \/ Toggle \/ \E c \in Channels : Receive(c)
  PROVE  FetchInv'
<1>1. row \in Configs /\ state \in [Channels -> {"idle", "running", "queued"}]
  BY DEF Inv, TypeOK
<1>2. CASE Sync
  <2>1. /\ At(Manual, "idle") /\ Begin(Manual, "start") /\ (Busy => ~NeedsRenewal(row))
        /\ (NeedsRenewal(row) => row.channel \notin notices)
        /\ UNCHANGED <<google, notices, age, row, imported, excused, state>>
    BY <1>2 DEF Sync, MayMeet
  <2>2. QED  BY <2>1, Names, BeginFetch
<1>3. CASE RenewAll
  <2>1. /\ At(Sweep, "idle") /\ Begin(Sweep, "renew") /\ (Busy => ~NeedsRenewal(row))
        /\ row.channel \notin notices
        /\ UNCHANGED <<google, notices, age, row, imported, excused, state>>
    BY <1>3 DEF RenewAll, MayMeet
  <2>2. QED  BY <2>1, Names, BeginFetch
<1>4. CASE Toggle
  <2>1. /\ ~Busy /\ Begin(Settings, "stop") /\ excused' = excused \cup Unfetched
        /\ UNCHANGED <<google, notices, age, imported>>
    BY <1>4 DEF Toggle
  <2>2. Unfetched' \subseteq excused'
    BY <2>1 DEF Unfetched
  <2>3. \A q \in Procs \ {Settings} : ~Due(q)'
    BY <2>1, Beginning, Names DEF Inv, TypeOK, Steps, Due, Working, Busy, At
  <2>4. QED  BY <2>2, <2>3 DEF FetchInv, Owed, Told, Excused
<1>5. ASSUME NEW c \in Channels, Receive(c) PROVE FetchInv'
  <2>1. c \in Procs /\ c # Manual /\ c # Sweep /\ c # Settings
    BY Names
  <2>2. /\ notices' = notices \ {c}
        /\ UNCHANGED <<google, live, age, row, imported, lock, excused, count>>
    BY <1>5 DEF Receive
  <2>3. CASE row.channel = c /\ state[c] = "idle"
    <3>1. /\ Begin(c, "start") /\ At(c, "idle") /\ state' = [state EXCEPT ![c] = "running"]
          /\ (Busy => ~NeedsRenewal(row))
      BY <1>5, <2>1, <2>3 DEF Receive, MayMeet, Inv, TypeOK, At
    <3>2. \A k \in Channels : state[k] = "queued" => state'[k] = "queued"
      BY <1>1, <2>3, <3>1
    <3>3. QED  BY <2>1, <2>2, <2>3, <3>1, <3>2, BeginFetch
  <2>4. CASE ~(row.channel = c /\ state[c] = "idle")
    <3>1. /\ UNCHANGED job
          /\ \/ state' = state /\ row.channel # c
             \/ state' = [state EXCEPT ![c] = "queued"]
      BY <1>5, <2>4 DEF Receive
    <3>2. Unfetched' = Unfetched
      BY <2>2 DEF Unfetched
    <3>3. Owed'
      <4>1. CASE state' = state /\ row.channel # c
        <5>1. (row'.channel \in notices' <=> row.channel \in notices)
          BY <2>2, <4>1
        <5>2. QED  BY <2>2, <3>1, <3>2, <4>1, <5>1 DEF FetchInv, Owed, WillList, WillImport, At, Lapsed
      <4>2. CASE state' = [state EXCEPT ![c] = "queued"]
        <5>1. state'[c] = "queued"
          BY <1>1, <4>2
        <5>2. QED  BY <5>1 DEF Owed
      <4>3. QED  BY <3>1, <4>1, <4>2
    <3>4. Told'
      BY <2>2, <3>1, <3>2 DEF FetchInv, Told, Due, CatchingUp, Renewing, Working, NeedsRenewal, Lapsed, At
    <3>5. Excused'
      BY <2>2, <3>1, <3>2 DEF FetchInv, Excused, At
    <3>6. QED  BY <3>3, <3>4, <3>5 DEF FetchInv
  <2>5. QED  BY <2>3, <2>4
<1>6. QED  BY <1>2, <1>3, <1>4, <1>5

\* A sync lists all there is, imports all it listed, and stores no less.
LEMMA SyncFetch ==
  ASSUME Inv, ChannelInv, FetchInv, NEW p \in Procs,
         Enqueue(p) \/ List(p) \/ ListGone(p) \/ Import(p) \/ StoreToken(p)
  PROVE  FetchInv'
<1> USE DEF world, memory
<1>1. /\ job \in [Procs -> Jobs] /\ job[p] \in Jobs /\ row \in Configs /\ google \in Nat
      /\ job[p].listing \in Nat
  BY JobFacts DEF Inv, TypeOK
<1>2. p # Settings /\ Working(p)
  BY DEF ChannelInv, Roles, At, Working, Enqueue, List, ListGone, Import, StoreToken
<1>3. CASE List(p) \/ ListGone(p)
  <2>1. /\ job' \in [Procs -> Jobs] /\ \A q \in Procs : q # p => job'[q] = job[q]
        /\ job[p].step = "wait" /\ job'[p].step = "import" /\ job'[p].listing = google
        /\ job'[p].config.channel = job[p].config.channel /\ job'[p].lapsed = job[p].lapsed
        /\ row'.channel = row.channel /\ row'.enabled = row.enabled
        /\ UNCHANGED <<google, live, age, notices, imported, state, lock, excused>>
    BY <1>3, ListEffect
  <2>2. Unfetched' = Unfetched /\ \A n \in Unfetched' : n <= google
    BY <1>1, <2>1 DEF Unfetched
  <2>3. Owed'
    <3>1. \A n \in Unfetched' : WillImport(p, n)'
      BY <2>1, <2>2 DEF WillImport, At
    <3>2. QED  BY <2>1, <2>2, <3>1, OwedNext DEF FetchInv
  <2>4. Told'
    <3>1. Due(p)' => Due(p)
      BY <2>1 DEF Due, Working, NeedsRenewal, At
    <3>2. (CatchingUp(p)' <=> CatchingUp(p)) /\ ~Renewing(p)' /\ ~At(p, "renew")'
      BY <2>1 DEF CatchingUp, Renewing, At
    <3>3. QED  BY <1>2, <2>1, <3>1, <3>2, ToldNext DEF FetchInv, Told, Lapsed
  <2>5. Excused'
    BY <1>2, <2>1, <2>2, ExcusedNext, Names DEF FetchInv, At
  <2>6. QED  BY <2>3, <2>4, <2>5 DEF FetchInv
<1>4. CASE Enqueue(p)
  <2>1. GoTo(p, "wait") /\ "wait" \in Steps /\ job[p].step = "start"
        /\ UNCHANGED <<google, notices, excused, live, age, row, imported, state>>
    BY <1>4 DEF Enqueue, Steps, At
  <2>2. /\ job' \in [Procs -> Jobs] /\ \A q \in Procs : q # p => job'[q] = job[q]
        /\ job'[p].step = "wait" /\ job'[p].config = job[p].config /\ job'[p].lapsed = job[p].lapsed
    BY <1>1, <2>1, Onward
  <2>3. Unfetched' = Unfetched
    BY <2>1 DEF Unfetched
  <2>4. Owed'
    <3>1. WillList(p)' /\ \A n \in Unfetched : ~WillImport(p, n)
      BY <2>1, <2>2 DEF WillList, WillImport, At
    <3>2. QED  BY <2>1, <2>2, <2>3, <3>1, OwedNext DEF FetchInv
  <2>5. Told'
    <3>1. Due(p)' => Due(p)
      BY <2>1, <2>2 DEF Due, Working, NeedsRenewal, At
    <3>2. (CatchingUp(p)' <=> CatchingUp(p)) /\ ~Renewing(p)' /\ ~At(p, "renew")'
          /\ ~At(p, "import")' /\ ~At(p, "store")'
      BY <2>2 DEF CatchingUp, Renewing, At
    <3>3. QED  BY <1>2, <2>1, <2>2, <3>1, <3>2, ToldNext DEF FetchInv, Told, Lapsed
  <2>6. Excused'
    BY <1>2, <2>1, <2>2, <2>3, ExcusedNext, Names DEF FetchInv, At
  <2>7. QED  BY <2>4, <2>5, <2>6 DEF FetchInv
<1>5. CASE Import(p)
  <2>1. GoTo(p, "store") /\ "store" \in Steps /\ job[p].step = "import" /\ imported \subseteq imported'
        /\ UNCHANGED <<google, notices, excused, live, age, row, state>>
    BY <1>5 DEF Import, Steps, At
  <2>2. /\ job' \in [Procs -> Jobs] /\ \A q \in Procs : q # p => job'[q] = job[q]
        /\ job'[p].step = "store" /\ job'[p].config = job[p].config /\ job'[p].lapsed = job[p].lapsed
        /\ job'[p].listing = job[p].listing
    BY <1>1, <2>1, Onward
  <2>3. Unfetched' \subseteq Unfetched
    BY <2>1 DEF Unfetched
  <2>4. Owed'
    <3>1. ~WillList(p) /\ \A n \in Unfetched : WillImport(p, n) => WillImport(p, n)'
      BY <2>1, <2>2 DEF WillList, WillImport, At
    <3>2. QED  BY <2>1, <2>2, <2>3, <3>1, OwedNext DEF FetchInv
  <2>5. Told'
    <3>1. Due(p)' => Due(p)
      BY <2>1, <2>2 DEF Due, Working, NeedsRenewal, At
    <3>2. (CatchingUp(p)' <=> CatchingUp(p)) /\ ~Renewing(p)' /\ ~At(p, "renew")' /\ At(p, "import")
      BY <2>1, <2>2 DEF CatchingUp, Renewing, At
    <3>3. QED  BY <1>2, <2>1, <2>2, <3>1, <3>2, ToldNext DEF FetchInv, Told, Lapsed
  <2>6. Excused'
    BY <1>2, <2>1, <2>2, <2>3, ExcusedNext, Names DEF FetchInv, At
  <2>7. QED  BY <2>4, <2>5, <2>6 DEF FetchInv
<1>6. CASE StoreToken(p)
  <2> DEFINE s == IF p = Sweep THEN "finish" ELSE "renew"
  <2>1. GoTo(p, s) /\ s \in Steps /\ job[p].step = "store" /\ row'.channel = row.channel
        /\ row'.enabled = row.enabled
        /\ UNCHANGED <<google, notices, excused, live, age, imported, state>>
    BY <1>1, <1>6 DEF StoreToken, Steps, At, Configs
  <2>2. /\ job' \in [Procs -> Jobs] /\ \A q \in Procs : q # p => job'[q] = job[q]
        /\ job'[p].step = s /\ job'[p].config = job[p].config /\ job'[p].lapsed = job[p].lapsed
    BY <1>1, <2>1, Onward
  <2>3. Unfetched' = Unfetched
    BY <2>1 DEF Unfetched
  <2>4. 1 .. job[p].listing \subseteq imported
    BY <2>1 DEF Inv, TokenInv, At
  <2>5. Owed'
    <3>1. \A n \in Unfetched : ~WillImport(p, n)
      BY <1>1, <2>4 DEF WillImport, Unfetched
    <3>2. ~WillList(p)
      BY <2>1 DEF WillList, At
    <3>3. QED  BY <2>1, <2>2, <2>3, <3>1, <3>2, OwedNext DEF FetchInv
  <2>6. Told'
    <3>1. Due(p)' => Due(p) /\ p # Sweep
      BY <2>1, <2>2 DEF Due, Working, NeedsRenewal, At
    <3>2. (CatchingUp(p)' <=> CatchingUp(p)) /\ ~At(p, "import")' /\ ~At(p, "store")' /\ At(p, "store")
          /\ ~Renewing(p)' /\ (p # Sweep => ~CatchingUp(p))
      BY <2>1, <2>2 DEF CatchingUp, Renewing, At
    <3>3. Due(p)' => Unfetched' = {}
      <4>1. Due(p)' => job[p].listing = google
        BY <1>2, <3>1, <3>2 DEF FetchInv, Told
      <4>2. QED  BY <2>3, <2>4, <4>1 DEF Unfetched
    <3>4. QED  BY <1>2, <2>1, <2>2, <3>1, <3>2, <3>3, ToldNext DEF FetchInv, Told
  <2>7. Excused'
    BY <1>2, <2>1, <2>2, <2>3, ExcusedNext, Names DEF FetchInv, At
  <2>8. QED  BY <2>5, <2>6, <2>7 DEF FetchInv
<1>7. QED  BY <1>3, <1>4, <1>5, <1>6

\* A renewal knows, before it touches the channel, what the channel told.
LEMMA RenewalFetch ==
  ASSUME Inv, Races = {}, ChannelInv, FetchInv, NEW p \in Procs, Renew(p) \/ Stop(p) \/ Watch(p)
  PROVE  FetchInv'
<1> USE DEF world, memory
<1>1. job \in [Procs -> Jobs] /\ UNCHANGED <<google, notices, excused, age, row, imported, state, lock>>
      /\ Working(p)
  BY DEF Renew, Stop, Watch, Inv, TypeOK, Working, At
<1>2. /\ job' \in [Procs -> Jobs] /\ \A q \in Procs : q # p => job'[q] = job[q]
      /\ job[p].step \in {"renew", "stop", "watch"}
      /\ job'[p].step \in {"stop", "watch", "save", "clear", "finish"}
      /\ job'[p].config = job[p].config
      /\ job'[p].lapsed = IF Renew(p) THEN Lapsed(job[p].config) ELSE job[p].lapsed
  <2>1. CASE Renew(p)
    BY <2>1, RenewEffect
  <2>2. CASE Watch(p) /\ ~Renew(p)
    BY <2>2, WatchEffect
  <2>3. CASE Stop(p) /\ ~Renew(p)
    <3>1. GoTo(p, AfterStop(p)) /\ AfterStop(p) \in {"watch", "clear"} /\ AfterStop(p) \in Steps
          /\ job[p].step = "stop"
      BY <2>3 DEF Stop, AfterStop, Steps, At
    <3>2. QED  BY <1>1, <2>3, <3>1, Onward
  <2>4. QED  BY <2>1, <2>2, <2>3
<1>3. Unfetched' = Unfetched
  BY <1>1 DEF Unfetched
<1>4. Owed'
  <2>1. ~WillList(p) /\ \A n \in Unfetched : ~WillImport(p, n)
    BY <1>2 DEF WillList, WillImport, At
  <2>2. QED  BY <1>1, <1>2, <1>3, <2>1, OwedNext DEF FetchInv
<1>5. Told'
  <2> SUFFICES ASSUME p # Settings, Due(p)'
               PROVE  /\ ~CatchingUp(p)' => row'.channel \notin notices'
                      /\ CatchingUp(p)' => Lapsed(row)' /\ ~At(p, "renew")'
                      /\ p = Sweep /\ Renewing(p)' /\ Lapsed(row)' => CatchingUp(p)'
                      /\ p # Sweep /\ (At(p, "import")' \/ At(p, "store")') => job'[p].listing = google'
                      /\ p # Sweep /\ (At(p, "renew")' \/ Renewing(p)') => Unfetched' = {}
    BY <1>1, <1>2, ToldNext
  <2>1. Due(p)
    BY <1>1, <1>2 DEF Due, Working, NeedsRenewal, At
  <2>2. row.channel = job[p].config.channel
    BY <2>1 DEF ChannelInv, DueAlone
  <2>3. ~At(p, "import")' /\ ~At(p, "store")' /\ ~At(p, "renew")' /\ (At(p, "renew") \/ Renewing(p))
    BY <1>2 DEF Renewing, At
  <2>4. p # Sweep => Unfetched' = {}
    BY <1>3, <2>1, <2>3 DEF FetchInv, Told
  <2>5. CASE Renew(p)
    <3>1. ~CatchingUp(p)
      BY <2>1, <2>5 DEF FetchInv, Told, Renew
    <3>2. row.channel \notin notices
      BY <2>1, <3>1 DEF FetchInv, Told
    <3>3. job'[p].lapsed = Lapsed(row)
      BY <1>2, <2>2, <2>5 DEF Lapsed
    <3>4. Lapsed(row)' <=> Lapsed(row)
      BY <1>1 DEF Lapsed
    <3>5. CatchingUp(p)' <=> p = Sweep /\ Lapsed(row)
      BY <3>3 DEF CatchingUp
    <3>6. QED  BY <1>1, <2>3, <2>4, <3>2, <3>4, <3>5
  <2>6. CASE ~Renew(p)
    <3>1. Renewing(p)
      BY <1>2, <2>6, <1>1 DEF Stop, Watch, Renewing
    <3>2. (CatchingUp(p)' <=> CatchingUp(p)) /\ (Lapsed(row)' <=> Lapsed(row))
      BY <1>1, <1>2, <2>6 DEF CatchingUp, Lapsed
    <3>3. QED  BY <1>1, <2>1, <2>3, <2>4, <3>1, <3>2 DEF FetchInv, Told
  <2>7. QED  BY <2>5, <2>6
<1>6. Excused'
  <2>1. At(Settings, "idle") => At(Settings, "idle")'
    BY <1>2, Names DEF At
  <2>2. QED  BY <1>1, <1>3, <2>1, ExcusedNext DEF FetchInv
<1>7. QED  BY <1>4, <1>5, <1>6 DEF FetchInv

\* With the new channel in the row nothing is owed on account of the old one,
\* or the catch-up is to follow.
LEMMA SaveFetch ==
  ASSUME Inv, Races = {}, ChannelInv, FetchInv, NEW p \in Procs, SaveChannel(p)
  PROVE  FetchInv'
<1> USE DEF world, memory
<1> DEFINE s == IF CatchingUp(p) THEN "reread" ELSE "finish"
<1>1. job \in [Procs -> Jobs] /\ s \in Steps /\ job[p].step = "save" /\ row \in Configs
      /\ job[p].minted \in Keys
  BY JobFacts DEF Inv, TypeOK, Steps, SaveChannel, At
<1>2. /\ job' \in [Procs -> Jobs] /\ \A q \in Procs : q # p => job'[q] = job[q]
      /\ job'[p].step = s /\ job'[p].config = job[p].config
  BY <1>1, Onward DEF SaveChannel
<1>3. /\ UNCHANGED <<google, notices, excused, count, live, age, imported, state, lock>>
      /\ row'.enabled = row.enabled
  BY <1>1 DEF SaveChannel, Configs
<1>4. Due(p) /\ \A q \in Procs \ {p} : At(q, "idle")
  BY <1>1, Renewer DEF At
<1>5. Unfetched' = Unfetched
  BY <1>3 DEF Unfetched
<1>6. Owed'
  <2>1. CASE p = Settings
    <3>1. Unfetched \subseteq excused
      BY <1>1, <2>1 DEF FetchInv, Excused, At
    <3>2. QED  BY <1>3, <1>5, <3>1 DEF Owed
  <2>2. CASE CatchingUp(p)
    <3>1. WillList(p)'
      BY <1>2, <2>2 DEF WillList, At
    <3>2. QED  BY <3>1 DEF Owed
  <2>3. CASE p # Settings /\ p # Sweep
    <3>1. Unfetched = {}
      BY <1>1, <1>4, <2>3 DEF FetchInv, Told, Renewing, At
    <3>2. QED  BY <1>5, <3>1 DEF Owed
  <2>4. CASE p = Sweep /\ ~CatchingUp(p)
    <3>1. row.channel \notin notices /\ ~Lapsed(row)
      BY <1>1, <1>4, <2>4, Names DEF FetchInv, Told, Renewing, At
    <3>2. \A c \in Channels : state[c] # "queued"
      BY <1>4, <2>4, Names DEF Inv, TypeOK, At
    <3>3. \A q \in Procs : ~WillList(q) /\ \A n \in Unfetched : ~WillImport(q, n)
      BY <1>1, <1>4 DEF WillList, WillImport, At
    <3>4. Unfetched \ excused = {}
      BY <3>1, <3>2, <3>3 DEF FetchInv, Owed
    <3>5. QED  BY <1>3, <1>5, <3>4 DEF Owed
  <2>5. QED  BY <2>1, <2>2, <2>3, <2>4
<1>7. Told'
  <2>1. ~Due(p)'
    BY <1>2 DEF Due, At
  <2>2. Working(p)
    BY <1>4 DEF Due
  <2>3. QED  BY <1>2, <1>3, <2>1, <2>2, ToldNext
<1>8. Excused'
  <2>1. At(Settings, "idle") => At(Settings, "idle")'
    BY <1>1, <1>2, Names DEF At
  <2>2. QED  BY <1>3, <1>5, <2>1, ExcusedNext DEF FetchInv
<1>9. QED  BY <1>6, <1>7, <1>8 DEF FetchInv

\* What is switched off owes nothing.
LEMMA ClearFetch ==
  ASSUME Inv, ChannelInv, FetchInv, NEW p \in Procs, ClearChannel(p)
  PROVE  FetchInv'
<1> USE DEF world, memory
<1>1. job \in [Procs -> Jobs] /\ job[p].step = "clear" /\ "finish" \in Steps /\ row \in Configs
  BY DEF Inv, TypeOK, Steps, ClearChannel, At
<1>2. /\ job' \in [Procs -> Jobs] /\ \A q \in Procs : q # p => job'[q] = job[q]
      /\ job'[p].step = "finish"
  BY <1>1, Onward DEF ClearChannel
<1>3. /\ UNCHANGED <<google, notices, excused, age, imported>> /\ row'.enabled = row.enabled
  BY <1>1 DEF ClearChannel, Configs
<1>4. ~row.enabled /\ p = Settings /\ Working(p)
  BY <1>1 DEF ChannelInv, Roles, At, Working
<1>5. Unfetched' = Unfetched /\ Unfetched \subseteq excused
  BY <1>3, <1>4 DEF Unfetched, FetchInv, Excused
<1>6. Told'
  BY <1>2, <1>3, <1>4, ToldNext
<1>7. QED  BY <1>3, <1>5, <1>6 DEF FetchInv, Owed, Excused

\* The catch-up lists from the row's token.
LEMMA RereadFetch ==
  ASSUME Inv, ChannelInv, FetchInv, NEW p \in Procs, Reread(p)
  PROVE  FetchInv'
<1> USE DEF world, memory
<1>1. TypeOK /\ job[p] \in Jobs /\ row \in Configs
  BY JobFacts DEF Inv, TypeOK
<1>2. job' = [job EXCEPT ![p] = [job[p] EXCEPT !.step = "start", !.config = row]]
  BY DEF Reread
<1>3. [job[p] EXCEPT !.step = "start", !.config = row] \in Jobs
  BY <1>1 DEF Jobs, Steps
<1>4. /\ job' \in [Procs -> Jobs] /\ \A q \in Procs : q # p => job'[q] = job[q]
      /\ job'[p].step = "start" /\ job'[p].config = row /\ job[p].step = "reread"
  BY <1>1, <1>2, <1>3 DEF TypeOK, Jobs, Reread, At
<1>5. UNCHANGED <<google, notices, excused, count, live, age, row, imported, state, lock>>
  BY DEF Reread
<1>6. p = Sweep /\ ~NeedsRenewal(row) /\ Working(p)
  BY <1>4 DEF ChannelInv, Roles, At, Working
<1>7. Owed'
  <2>1. WillList(p)'
    BY <1>4 DEF WillList, At
  <2>2. QED  BY <2>1 DEF Owed
<1>8. Told'
  <2>1. ~Due(p)'
    BY <1>4, <1>5, <1>6 DEF Due, NeedsRenewal
  <2>2. QED  BY <1>4, <1>5, <1>6, <2>1, ToldNext
<1>9. Excused'
  <2>1. Unfetched' = Unfetched /\ (At(Settings, "idle") => At(Settings, "idle")')
    BY <1>4, <1>5, <1>6, Names DEF Unfetched, At
  <2>2. QED  BY <1>5, <2>1, ExcusedNext DEF FetchInv
<1>10. QED  BY <1>7, <1>8, <1>9 DEF FetchInv

\* A queued delivery lists again; what a failure loses is excused.
LEMMA EndFetch ==
  ASSUME Inv, ChannelInv, FetchInv, NEW p \in Procs, Finish(p) \/ Fail(p)
  PROVE  FetchInv'
<1> USE DEF world
<1>1. /\ job' \in [Procs -> Jobs] /\ \A q \in Procs : q # p => job'[q] = job[q]
      /\ job[p].step \in {"start", "wait", "import", "store", "finish"}
      /\ job'[p].step \in {"idle", "start"}
      /\ job'[p].step = "start" =>
           /\ p \in Channels /\ state[p] = "queued" /\ job[p].step = "finish"
           /\ job'[p].config = job[p].config
      /\ \A c \in Channels : c # p => state'[c] = state[c]
      /\ UNCHANGED <<google, notices, live, age, row, imported>>
  BY EndEffect
<1>2. Unfetched' = Unfetched /\ Working(p)
  BY <1>1 DEF Unfetched, Working, At
<1>3. Owed' /\ excused \subseteq excused'
  <2>1. CASE Fail(p)
    BY <1>2, <2>1 DEF Fail, Owed
  <2>2. CASE Finish(p)
    <3>1. excused' = excused /\ job[p].step = "finish"
      BY <2>2 DEF Finish, At
    <3>2. CASE job'[p].step = "start"
      <4>1. WillList(p)'
        BY <3>2 DEF WillList, At
      <4>2. QED  BY <3>1, <4>1 DEF Owed
    <3>3. CASE job'[p].step = "idle"
      <4>1. ~(p \in Channels /\ state[p] = "queued")
        <5> SUFFICES ASSUME p \in Channels, state[p] = "queued" PROVE FALSE
          OBVIOUS
        <5>1. GoTo(p, "start") /\ "start" \in Steps /\ job \in [Procs -> Jobs]
          BY <2>2 DEF Finish, Steps, Inv, TypeOK
        <5>2. job'[p].step = "start"
          BY <5>1, Onward
        <5>3. QED  BY <3>3, <5>2
      <4>2. (\E c \in Channels : state[c] = "queued") => \E c \in Channels : state'[c] = "queued"
        BY <1>1, <4>1
      <4>3. ~WillList(p) /\ \A n \in Unfetched : ~WillImport(p, n)
        BY <3>1 DEF WillList, WillImport, At
      <4>4. QED  BY <1>1, <1>2, <3>1, <4>2, <4>3, OwedNext DEF FetchInv
    <3>4. QED  BY <1>1, <3>2, <3>3
  <2>3. QED  BY <2>1, <2>2
<1>4. Told'
  <2>1. ~Due(p)'
    <3>1. CASE job'[p].step = "idle"
      BY <3>1 DEF Due, Working, At
    <3>2. CASE job'[p].step = "start"
      <4>1. job[p].config.channel = p /\ age[p] = "fresh"
        BY <1>1, <3>2 DEF ChannelInv, Roles, Working, At
      <4>2. QED  BY <1>1, <3>2, <4>1 DEF Due, NeedsRenewal
    <3>3. QED  BY <1>1, <3>1, <3>2
  <2>2. QED  BY <1>1, <1>2, <2>1, ToldNext
<1>5. Excused'
  <2>1. At(Settings, "idle") => At(Settings, "idle")'
    BY <1>1, <1>2, Names DEF At, Working
  <2>2. QED  BY <1>1, <1>2, <1>3, <2>1, ExcusedNext DEF FetchInv
<1>6. QED  BY <1>3, <1>4, <1>5 DEF FetchInv

\* What a restart loses is excused.
LEMMA RestartFetch == ASSUME Restart PROVE FetchInv'
<1>1. /\ UNCHANGED <<google, imported>> /\ excused' = excused \cup Unfetched
      /\ job' = [p \in Procs |-> Idle]
  BY DEF Restart
<1>2. Unfetched' \subseteq excused'
  BY <1>1 DEF Unfetched
<1>3. \A p \in Procs : ~Due(p)'
  BY <1>1, IdleJob DEF Due, Working, At
<1>4. QED  BY <1>2, <1>3 DEF FetchInv, Owed, Told, Excused

\* At first there is nothing to fetch.
LEMMA FetchInit == Init => FetchInv
<1> SUFFICES ASSUME Init PROVE FetchInv
  OBVIOUS
<1>1. \A p \in Procs : ~Due(p)
  BY IdleJob DEF Init, Due, Working, At
<1>2. Unfetched = {}
  BY DEF Init, Unfetched
<1>3. QED  BY <1>1, <1>2 DEF FetchInv, Owed, Told, Excused

\* Every step keeps what is owed, when nothing races.
LEMMA FetchStep == Races = {} /\ Inv /\ ChannelInv /\ FetchInv /\ [Next]_vars => FetchInv'
<1> SUFFICES ASSUME Races = {}, Inv, ChannelInv, FetchInv, [Next]_vars PROVE FetchInv'
  OBVIOUS
<1>1. CASE UNCHANGED vars
  <2>1. UNCHANGED <<google, notices, excused, age, row, imported, state, job>>
    BY <1>1 DEF vars
  <2>2. Owed'
    BY <2>1 DEF FetchInv, Owed, Unfetched, WillList, WillImport, At, Lapsed
  <2>3. Told'
    BY <2>1 DEF FetchInv, Told, Due, CatchingUp, Renewing, Unfetched, Working, NeedsRenewal, Lapsed, At
  <2>4. Excused'
    BY <2>1 DEF FetchInv, Excused, Unfetched, At
  <2>5. QED  BY <2>2, <2>3, <2>4 DEF FetchInv
<1>2. CASE Next
  BY <1>2, ChangeFetch, AgeFetch, BeginsFetch, SyncFetch, RenewalFetch, SaveFetch, ClearFetch,
     RereadFetch, EndFetch, RestartFetch DEF Next, Run
<1>3. QED  BY <1>1, <1>2

\* The invariant of a run in which nothing races.
LEMMA CalendarStep == Races = {} /\ Inv /\ CalendarInv /\ [Next]_vars => Inv' /\ CalendarInv'
<1>1. Races = {} => Races \subseteq {"gap"}
  OBVIOUS
<1> QED BY <1>1, InvStep, ChannelStep, FetchStep DEF CalendarInv

LEMMA CalendarInit == Init => Inv /\ CalendarInv
BY InvInit, ChannelInit, FetchInit DEF CalendarInv

-----------------------------------------------------------------------------

\* A calendar that is switched off has no channel once its switch is done
\* (calendar.ts, setupWatch, teardownWatch), whatever loops and sweeps were under way,
\* for any number of changes, channels, faults and toggles, if only a change or a
\* delivery in the gap of a renewal races.
THEOREM OffStaysOff == Races \subseteq {"gap"} => (Spec => []OffIsOff)
<1> SUFFICES ASSUME Races \subseteq {"gap"} PROVE Spec => []OffIsOff
  OBVIOUS
<1>1. Init => Inv /\ ChannelInv
  BY InvInit, ChannelInit
<1>2. Inv /\ ChannelInv /\ [Next]_vars => (Inv /\ ChannelInv)'
  BY InvStep, ChannelStep
<1>3. Inv /\ ChannelInv => OffIsOff
  BY DEF ChannelInv, OneChannel
<1>4. QED  BY <1>1, <1>2, <1>3, PTL DEF Spec

\* A renewal never strands the previous channel (calendar.ts, setupWatch):
\* Google notifies none but the row's, or the one a renewal is about to store.
THEOREM NoneStranded == Races \subseteq {"gap"} => (Spec => []NoOrphan)
<1> SUFFICES ASSUME Races \subseteq {"gap"} PROVE Spec => []NoOrphan
  OBVIOUS
<1>1. Init => Inv /\ ChannelInv
  BY InvInit, ChannelInit
<1>2. Inv /\ ChannelInv /\ [Next]_vars => (Inv /\ ChannelInv)'
  BY InvStep, ChannelStep
<1>3. Inv /\ ChannelInv => NoOrphan
  BY DEF ChannelInv, OneChannel
<1>4. QED  BY <1>1, <1>2, <1>3, PTL DEF Spec

\* Two syncs of the calendar never overlap (calendarSyncLock.ts), though the
\* lock is named after a channel that renewals replace.
THEOREM SyncsExclude == Races \subseteq {"gap"} => (Spec => []ExclusiveSync)
<1> SUFFICES ASSUME Races \subseteq {"gap"} PROVE Spec => []ExclusiveSync
  OBVIOUS
<1>1. Init => Inv /\ ChannelInv
  BY InvInit, ChannelInit
<1>2. Inv /\ ChannelInv /\ [Next]_vars => (Inv /\ ChannelInv)'
  BY InvStep, ChannelStep
<1>3. Inv /\ ChannelInv => ExclusiveSync
  BY Exclusion
<1>4. QED  BY <1>1, <1>2, <1>3, PTL DEF Spec

\* What is not imported is always told, or to be fetched by what is under way,
\* or for the sweep (calendar.ts, tryStartWebhookSync, renewWebhookAndCatchUp).
THEOREM NothingIsMissed == Races = {} => (Spec => []NothingMissed)
<1> SUFFICES ASSUME Races = {} PROVE Spec => []NothingMissed
  OBVIOUS
<1>1. Init => Inv /\ CalendarInv
  BY CalendarInit
<1>2. Inv /\ CalendarInv /\ [Next]_vars => (Inv /\ CalendarInv)'
  BY CalendarStep
<1>3. Inv /\ CalendarInv => NothingMissed
  BY DEF CalendarInv, FetchInv, Owed, NothingMissed
<1>4. QED  BY <1>1, <1>2, <1>3, PTL DEF Spec
=============================================================================
