------------------------- MODULE NotificationProofs -------------------------
(***************************************************************************)
(* Proofs about what travels between the processes and to the browsers:    *)
(* NotificationBus, for every set of channels and any number of            *)
(* connections; ScheduleSync, for any Schedules, edits and versions; and   *)
(* LivePush, for any Members, pipes and cap on a Member's pipes.           *)
(***************************************************************************)
EXTENDS NotificationBus, ScheduleSync, LivePush, FiniteSetTheorems, SequenceTheorems, TLAPS

-----------------------------------------------------------------------------
(* The LISTEN connection.                                                  *)

ClientType == [pc : {"none", "opening", "restoring", "ready", "closed"}, hears : SUBSET Channels]

\* A client that moves on is a client.
LEMMA ClientKept ==
  ASSUME NEW c \in [Client -> ClientType], NEW k,
         NEW p \in {"none", "opening", "restoring", "ready", "closed"}, NEW h \in SUBSET Channels
  PROVE  /\ [c EXCEPT ![k].pc = p] \in [Client -> ClientType]
         /\ [c EXCEPT ![k].hears = h] \in [Client -> ClientType]
         /\ [c EXCEPT ![k] = [pc |-> p, hears |-> h]] \in [Client -> ClientType]
BY DEF ClientType

\* The types, as ClientKept speaks of them.
LEMMA Clients == BusTypeOK => clients \in [Client -> ClientType]
BY DEF BusTypeOK, ClientType

\* A subscription registers its handler before it waits for anything.
LEMMA SubscribeKeeps ==
  ASSUME BusInv, NEW ch \in Channels, Subscribe(ch)
  PROVE  BusInv'
<1> USE BusAssumption DEF BusInv, Subscribe, Connect, Client
<1>1. BusTypeOK'
  BY DEF BusTypeOK
<1>2. NeverDeaf'
  BY DEF BusTypeOK, NeverDeaf, AttemptKnown, WaitersKnown, CurrentHears
<1>3. AttemptKnown'
  <2>1. CASE current = 0 /\ connecting = 0
    <3>1. opened + 1 \in Client /\ clients'[opened + 1].pc = "opening" /\ connecting' = opened + 1
      BY <2>1 DEF BusTypeOK
    <3>2. \A c \in Client \ {opened + 1} : clients'[c] = clients[c]
      BY <2>1 DEF BusTypeOK
    <3>3. subscriber'[ch] = "connecting"
      BY <2>1 DEF BusTypeOK
    <3> QED BY <2>1, <3>1, <3>2, <3>3 DEF BusTypeOK, AttemptKnown
  <2>2. CASE current = 0 /\ connecting # 0
    BY <2>2 DEF BusTypeOK, AttemptKnown
  <2>3. CASE current # 0
    BY <2>3 DEF BusTypeOK, AttemptKnown, WaitersKnown
  <2> QED BY <2>1, <2>2, <2>3
<1>4. WaitersKnown'
  BY DEF BusTypeOK, AttemptKnown, WaitersKnown
<1>5. CurrentHears'
  BY DEF BusTypeOK, AttemptKnown, WaitersKnown, CurrentHears
<1> QED BY <1>1, <1>2, <1>3, <1>4, <1>5

\* A connection is established, and becomes the current one.
LEMMA ConnectedKeeps ==
  ASSUME BusInv, NEW k \in Client, Connected(k)
  PROVE  BusInv'
<1> USE BusAssumption DEF BusInv, Connected, Client
<1>1. BusTypeOK'
  <2>1. clients' \in [Client -> ClientType]
    BY Clients, ClientKept
  <2>2. pending' \subseteq Client \X Channels
    BY DEF BusTypeOK
  <2>3. current' \in 0 .. MaxClients /\ connecting' \in 0 .. MaxClients /\ opened' \in 0 .. MaxClients
    BY DEF BusTypeOK
  <2>4. timer' \in BOOLEAN /\ awaited' \in BOOLEAN /\ stopped' \in BOOLEAN
    BY DEF BusTypeOK
  <2>5. handlers' \subseteq Channels /\ subscriber' \in [Channels -> {"none", "connecting", "done"}]
    BY DEF BusTypeOK
  <2> QED BY <2>1, <2>2, <2>3, <2>4, <2>5 DEF BusTypeOK, ClientType
<1>2. NeverDeaf'
  BY DEF BusTypeOK, NeverDeaf, AttemptKnown, WaitersKnown, CurrentHears
<1>3. AttemptKnown'
  BY DEF BusTypeOK, AttemptKnown, WaitersKnown, CurrentHears
<1>4. WaitersKnown'
  BY DEF BusTypeOK, AttemptKnown, WaitersKnown
<1>5. CurrentHears'
  BY DEF BusTypeOK, AttemptKnown, WaitersKnown, CurrentHears
<1> QED BY <1>1, <1>2, <1>3, <1>4, <1>5

\* One more channel is listened to again.
LEMMA RestoreKeeps ==
  ASSUME BusInv, NEW k \in Client, NEW ch \in Channels, Restore(k, ch)
  PROVE  BusInv'
<1> USE BusAssumption DEF BusInv, Restore, Client
<1>1. BusTypeOK'
  BY DEF BusTypeOK
<1>2. NeverDeaf'
  BY DEF BusTypeOK, NeverDeaf, AttemptKnown, WaitersKnown, CurrentHears
<1>3. AttemptKnown'
  BY DEF BusTypeOK, AttemptKnown, WaitersKnown, CurrentHears
<1>4. WaitersKnown'
  BY DEF BusTypeOK, AttemptKnown, WaitersKnown
<1>5. CurrentHears'
  BY DEF BusTypeOK, AttemptKnown, WaitersKnown, CurrentHears
<1> QED BY <1>1, <1>2, <1>3, <1>4, <1>5

\* The attempt ends with every channel restored.
LEMMA RestoredKeeps ==
  ASSUME BusInv, NEW k \in Client, Restored(k)
  PROVE  BusInv'
<1> USE BusAssumption DEF BusInv, Restored, ToRestore, AttemptEnds, Client
<1>1. BusTypeOK'
  <2>1. clients' \in [Client -> ClientType]
    BY Clients, ClientKept
  <2>2. pending' \subseteq Client \X Channels
    BY DEF BusTypeOK
  <2>3. current' \in 0 .. MaxClients /\ connecting' \in 0 .. MaxClients /\ opened' \in 0 .. MaxClients
    BY DEF BusTypeOK
  <2>4. timer' \in BOOLEAN /\ awaited' \in BOOLEAN /\ stopped' \in BOOLEAN
    BY DEF BusTypeOK
  <2>5. handlers' \subseteq Channels /\ subscriber' \in [Channels -> {"none", "connecting", "done"}]
    BY DEF BusTypeOK
  <2> QED BY <2>1, <2>2, <2>3, <2>4, <2>5 DEF BusTypeOK, ClientType
<1>2. NeverDeaf'
  BY DEF BusTypeOK, NeverDeaf, AttemptKnown, WaitersKnown, CurrentHears
<1>3. AttemptKnown'
  BY DEF BusTypeOK, AttemptKnown, WaitersKnown, CurrentHears
<1>4. WaitersKnown'
  BY DEF BusTypeOK, AttemptKnown, WaitersKnown
<1>5. CurrentHears'
  BY DEF BusTypeOK, AttemptKnown, WaitersKnown, CurrentHears
<1> QED BY <1>1, <1>2, <1>3, <1>4, <1>5

\* The attempt fails: whoever waited for it sets the timer.
LEMMA ConnectFailsKeeps ==
  ASSUME BusInv, NEW k \in Client, ConnectFails(k)
  PROVE  BusInv'
<1> USE BusAssumption DEF BusInv, ConnectFails, AttemptEnds, Retry, Reconnect, Client
<1>1. BusTypeOK'
  <2>1. clients' \in [Client -> ClientType]
    BY Clients, ClientKept
  <2>2. pending' \subseteq Client \X Channels
    BY DEF BusTypeOK
  <2>3. current' \in 0 .. MaxClients /\ connecting' \in 0 .. MaxClients /\ opened' \in 0 .. MaxClients
    BY DEF BusTypeOK
  <2>4. timer' \in BOOLEAN /\ awaited' \in BOOLEAN /\ stopped' \in BOOLEAN
    BY DEF BusTypeOK
  <2>5. handlers' \subseteq Channels /\ subscriber' \in [Channels -> {"none", "connecting", "done"}]
    BY DEF BusTypeOK
  <2> QED BY <2>1, <2>2, <2>3, <2>4, <2>5 DEF BusTypeOK, ClientType
<1>2. NeverDeaf'
  <2>1. connecting = k /\ k # 0
    BY DEF AttemptKnown
  <2>2. awaited \/ \E ch \in Channels : subscriber[ch] = "connecting"
    BY <2>1 DEF AttemptKnown
  <2>3. ~stopped' /\ handlers' # {} => timer'
    BY <2>2
  <2>4. CASE current # 0
    <3>1. clients[current].pc = "ready" /\ current # k
      BY <2>1, <2>4 DEF BusTypeOK, AttemptKnown, CurrentHears
    <3>2. clients'[current] = clients[current]
      BY <3>1 DEF BusTypeOK
    <3>3. \A ch \in handlers : ch \in clients[current].hears \/ <<current, ch>> \in pending
      BY <2>4, <3>1 DEF CurrentHears
    <3>4. \A ch \in handlers : <<current, ch>> \in pending => <<current, ch>> \in pending'
      BY <3>1
    <3> QED BY <2>3, <3>2, <3>3, <3>4 DEF NeverDeaf
  <2>5. CASE current = 0
    BY <2>3, <2>5 DEF NeverDeaf
  <2> QED BY <2>4, <2>5
<1>3. AttemptKnown'
  BY DEF BusTypeOK, AttemptKnown, WaitersKnown, CurrentHears
<1>4. WaitersKnown'
  BY DEF BusTypeOK, AttemptKnown, WaitersKnown
<1>5. CurrentHears'
  BY DEF BusTypeOK, AttemptKnown, WaitersKnown, CurrentHears
<1> QED BY <1>1, <1>2, <1>3, <1>4, <1>5

\* An established connection is lost, at any point of its restoration or later.
LEMMA ConnectionLostKeeps ==
  ASSUME BusInv, NEW k \in Client, ConnectionLost(k)
  PROVE  BusInv'
<1> USE BusAssumption DEF BusInv, ConnectionLost, AttemptEnds, AttemptGoesOn, Reconnect, Client
<1>1. BusTypeOK'
  <2>1. clients' \in [Client -> ClientType]
    BY Clients, ClientKept
  <2>2. pending' \subseteq Client \X Channels
    BY DEF BusTypeOK
  <2>3. current' \in 0 .. MaxClients /\ connecting' \in 0 .. MaxClients /\ opened' \in 0 .. MaxClients
    BY DEF BusTypeOK
  <2>4. timer' \in BOOLEAN /\ awaited' \in BOOLEAN /\ stopped' \in BOOLEAN
    BY DEF BusTypeOK
  <2>5. handlers' \subseteq Channels /\ subscriber' \in [Channels -> {"none", "connecting", "done"}]
    BY DEF BusTypeOK
  <2> QED BY <2>1, <2>2, <2>3, <2>4, <2>5 DEF BusTypeOK, ClientType
<1>2. NeverDeaf'
  <2>1. ~stopped' /\ handlers' # {} => timer'
    OBVIOUS
  <2>2. CASE current' # 0 /\ connecting' = 0
    <3>1. current' = current /\ current # k /\ current \in Client
      BY <2>2 DEF BusTypeOK
    <3>2. clients[current].pc = "ready"
      BY <2>2, <3>1 DEF BusTypeOK, AttemptKnown, CurrentHears
    <3>3. clients'[current] = clients[current]
      BY <3>1 DEF BusTypeOK
    <3>4. \A ch \in handlers : ch \in clients[current].hears \/ <<current, ch>> \in pending
      BY <3>1, <3>2 DEF CurrentHears
    <3>5. \A ch \in handlers : <<current, ch>> \in pending => <<current, ch>> \in pending'
      BY <3>1
    <3> QED BY <2>1, <3>1, <3>3, <3>4, <3>5 DEF NeverDeaf
  <2> QED BY <2>1, <2>2 DEF NeverDeaf
<1>3. AttemptKnown'
  BY DEF BusTypeOK, AttemptKnown, WaitersKnown, CurrentHears
<1>4. WaitersKnown'
  BY DEF BusTypeOK, AttemptKnown, WaitersKnown
<1>5. CurrentHears'
  BY DEF BusTypeOK, AttemptKnown, WaitersKnown, CurrentHears
<1> QED BY <1>1, <1>2, <1>3, <1>4, <1>5

\* The LISTEN of a subscription is executed.
LEMMA ListenKeeps ==
  ASSUME BusInv, NEW k \in Client, NEW ch \in Channels, Listen(k, ch)
  PROVE  BusInv'
<1> USE BusAssumption DEF BusInv, Listen, Client
<1>1. BusTypeOK'
  BY DEF BusTypeOK
<1>2. NeverDeaf'
  BY DEF BusTypeOK, NeverDeaf, AttemptKnown, WaitersKnown, CurrentHears
<1>3. AttemptKnown'
  BY DEF BusTypeOK, AttemptKnown, WaitersKnown, CurrentHears
<1>4. WaitersKnown'
  BY DEF BusTypeOK, AttemptKnown, WaitersKnown
<1>5. CurrentHears'
  BY DEF BusTypeOK, AttemptKnown, WaitersKnown, CurrentHears
<1> QED BY <1>1, <1>2, <1>3, <1>4, <1>5

\* The timer starts an attempt, or joins the one in flight.
LEMMA TimerFiresKeeps ==
  ASSUME BusInv, TimerFires
  PROVE  BusInv'
<1> USE BusAssumption DEF BusInv, TimerFires, Connect, Client
<1>1. BusTypeOK'
  <2>1. clients' \in [Client -> ClientType]
    <3>1. CASE connecting # 0
      BY <3>1, Clients
    <3>2. CASE connecting = 0
      <4>1. clients' = [clients EXCEPT ![opened + 1].pc = "opening"]
        BY <3>2
      <4> QED BY <4>1, Clients, ClientKept
    <3> QED BY <3>1, <3>2
  <2>2. pending' \subseteq Client \X Channels
    BY DEF BusTypeOK
  <2>3. current' \in 0 .. MaxClients /\ connecting' \in 0 .. MaxClients /\ opened' \in 0 .. MaxClients
    BY DEF BusTypeOK
  <2>4. timer' \in BOOLEAN /\ awaited' \in BOOLEAN /\ stopped' \in BOOLEAN
    BY DEF BusTypeOK
  <2>5. handlers' \subseteq Channels /\ subscriber' \in [Channels -> {"none", "connecting", "done"}]
    BY DEF BusTypeOK
  <2> QED BY <2>1, <2>2, <2>3, <2>4, <2>5 DEF BusTypeOK, ClientType
<1>2. NeverDeaf'
  BY DEF BusTypeOK, NeverDeaf, AttemptKnown, WaitersKnown, CurrentHears
<1>3. AttemptKnown'
  BY DEF BusTypeOK, AttemptKnown, WaitersKnown, CurrentHears
<1>4. WaitersKnown'
  BY DEF BusTypeOK, AttemptKnown, WaitersKnown
<1>5. CurrentHears'
  BY DEF BusTypeOK, AttemptKnown, WaitersKnown, CurrentHears
<1> QED BY <1>1, <1>2, <1>3, <1>4, <1>5

\* The process is told to stop.
LEMMA DisconnectKeeps ==
  ASSUME BusInv, Disconnect
  PROVE  BusInv'
<1> USE BusAssumption DEF BusInv, Disconnect, AttemptEnds, AttemptGoesOn, Client
<1>1. BusTypeOK'
  <2>1. clients' \in [Client -> ClientType]
    BY Clients DEF ClientType
  <2>2. pending' \subseteq Client \X Channels
    BY DEF BusTypeOK
  <2>3. current' \in 0 .. MaxClients /\ connecting' \in 0 .. MaxClients /\ opened' \in 0 .. MaxClients
    BY DEF BusTypeOK
  <2>4. timer' \in BOOLEAN /\ awaited' \in BOOLEAN /\ stopped' \in BOOLEAN
    BY DEF BusTypeOK
  <2>5. handlers' \subseteq Channels /\ subscriber' \in [Channels -> {"none", "connecting", "done"}]
    BY DEF BusTypeOK
  <2> QED BY <2>1, <2>2, <2>3, <2>4, <2>5 DEF BusTypeOK, ClientType
<1>2. NeverDeaf'
  BY DEF BusTypeOK, NeverDeaf, AttemptKnown, WaitersKnown, CurrentHears
<1>3. AttemptKnown'
  BY DEF BusTypeOK, AttemptKnown, WaitersKnown, CurrentHears
<1>4. WaitersKnown'
  BY DEF BusTypeOK, AttemptKnown, WaitersKnown
<1>5. CurrentHears'
  BY DEF BusTypeOK, AttemptKnown, WaitersKnown, CurrentHears
<1> QED BY <1>1, <1>2, <1>3, <1>4, <1>5

-----------------------------------------------------------------------------

\* The invariant holds before the first subscription.
LEMMA BusStarts == BusInit => BusInv
<1> SUFFICES ASSUME BusInit PROVE BusInv
  OBVIOUS
<1>1. \A k \in Client : clients[k].pc = "none"
  BY DEF BusInit
<1>2. BusTypeOK
  <2>1. [pc |-> "none", hears |-> {}] \in ClientType
    BY DEF ClientType
  <2>2. clients \in [Client -> ClientType]
    BY <2>1 DEF BusInit
  <2>3. /\ current \in 0 .. MaxClients /\ connecting \in 0 .. MaxClients /\ opened \in 0 .. MaxClients
        /\ timer \in BOOLEAN /\ awaited \in BOOLEAN /\ stopped \in BOOLEAN
    <3>1. current = 0 /\ connecting = 0 /\ opened = 0 /\ 0 \in 0 .. MaxClients
      BY BusAssumption DEF BusInit, BusAssumption
    <3>2. timer = FALSE /\ awaited = FALSE /\ stopped = FALSE
      BY DEF BusInit
    <3> QED BY <3>1, <3>2
  <2>4. /\ handlers \subseteq Channels /\ pending \subseteq Client \X Channels
        /\ subscriber \in [Channels -> {"none", "connecting", "done"}]
    BY DEF BusInit
  <2> QED BY <2>2, <2>3, <2>4 DEF BusTypeOK, ClientType
<1> QED BY <1>1, <1>2 DEF BusInit, BusInv, NeverDeaf, AttemptKnown, WaitersKnown, CurrentHears

\* Every step of the bus and of PostgreSQL preserves the invariant.
LEMMA BusSteps == BusInv /\ [BusNext]_busVars => BusInv'
<1> SUFFICES ASSUME BusInv, [BusNext]_busVars PROVE BusInv'
  OBVIOUS
<1>1. CASE BusNext
  BY <1>1, SubscribeKeeps, ConnectedKeeps, RestoreKeeps, RestoredKeeps, ConnectFailsKeeps, ConnectionLostKeeps,
     ListenKeeps, TimerFiresKeeps, DisconnectKeeps DEF BusNext
<1>2. CASE UNCHANGED busVars
  BY <1>2 DEF busVars, BusInv, BusTypeOK, NeverDeaf, AttemptKnown, WaitersKnown, CurrentHears, Client
<1> QED BY <1>1, <1>2

\* A process that is not told to stop is never deaf for good, through any number of
\* lost connections and failed attempts (postgres-notification-bus.ts:60-215).
THEOREM Listening == BusSpec => []NeverDeaf
BY BusStarts, BusSteps, PTL DEF BusSpec, BusInv

-----------------------------------------------------------------------------
(* The cron tasks and the table.                                           *)

\* The two halves of ScheduleInv: what a request in flight carries, and what the
\* worker knows of a schedule.
EditOK(e) ==
  /\ edit[e].pc = "idle" <=> edit[e].schedule = "none"
  /\ edit[e].pc = "written" =>
       /\ edit[e].snap.version <= row[edit[e].schedule].version
       /\ edit[e].snap.version = row[edit[e].schedule].version => edit[e].snap = row[edit[e].schedule]
TaskOK(s) ==
  /\ row[s].state = "absent" => row[s].version = 0
  /\ published[s] <= row[s].version
  /\ published[s] = row[s].version \/ OnItsWay(s)
  /\ scheduler # "down" /\ s \notin missed => tasks[s] = Handled(0, row[s]) \/ OnItsWay(s)

\* ScheduleInv in these terms.
LEMMA ScheduleParts ==
  ScheduleInv <=> ScheduleTypeOK /\ (\A e \in Edits : EditOK(e)) /\ (\A s \in Schedules : TaskOK(s))
BY DEF ScheduleInv, EditOK, TaskOK

\* The same of the next state.
LEMMA ScheduleNextParts ==
  ScheduleInv' <=> ScheduleTypeOK' /\ (\A e \in Edits : EditOK(e)') /\ (\A s \in Schedules : TaskOK(s)')
BY DEF ScheduleInv, EditOK, TaskOK

\* A schedule whose notices are all handled has its task.
LEMMA TasksFollow == ScheduleInv => TasksFollowTable
BY DEF ScheduleInv, ScheduleTypeOK, TasksFollowTable, OnItsWay

\* The invariant holds before the first request.
LEMMA ScheduleStarts == ScheduleInit => ScheduleInv
BY ScheduleAssumption DEF ScheduleAssumption, ScheduleInit, ScheduleInv, ScheduleTypeOK, NoEdit, Snapshot, RowStates

\* A write puts a newer row, or leaves the row as it is and carries a copy of it.
LEMMA WriteKeeps ==
  ASSUME ScheduleInv, NEW e \in Edits, NEW s \in Schedules, NEW new \in Snapshot,
         \/ new.version > row[s].version /\ new.state # "absent"
         \/ new = row[s],
         edit[e].pc # "written",
         Write(e, s, new)
  PROVE  ScheduleInv'
<1> USE DEF Write
<1>1. ScheduleTypeOK /\ ScheduleTypeOK'
  BY DEF ScheduleInv, ScheduleTypeOK
<1>2. edit'[e] = [pc |-> "written", schedule |-> s, snap |-> new] /\ \A f \in Edits \ {e} : edit'[f] = edit[f]
  BY <1>1 DEF ScheduleTypeOK
<1>3. row'[s] = new /\ \A t \in Schedules \ {s} : row'[t] = row[t]
  BY <1>1 DEF ScheduleTypeOK
<1>4. \A t \in Schedules : /\ row'[t] \in Snapshot /\ row[t] \in Snapshot /\ row'[t].version >= row[t].version
                           /\ row'[t].version = row[t].version => row'[t] = row[t]
  BY <1>1, <1>3 DEF ScheduleTypeOK, Snapshot
<1>5. ASSUME NEW f \in Edits PROVE EditOK(f)'
  <2>1. CASE f = e
    BY <2>1, <1>2, <1>3, ScheduleAssumption DEF ScheduleAssumption, EditOK, Snapshot
  <2>2. CASE f # e
    BY <2>2, <1>1, <1>2, <1>4, ScheduleParts DEF EditOK, ScheduleTypeOK, Snapshot
  <2> QED BY <2>1, <2>2
<1>6. ASSUME NEW t \in Schedules PROVE TaskOK(t)'
  <2>1. published'[t] <= row'[t].version
    BY <1>1, <1>4, ScheduleParts DEF TaskOK, ScheduleTypeOK, Snapshot
  <2>2. CASE t = s
    <3>1. OnItsWay(t)'
      BY <2>2, <1>2, <1>3 DEF OnItsWay
    <3>2. row'[t].state = "absent" => row'[t].version = 0
      BY <2>2, <1>3, ScheduleParts DEF TaskOK
    <3> QED BY <2>1, <3>1, <3>2 DEF TaskOK
  <2>3. CASE t # s
    <3>1. OnItsWay(t) => OnItsWay(t)'
      BY <2>3, <1>2, <1>3 DEF OnItsWay
    <3> QED BY <2>1, <2>3, <3>1, <1>3, ScheduleParts DEF TaskOK
  <2> QED BY <2>2, <2>3
<1> QED BY <1>1, <1>5, <1>6, ScheduleNextParts

\* A row that is made, changed or deleted gets the next version.
LEMMA RowsKeep ==
  ASSUME ScheduleInv, NEW e \in Edits, NEW s \in Schedules, NEW state \in RowStates,
         CreateSchedule(e, s, state) \/ UpdateSchedule(e, state) \/ DeleteSchedule(e)
  PROVE  ScheduleInv'
<1>1. ScheduleTypeOK /\ EditOK(e) /\ MaxVersions \in Nat \ {0}
  BY ScheduleParts, ScheduleAssumption DEF ScheduleAssumption
<1>2. ASSUME NEW t \in Schedules, NEW st \in RowStates, row[t].version < MaxVersions
      PROVE  /\ Bumped(t, st) \in Snapshot /\ Bumped(t, st).version > row[t].version
             /\ Bumped(t, st).state = st
  BY <1>1, <1>2 DEF Bumped, Snapshot, ScheduleTypeOK
<1>3. CASE CreateSchedule(e, s, state)
  <2>1. row[s].version < MaxVersions
    BY <1>1, <1>3, ScheduleParts DEF TaskOK, ScheduleTypeOK, Snapshot, CreateSchedule
  <2> QED BY <2>1, <1>2, <1>3, WriteKeeps DEF CreateSchedule
<1>4. CASE UpdateSchedule(e, state)
  <2>1. edit[e].schedule \in Schedules /\ row[edit[e].schedule] \in Snapshot
    BY <1>1, <1>4 DEF UpdateSchedule, EditOK, ScheduleTypeOK
  <2> QED BY <2>1, <1>2, <1>4, WriteKeeps DEF UpdateSchedule
<1>5. CASE DeleteSchedule(e)
  <2>1. edit[e].schedule \in Schedules /\ row[edit[e].schedule] \in Snapshot /\ "deleted" \in RowStates
    BY <1>1, <1>5 DEF DeleteSchedule, EditOK, ScheduleTypeOK, RowStates
  <2> QED BY <2>1, <1>2, <1>5, WriteKeeps DEF DeleteSchedule
<1> QED BY <1>3, <1>4, <1>5

\* A notice is handled, or does not arrive.
LEMMA NoticeKeeps ==
  ASSUME ScheduleInv, NEW e \in Edits, Publish(e) \/ PublishLost(e)
  PROVE  ScheduleInv'
<1> DEFINE s == edit[e].schedule
<1>1. ScheduleTypeOK /\ (\A f \in Edits : EditOK(f)) /\ (\A t \in Schedules : TaskOK(t))
  BY ScheduleParts
<1>2. edit[e].pc = "written" /\ s \in Schedules /\ edit[e].snap \in Snapshot
  BY <1>1 DEF Publish, PublishLost, EditOK, ScheduleTypeOK
<1>3. /\ \A t \in Schedules : published[t] \in Nat /\ row[t] \in Snapshot
      /\ edit[e].snap.version <= row[s].version /\ published[s] <= row[s].version
      /\ edit[e].snap.version = row[s].version => edit[e].snap = row[s]
      /\ Newest(e) \in 0 .. MaxVersions
  BY <1>1, <1>2, ScheduleAssumption DEF ScheduleAssumption, EditOK, TaskOK, ScheduleTypeOK, Snapshot, Newest
<1>4. /\ published' = [published EXCEPT ![s] = Newest(e)]
      /\ edit' = [edit EXCEPT ![e] = NoEdit] /\ row' = row /\ scheduler' = scheduler
  BY DEF Publish, PublishLost
<1>5. NoEdit.pc = "idle" /\ NoEdit.schedule = "none"
      /\ NoEdit \in [pc : {"idle", "loaded", "written"}, schedule : Schedules \cup {"none"}, snap : Snapshot]
  BY ScheduleAssumption DEF ScheduleAssumption, NoEdit, Snapshot, RowStates
<1>6. ScheduleTypeOK'
  <2>1. tasks' \in [Schedules -> 0 .. MaxVersions]
    BY <1>1, <1>2, ScheduleAssumption DEF ScheduleAssumption, Publish, PublishLost, Handled, ScheduleTypeOK, Snapshot
  <2>2. missed' \subseteq Schedules
    BY <1>1, <1>2 DEF Publish, PublishLost, ScheduleTypeOK
  <2> QED BY <2>1, <2>2, <1>1, <1>2, <1>3, <1>4, <1>5 DEF ScheduleTypeOK
<1>7. edit'[e] = NoEdit /\ \A f \in Edits \ {e} : edit'[f] = edit[f]
  BY <1>1, <1>4 DEF ScheduleTypeOK
<1>8. ASSUME NEW f \in Edits PROVE EditOK(f)'
  BY <1>1, <1>4, <1>5, <1>7 DEF EditOK
<1>9. ASSUME NEW t \in Schedules PROVE TaskOK(t)'
  <2>1. published'[t] <= row'[t].version
    BY <1>1, <1>2, <1>3, <1>4 DEF Newest, TaskOK, ScheduleTypeOK, Snapshot
  <2>2. CASE t # s
    <3>1. OnItsWay(t) => OnItsWay(t)'
      BY <2>2, <1>4, <1>7 DEF OnItsWay
    <3>2. tasks'[t] = tasks[t] /\ (t \in missed' <=> t \in missed)
      BY <2>2, <1>1 DEF Publish, PublishLost, ScheduleTypeOK
    <3>3. published'[t] = published[t]
      BY <2>2, <1>1, <1>4 DEF ScheduleTypeOK
    <3> QED BY <2>1, <3>1, <3>2, <3>3, <1>1, <1>4 DEF TaskOK
  <2>4. t = s => published'[t] = row'[t].version \/ OnItsWay(t)'
    <3> SUFFICES ASSUME t = s PROVE published'[t] = row'[t].version \/ OnItsWay(t)'
      OBVIOUS
    <3>1. CASE Newest(e) = row[s].version
      BY <3>1, <1>1, <1>2, <1>4 DEF ScheduleTypeOK
    <3>2. CASE Newest(e) # row[s].version
      <4>1. edit[e].snap.version # row[s].version /\ published[s] # row[s].version
        BY <3>2, <1>1, <1>2, <1>3 DEF Newest, Snapshot
      <4>2. PICK f \in Edits : edit[f].pc = "written" /\ edit[f].schedule = s /\ edit[f].snap.version = row[s].version
        BY <4>1, <1>1, <1>2 DEF TaskOK, OnItsWay
      <4> QED BY <4>1, <4>2, <1>4, <1>7 DEF OnItsWay
    <3> QED BY <3>1, <3>2
  <2>3. ASSUME t = s, scheduler' # "down", t \notin missed' PROVE tasks'[t] = Handled(0, row'[t]) \/ OnItsWay(t)'
    <3>1. scheduler = "listening" /\ Newest(e) = edit[e].snap.version /\ tasks' = [tasks EXCEPT ![s] = Handled(@, edit[e].snap)]
      BY <2>3 DEF Publish, PublishLost
    <3>2. CASE edit[e].snap.version = row[s].version
      BY <2>3, <3>1, <3>2, <1>1, <1>2, <1>3, <1>4 DEF Handled, ScheduleTypeOK
    <3>3. CASE edit[e].snap.version # row[s].version
      BY <2>3, <2>4, <3>1, <3>3, <1>1, <1>2, <1>3, <1>4 DEF ScheduleTypeOK, Snapshot
    <3> QED BY <3>2, <3>3
  <2> QED BY <2>1, <2>2, <2>3, <2>4, <1>1, <1>4 DEF TaskOK
<1> QED BY <1>6, <1>8, <1>9, ScheduleNextParts

\* A request that loads its row, and the connection of the worker, change no task.
LEMMA LoadKeeps ==
  ASSUME ScheduleInv,
         \/ \E e \in Edits, s \in Schedules : LoadSchedule(e, s)
         \/ SubscribeChanges \/ ListenerToggles \/ WorkerStops \/ UNCHANGED scheduleVars
  PROVE  ScheduleInv'
<1>1. ScheduleTypeOK /\ (\A f \in Edits : EditOK(f)) /\ (\A t \in Schedules : TaskOK(t))
  BY ScheduleParts
<1>2. ASSUME NEW e \in Edits, NEW s \in Schedules, LoadSchedule(e, s) PROVE ScheduleInv'
  <2> USE <1>2 DEF LoadSchedule
  <2>1. ScheduleTypeOK'
    BY <1>1 DEF ScheduleTypeOK
  <2>2. ASSUME NEW f \in Edits PROVE EditOK(f)'
    BY <1>1, ScheduleAssumption DEF ScheduleAssumption, EditOK, ScheduleTypeOK
  <2>3. ASSUME NEW t \in Schedules PROVE TaskOK(t)'
    <3>1. OnItsWay(t) => OnItsWay(t)'
      BY <1>1 DEF OnItsWay, ScheduleTypeOK
    <3> QED BY <1>1, <3>1 DEF TaskOK
  <2> QED BY <2>1, <2>2, <2>3, ScheduleNextParts
<1>3. CASE SubscribeChanges \/ ListenerToggles \/ WorkerStops \/ UNCHANGED scheduleVars
  <2> USE <1>3 DEF SubscribeChanges, ListenerToggles, WorkerStops, scheduleVars
  <2>1. ScheduleTypeOK'
    BY <1>1, ScheduleAssumption DEF ScheduleAssumption, ScheduleTypeOK
  <2>2. ASSUME NEW f \in Edits PROVE EditOK(f)'
    BY <1>1 DEF EditOK
  <2>3. ASSUME NEW t \in Schedules PROVE TaskOK(t)'
    <3>1. OnItsWay(t) => OnItsWay(t)'
      BY DEF OnItsWay
    <3> QED BY <1>1, <3>1 DEF TaskOK
  <2> QED BY <2>1, <2>2, <2>3, ScheduleNextParts
<1> QED BY <1>2, <1>3

\* The table is loaded: every task follows it, or the worker has missed everything.
LEMMA LoadTasksKeeps ==
  ASSUME ScheduleInv, LoadTasks
  PROVE  ScheduleInv'
<1> USE DEF LoadTasks
<1>1. ScheduleTypeOK /\ (\A f \in Edits : EditOK(f)) /\ (\A t \in Schedules : TaskOK(t))
  BY ScheduleParts
<1>2. ScheduleTypeOK'
  BY <1>1, ScheduleAssumption DEF ScheduleAssumption, ScheduleTypeOK, Handled, Snapshot
<1>3. ASSUME NEW f \in Edits PROVE EditOK(f)'
  BY <1>1 DEF EditOK
<1>4. ASSUME NEW t \in Schedules PROVE TaskOK(t)'
  BY <1>1 DEF TaskOK, OnItsWay
<1> QED BY <1>2, <1>3, <1>4, ScheduleNextParts

\* Every step of the web role and of the worker preserves the invariant.
LEMMA ScheduleSteps == ScheduleInv /\ [ScheduleNext]_scheduleVars => ScheduleInv'
<1> SUFFICES ASSUME ScheduleInv, [ScheduleNext]_scheduleVars PROVE ScheduleInv'
  OBVIOUS
<1>1. ASSUME NEW e \in Edits, NEW s \in Schedules, NEW state \in RowStates, CreateSchedule(e, s, state)
      PROVE  ScheduleInv'
  BY <1>1, RowsKeep
<1>2. ASSUME NEW e \in Edits, NEW s \in Schedules, LoadSchedule(e, s) PROVE ScheduleInv'
  BY <1>2, LoadKeeps
<1>3. ASSUME NEW e \in Edits, NEW state \in RowStates, UpdateSchedule(e, state) \/ DeleteSchedule(e)
      PROVE  ScheduleInv'
  <2>1. edit[e].schedule \in Schedules
    BY <1>3, ScheduleParts DEF UpdateSchedule, DeleteSchedule, EditOK, ScheduleTypeOK
  <2> QED BY <1>3, <2>1, RowsKeep
<1>4. ASSUME NEW e \in Edits, Publish(e) \/ PublishLost(e) PROVE ScheduleInv'
  BY <1>4, NoticeKeeps
<1>5. CASE LoadTasks
  BY <1>5, LoadTasksKeeps
<1>6. CASE SubscribeChanges \/ ListenerToggles \/ WorkerStops \/ UNCHANGED scheduleVars
  BY <1>6, LoadKeeps
<1>7. "deleted" \in RowStates
  BY DEF RowStates
<1> QED BY <1>1, <1>2, <1>3, <1>4, <1>5, <1>6, <1>7 DEF ScheduleNext

\* A running worker fires exactly the enabled schedules, each by its last cron
\* expression, whatever requests and reconnections come between, unless the last notice
\* was lost or overtaken (schedule-queries.ts, cron-scheduler.ts).
THEOREM TasksKept == ScheduleSpec => [](ScheduleInv /\ TasksFollowTable)
BY ScheduleStarts, ScheduleSteps, TasksFollow, PTL DEF ScheduleSpec

-----------------------------------------------------------------------------
(* The event streams.                                                      *)

PipeStates == {"unused", "open", "gone", "ended", "closed"}

PushType ==
  /\ pipe \in [Pipes -> PipeStates]
  /\ stream \in [Pipes -> Viewers \union {"progress", "none"}]
  /\ connections \in [Viewers -> Seq(Pipes)]
  /\ listeners \in SUBSET Pipes /\ events \in Nat
  /\ received \in [Pipes -> Seq(Nat)]
  /\ progressBeat \in [intervals : Nat, handle : BOOLEAN]

\* A Member's list holds a pipe once, and only pipes of that Member that the server
\* has not ended.
ListOK(m) ==
  /\ Len(connections[m]) <= PipeCap /\ IsInjective(connections[m])
  /\ \A p \in Range(connections[m]) : stream[p] = m /\ pipe[p] \in {"open", "gone"}

\* The member tracker: its lists and its one heartbeat.
MembersOK ==
  /\ \A m \in Viewers : ListOK(m)
  /\ IsFiniteSet(Registered(connections))
  /\ memberBeat = IF Registered(connections) = {} THEN NoBeat ELSE Started(NoBeat)

\* The progress tracker: its listeners, what they were sent, its heartbeats.
ProgressOK ==
  /\ \A p \in listeners : stream[p] = "progress" /\ pipe[p] \in {"open", "gone"} /\ received[p] = Backlog(events)
  /\ listeners # {} => progressBeat.handle
  /\ progressBeat.handle => progressBeat.intervals > 0

PushIInv == PushType /\ MembersOK /\ ProgressOK /\ OpenPipesAreRegistered

\* The invariant implies the properties.
LEMMA PushImplies == PushIInv => PushInv /\ PipesAreServed
BY DEF PushIInv, PushType, MembersOK, ListOK, ProgressOK, PushInv, PipesAreServed, HeartbeatsRun, PipeStates

\* Removing an element at a place.
LEMMA RemovedAt ==
  ASSUME NEW S, NEW list \in Seq(S), IsInjective(list), NEW i \in 1 .. Len(list)
  PROVE  /\ RemoveAt(list, i) \in Seq(S) /\ Len(RemoveAt(list, i)) = Len(list) - 1
         /\ IsInjective(RemoveAt(list, i))
         /\ Range(RemoveAt(list, i)) = Range(list) \ {list[i]}
         /\ \A j \in 1 .. Len(list) - 1 : RemoveAt(list, i)[j] = IF j < i THEN list[j] ELSE list[j + 1]
<1> DEFINE r == RemoveAt(list, i)
           a == SubSeq(list, 1, i - 1)
           b == SubSeq(list, i + 1, Len(list))
<1>8. a \in Seq(S) /\ Len(a) = i - 1 /\ \A j \in 1 .. i - 1 : a[j] = list[j]
  BY SubSeqProperties
<1>9. b \in Seq(S) /\ Len(b) = Len(list) - i /\ \A j \in 1 .. Len(list) - i : b[j] = list[i + j]
  BY SubSeqProperties
<1>10. r = a \o b
  BY DEF RemoveAt
<1> HIDE DEF a, b, r
<1>1. r \in Seq(S) /\ Len(r) = Len(list) - 1
  BY <1>8, <1>9, <1>10, ConcatProperties
<1>2. \A j \in 1 .. Len(list) - 1 : r[j] = IF j < i THEN list[j] ELSE list[j + 1]
  <2> TAKE j \in 1 .. Len(list) - 1
  <2>1. j \in 1 .. Len(a) + Len(b) /\ r[j] = IF j <= Len(a) THEN a[j] ELSE b[j - Len(a)]
    BY <1>8, <1>9, <1>10, ConcatProperties
  <2>2. CASE j < i
    BY <2>1, <2>2, <1>8
  <2>3. CASE j >= i
    <3>1. j - (i - 1) \in 1 .. Len(list) - i /\ i + (j - (i - 1)) = j + 1
      BY <2>3
    <3>2. r[j] = b[j - (i - 1)]
      BY <2>1, <2>3, <1>8
    <3> QED BY <2>3, <3>1, <3>2, <1>9
  <2> QED BY <2>2, <2>3
<1>3. DOMAIN r = 1 .. Len(list) - 1 /\ DOMAIN list = 1 .. Len(list)
  BY <1>1
<1>4. IsInjective(r)
  <2>1. ASSUME NEW j \in 1 .. Len(list) - 1, NEW k \in 1 .. Len(list) - 1, r[j] = r[k] PROVE j = k
    <3> DEFINE at(n) == IF n < i THEN n ELSE n + 1
    <3>1. at(j) \in DOMAIN list /\ at(k) \in DOMAIN list /\ (at(j) = at(k) => j = k)
      BY <1>3
    <3>2. r[j] = list[at(j)] /\ r[k] = list[at(k)]
      BY <1>2
    <3> QED BY <2>1, <3>1, <3>2 DEF IsInjective
  <2> QED BY <2>1, <1>3 DEF IsInjective
<1>5. \A x \in Range(r) : x \in Range(list) /\ x # list[i]
  BY <1>2, <1>3 DEF Range, IsInjective
<1>6. ASSUME NEW x \in Range(list), x # list[i] PROVE x \in Range(r)
  <2>1. PICK k \in 1 .. Len(list) : list[k] = x
    BY <1>3 DEF Range
  <2>2. CASE k < i
    BY <1>2, <1>3, <2>1, <2>2 DEF Range
  <2>3. CASE k > i
    <3>1. k - 1 \in DOMAIN r /\ r[k - 1] = x
      BY <1>2, <1>3, <2>1, <2>3
    <3> QED BY <3>1 DEF Range
  <2> QED BY <1>6, <2>1, <2>2, <2>3
<1>7. Range(r) = Range(list) \ {list[i]}
  BY <1>5, <1>6
<1> QED BY <1>1, <1>2, <1>4, <1>7 DEF r

\* removeListener takes the pipe off the list, and nothing else.
LEMMA WithoutPipe ==
  ASSUME NEW S, NEW list \in Seq(S), IsInjective(list), NEW p
  PROVE  /\ Without(list, p) \in Seq(S) /\ Len(Without(list, p)) <= Len(list)
         /\ IsInjective(Without(list, p)) /\ Range(Without(list, p)) = Range(list) \ {p}
<1>1. CASE p \in Range(list)
  <2>1. IndexOf(list, p) \in 1 .. Len(list) /\ list[IndexOf(list, p)] = p
    <3>1. \E i \in DOMAIN list : list[i] = p
      BY <1>1 DEF Range
    <3>2. IndexOf(list, p) \in DOMAIN list /\ list[IndexOf(list, p)] = p
      BY <3>1, Zenon DEF IndexOf
    <3> QED BY <3>2
  <2> QED BY <1>1, <2>1, RemovedAt DEF Without
<1>2. CASE p \notin Range(list)
  BY <1>2 DEF Without
<1> QED BY <1>1, <1>2

\* The pipes that an eviction keeps are the last of the list, and one at least.
LEMMA KeptPipes ==
  ASSUME NEW S, NEW list \in Seq(S), IsInjective(list), Len(list) <= PipeCap
  PROVE  /\ Kept(list) \in Seq(S) /\ Len(Kept(list)) < PipeCap
         /\ IsInjective(Kept(list)) /\ Range(Kept(list)) \subseteq Range(list)
         /\ list # <<>> => Range(Kept(list)) # {}
<1> USE PipeCapAssumption DEF PipeCapAssumption
<1>1. CASE Len(list) >= PipeCap
  <2> DEFINE r == SubSeq(list, 2, Len(list))
  <2>1. Kept(list) = r
    BY <1>1 DEF Kept
  <2>2. r \in Seq(S) /\ Len(r) = Len(list) - 1 /\ \A j \in 1 .. Len(list) - 1 : r[j] = list[j + 1]
    BY <1>1
  <2> HIDE DEF r
  <2>3. DOMAIN r = 1 .. Len(list) - 1 /\ DOMAIN list = 1 .. Len(list) /\ 1 \in DOMAIN r
    BY <1>1, <2>2
  <2>4. IsInjective(r)
    <3>1. ASSUME NEW j \in DOMAIN r, NEW k \in DOMAIN r, r[j] = r[k] PROVE j = k
      <4>1. j + 1 \in DOMAIN list /\ k + 1 \in DOMAIN list /\ (j + 1 = k + 1 => j = k)
        BY <2>3
      <4>2. list[j + 1] = list[k + 1]
        BY <2>2, <2>3, <3>1
      <4> QED BY <4>1, <4>2 DEF IsInjective
    <3> QED BY <3>1 DEF IsInjective
  <2>5. Range(r) \subseteq Range(list) /\ r[1] \in Range(r)
    <3>1. \A j \in DOMAIN r : j + 1 \in DOMAIN list /\ r[j] = list[j + 1]
      BY <2>2, <2>3
    <3>2. \A j \in DOMAIN r : r[j] \in Range(list)
      BY <3>1, Zenon DEF Range
    <3> QED BY <2>3, <3>2 DEF Range
  <2> QED BY <1>1, <2>1, <2>2, <2>4, <2>5
<1>2. CASE Len(list) < PipeCap
  <2>1. Kept(list) = list
    BY <1>2 DEF Kept
  <2>2. list # <<>> => 1 \in DOMAIN list
    OBVIOUS
  <2> QED BY <1>2, <2>1, <2>2 DEF Range
<1> QED BY <1>1, <1>2

\* A new pipe at the end of a list.
LEMMA AppendedPipe ==
  ASSUME NEW S, NEW list \in Seq(S), IsInjective(list), NEW p \in S, p \notin Range(list)
  PROVE  /\ Append(list, p) \in Seq(S) /\ Len(Append(list, p)) = Len(list) + 1
         /\ IsInjective(Append(list, p)) /\ Range(Append(list, p)) = Range(list) \union {p}
<1> DEFINE r == Append(list, p)
<1>1. r \in Seq(S) /\ Len(r) = Len(list) + 1 /\ r[Len(list) + 1] = p /\ \A j \in 1 .. Len(list) : r[j] = list[j]
  OBVIOUS
<1> HIDE DEF r
<1>2. DOMAIN r = 1 .. Len(list) + 1 /\ DOMAIN list = 1 .. Len(list)
  BY <1>1
<1>3. IsInjective(r)
  BY <1>1, <1>2 DEF IsInjective, Range
<1>4. Range(r) = Range(list) \union {p}
  <2>1. \A j \in DOMAIN r : j \in DOMAIN list \/ j = Len(list) + 1
    BY <1>2
  <2>2. \A x \in Range(r) : x \in Range(list) \union {p}
    BY <1>1, <1>2, <2>1 DEF Range
  <2>3. p \in Range(r) /\ Range(list) \subseteq Range(r)
    BY <1>1, <1>2 DEF Range
  <2> QED BY <2>2, <2>3
<1> QED BY <1>1, <1>3, <1>4 DEF r

\* The registered pipes, by Member.
LEMMA RegisteredPipes ==
  ASSUME NEW lists
  PROVE  \A p : p \in Registered(lists) <=> \E m \in Viewers : p \in Range(lists[m])
BY DEF Registered

\* A list is empty when it holds nothing.
LEMMA EmptyList ==
  ASSUME NEW S, NEW list \in Seq(S)
  PROVE  list = <<>> <=> Range(list) = {}
<1>1. DOMAIN list = 1 .. Len(list)
  OBVIOUS
<1>2. list # <<>> => 1 \in DOMAIN list
  OBVIOUS
<1>3. list = <<>> => DOMAIN list = {}
  OBVIOUS
<1> QED BY <1>2, <1>3 DEF Range

\* A pipe that is not open any more leaves its list; the heartbeat stops with the last.
LEMMA RemoveListenerKeeps ==
  ASSUME PushIInv, NEW m \in Viewers, NEW p \in Pipes, stream[p] = m,
         pipe' \in [Pipes -> PipeStates], pipe'[p] # "open", \A q \in Pipes \ {p} : pipe'[q] = pipe[q],
         RemoveListener(m, p), UNCHANGED <<stream, progressPush>>
  PROVE  PushIInv'
<1>1. PushType /\ MembersOK /\ ProgressOK /\ OpenPipesAreRegistered
  BY DEF PushIInv
<1>2. /\ stream' = stream /\ listeners' = listeners /\ events' = events /\ received' = received
      /\ progressBeat' = progressBeat
  BY DEF progressPush
<1>3. connections[m] \in Seq(Pipes) /\ IsInjective(connections[m])
  BY <1>1 DEF PushType, MembersOK, ListOK
<1>4. connections' = [connections EXCEPT ![m] = Without(connections[m], p)]
  BY <1>1 DEF RemoveListener, PushType
<1>5. /\ connections'[m] \in Seq(Pipes) /\ Len(connections'[m]) <= Len(connections[m])
      /\ IsInjective(connections'[m]) /\ Range(connections'[m]) = Range(connections[m]) \ {p}
  BY <1>1, <1>3, <1>4, WithoutPipe DEF PushType
<1>6. /\ connections' \in [Viewers -> Seq(Pipes)]
      /\ \A n \in Viewers \ {m} : connections'[n] = connections[n]
  BY <1>1, <1>4, <1>5 DEF PushType
<1>7. PushType'
  BY <1>1, <1>2, <1>6 DEF PushType
<1>8. \A n \in Viewers \ {m} : p \notin Range(connections[n])
  BY <1>1 DEF MembersOK, ListOK
<1>9. \A n \in Viewers : ListOK(n)'
  <2> TAKE n \in Viewers
  <2>1. Len(connections'[n]) <= PipeCap /\ IsInjective(connections'[n])
    <3>1. Len(connections[n]) \in Nat /\ Len(connections'[n]) \in Nat /\ Len(connections[n]) <= PipeCap
      BY <1>1, <1>6 DEF PushType, MembersOK, ListOK
    <3>2. IsInjective(connections[n])
      BY <1>1 DEF MembersOK, ListOK
    <3>3. CASE n = m
      BY <1>5, <3>1, <3>3, PipeCapAssumption DEF PipeCapAssumption
    <3>4. CASE n # m
      BY <1>6, <3>1, <3>2, <3>4
    <3> QED BY <3>3, <3>4
  <2>2. \A q \in Range(connections'[n]) : q \in Range(connections[n]) /\ q # p
    BY <1>5, <1>6, <1>8
  <2>3. Range(connections[n]) \subseteq Pipes
    <3>1. connections[n] \in Seq(Pipes)
      BY <1>1 DEF PushType
    <3> QED BY <3>1 DEF Range
  <2> QED BY <1>1, <1>2, <2>1, <2>2, <2>3 DEF ListOK, MembersOK
<1>10. Registered(connections') = Registered(connections) \ {p}
  <2>1. \A n \in Viewers : Range(connections'[n]) = Range(connections[n]) \ {p}
    BY <1>5, <1>6, <1>8
  <2>2. \A q : q \in Registered(connections') <=> q \in Registered(connections) \ {p}
    BY <2>1, RegisteredPipes
  <2> QED BY <2>2
<1>11. IsFiniteSet(Registered(connections'))
  BY <1>1, <1>10, FS_Subset DEF MembersOK
<1>12. memberBeat' = IF Registered(connections') = {} THEN NoBeat ELSE Started(NoBeat)
  <2>1. memberBeat' = IF connections[m] # <<>> /\ Registered(connections') = {} THEN Stopped(memberBeat) ELSE memberBeat
    BY <1>1, <1>4 DEF RemoveListener
  <2>2. CASE connections[m] = <<>>
    <3>1. connections' = connections
      BY <2>2, <1>1, <1>3, <1>4, EmptyList DEF PushType, Without
    <3> QED BY <2>1, <2>2, <3>1, <1>1 DEF MembersOK
  <2>3. CASE connections[m] # <<>>
    <3>1. Registered(connections) # {}
      BY <2>3, <1>3, EmptyList, RegisteredPipes
    <3>2. memberBeat = Started(NoBeat)
      BY <3>1, <1>1 DEF MembersOK
    <3>3. Stopped(Started(NoBeat)) = NoBeat
      BY DEF Stopped, Started, NoBeat
    <3> QED BY <2>1, <2>3, <3>2, <3>3
  <2> QED BY <2>2, <2>3
<1>13. MembersOK'
  BY <1>9, <1>11, <1>12 DEF MembersOK
<1>14. p \notin listeners
  BY <1>1, ViewersAssumption DEF ViewersAssumption, ProgressOK
<1>15. ProgressOK'
  BY <1>1, <1>2, <1>14 DEF ProgressOK, PushType
<1>16. OpenPipesAreRegistered'
  <2> SUFFICES ASSUME NEW q \in Pipes, pipe'[q] = "open"
               PROVE  \/ stream'[q] = "progress" /\ q \in listeners'
                      \/ stream'[q] \in Viewers /\ q \in Range(connections'[stream'[q]])
    BY DEF OpenPipesAreRegistered
  <2>1. q # p /\ pipe[q] = "open"
    OBVIOUS
  <2> QED BY <2>1, <1>1, <1>2, <1>5, <1>6 DEF OpenPipesAreRegistered
<1> QED BY <1>7, <1>13, <1>15, <1>16 DEF PushIInv

\* A new pipe of a Member: the oldest ones go at the cap, and the heartbeat starts with
\* the first.
LEMMA OpenNotificationsKeeps ==
  ASSUME PushIInv, NEW m \in Viewers, NEW p \in Pipes, OpenNotifications(m, p)
  PROVE  PushIInv'
<1> DEFINE list == connections[m]
           kept == Kept(list)
<1>1. PushType /\ MembersOK /\ ProgressOK /\ OpenPipesAreRegistered
  BY DEF PushIInv
<1>2. /\ listeners' = listeners /\ events' = events /\ received' = received
      /\ progressBeat' = progressBeat /\ pipe[p] = "unused"
  BY DEF OpenNotifications, progressPush
<1>3. list \in Seq(Pipes) /\ IsInjective(list) /\ Len(list) <= PipeCap
  BY <1>1 DEF PushType, MembersOK, ListOK
<1>4. /\ kept \in Seq(Pipes) /\ Len(kept) < PipeCap /\ IsInjective(kept) /\ Range(kept) \subseteq Range(list)
      /\ list # <<>> => Range(kept) # {}
  BY <1>3, KeptPipes
<1>5. \A n \in Viewers : p \notin Range(connections[n])
  BY <1>1, <1>2 DEF MembersOK, ListOK
<1>6. p \notin Range(kept) /\ p \notin listeners
  BY <1>1, <1>2, <1>4, <1>5 DEF ProgressOK
<1>7. connections' = [connections EXCEPT ![m] = Append(kept, p)]
  BY DEF OpenNotifications
<1>8. /\ connections'[m] \in Seq(Pipes) /\ Len(connections'[m]) <= PipeCap /\ IsInjective(connections'[m])
      /\ Range(connections'[m]) = Range(kept) \union {p}
  <2>1. connections'[m] = Append(kept, p)
    BY <1>1, <1>7 DEF PushType
  <2>2. Len(kept) \in Nat
    BY <1>4
  <2> QED BY <2>1, <2>2, <1>4, <1>6, AppendedPipe, PipeCapAssumption DEF PipeCapAssumption
<1>9. connections' \in [Viewers -> Seq(Pipes)] /\ \A n \in Viewers \ {m} : connections'[n] = connections[n]
  BY <1>1, <1>7, <1>8 DEF PushType
<1>10. /\ pipe' \in [Pipes -> PipeStates] /\ pipe'[p] = "open"
       /\ \A q \in Pipes \ {p} : pipe'[q] = IF q \in Range(list) \ Range(kept) THEN "ended" ELSE pipe[q]
  BY <1>1 DEF OpenNotifications, PushType, PipeStates
<1>11. stream' \in [Pipes -> Viewers \union {"progress", "none"}] /\ stream'[p] = m
       /\ \A q \in Pipes \ {p} : stream'[q] = stream[q]
  BY <1>1 DEF OpenNotifications, PushType
<1>12. PushType'
  BY <1>1, <1>2, <1>9, <1>10, <1>11 DEF PushType
<1>13. \A n \in Viewers : Range(connections[n]) \subseteq Pipes /\ Range(connections'[n]) \subseteq Pipes
  <2> TAKE n \in Viewers
  <2>1. connections[n] \in Seq(Pipes) /\ connections'[n] \in Seq(Pipes)
    BY <1>1, <1>9 DEF PushType
  <2> QED BY <2>1 DEF Range
<1>14. \A n \in Viewers : ListOK(n)'
  <2> TAKE n \in Viewers
  <2>1. CASE n = m
    <3>1. \A q \in Range(kept) : stream'[q] = m /\ pipe'[q] \in {"open", "gone"}
      BY <1>1, <1>4, <1>6, <1>10, <1>11, <1>13 DEF MembersOK, ListOK
    <3> QED BY <2>1, <3>1, <1>8, <1>10, <1>11 DEF ListOK
  <2>2. CASE n # m
    <3>1. \A q \in Range(connections[n]) : q # p /\ q \in Pipes /\ q \notin Range(list)
      BY <2>2, <1>1, <1>5, <1>13 DEF MembersOK, ListOK
    <3> QED BY <2>2, <3>1, <1>1, <1>9, <1>10, <1>11 DEF MembersOK, ListOK
  <2> QED BY <2>1, <2>2
<1>15. /\ Registered(connections') \subseteq Registered(connections) \union {p}
       /\ p \in Registered(connections')
       /\ Registered(connections) # {} => \E q \in Registered(connections') : q # p
  <2>1. \A q \in Registered(connections') : q \in Registered(connections) \union {p}
    BY <1>4, <1>8, <1>9, RegisteredPipes
  <2>2. p \in Registered(connections')
    BY <1>8, RegisteredPipes
  <2>3. ASSUME NEW r \in Registered(connections) PROVE \E q \in Registered(connections') : q # p
    <3>1. PICK n \in Viewers : r \in Range(connections[n])
      BY <2>3, RegisteredPipes
    <3>2. CASE n = m
      <4>1. list # <<>>
        BY <3>1, <3>2, <1>3, EmptyList
      <4> QED BY <4>1, <1>4, <1>6, <1>8, RegisteredPipes
    <3>3. CASE n # m
      BY <3>1, <3>3, <1>5, <1>9, RegisteredPipes
    <3> QED BY <3>2, <3>3
  <2> QED BY <2>1, <2>2, <2>3
<1>16. IsFiniteSet(Registered(connections'))
  <2>1. IsFiniteSet(Registered(connections) \union {p})
    BY <1>1, FS_AddElement DEF MembersOK
  <2> QED BY <2>1, <1>15, FS_Subset
<1>17. memberBeat' = IF Registered(connections') = {} THEN NoBeat ELSE Started(NoBeat)
  <2>1. memberBeat' = IF Cardinality(Registered(connections')) = 1 THEN Started(memberBeat) ELSE memberBeat
    BY DEF OpenNotifications
  <2>2. CASE Registered(connections) = {}
    <3>1. Registered(connections') = {p}
      BY <2>2, <1>15
    <3>2. Cardinality(Registered(connections')) = 1
      BY <3>1, FS_Singleton
    <3> QED BY <2>1, <2>2, <3>1, <3>2, <1>1 DEF MembersOK
  <2>3. CASE Registered(connections) # {}
    <3>1. Cardinality(Registered(connections')) # 1
      BY <2>3, <1>15, <1>16, FS_Singleton
    <3> QED BY <2>1, <2>3, <3>1, <1>1, <1>15 DEF MembersOK
  <2> QED BY <2>2, <2>3
<1>18. MembersOK'
  BY <1>14, <1>16, <1>17 DEF MembersOK
<1>19. ProgressOK'
  <2>1. \A q \in listeners : q \in Pipes /\ q # p /\ q \notin Range(list)
    BY <1>1, <1>6, ViewersAssumption DEF ViewersAssumption, ProgressOK, PushType, MembersOK, ListOK
  <2> QED BY <2>1, <1>1, <1>2, <1>10, <1>11 DEF ProgressOK
<1>20. OpenPipesAreRegistered'
  <2> SUFFICES ASSUME NEW q \in Pipes, pipe'[q] = "open"
               PROVE  \/ stream'[q] = "progress" /\ q \in listeners'
                      \/ stream'[q] \in Viewers /\ q \in Range(connections'[stream'[q]])
    BY DEF OpenPipesAreRegistered
  <2>1. CASE q = p
    BY <2>1, <1>8, <1>11
  <2>2. CASE q # p
    <3>1. pipe[q] = "open" /\ stream'[q] = stream[q] /\ ~(q \in Range(list) \ Range(kept))
      BY <2>2, <1>10, <1>11
    <3> QED BY <3>1, <1>1, <1>2, <1>8, <1>9 DEF OpenPipesAreRegistered
  <2> QED BY <2>1, <2>2
<1> QED BY <1>12, <1>18, <1>19, <1>20 DEF PushIInv

\* A write to a pipe of a Member throws, and the pipe is removed.
LEMMA WriteNoticesKeeps ==
  ASSUME PushIInv, NEW m \in Viewers, WriteNotices(m)
  PROVE  PushIInv'
<1>1. PICK p \in Range(connections[m]) : pipe[p] # "open" /\ RemoveListener(m, p) /\ UNCHANGED <<pipe, stream, progressPush>>
  BY DEF WriteNotices
<1>2. p \in Pipes /\ stream[p] = m
  <2>1. connections[m] \in Seq(Pipes)
    BY DEF PushIInv, PushType
  <2> QED BY <2>1 DEF PushIInv, MembersOK, ListOK, Range
<1>3. pipe' \in [Pipes -> PipeStates] /\ pipe'[p] # "open" /\ \A q \in Pipes \ {p} : pipe'[q] = pipe[q]
  BY <1>1 DEF PushIInv, PushType
<1> QED BY <1>1, <1>2, <1>3, RemoveListenerKeeps

\* A client leaves; the server does not hear of it yet.
LEMMA ClientLeavesKeeps ==
  ASSUME PushIInv, NEW p \in Pipes, ClientLeaves(p)
  PROVE  PushIInv'
<1>1. PushType /\ MembersOK /\ ProgressOK /\ OpenPipesAreRegistered
  BY DEF PushIInv
<1>2. /\ pipe' \in [Pipes -> PipeStates] /\ pipe'[p] = "gone" /\ pipe[p] = "open"
      /\ \A q \in Pipes \ {p} : pipe'[q] = pipe[q]
  BY <1>1 DEF ClientLeaves, PushType, PipeStates
<1>3. UNCHANGED <<stream, connections, memberBeat, listeners, events, received, progressBeat>>
  BY DEF ClientLeaves, memberPush, progressPush
<1>4. PushType'
  BY <1>1, <1>2, <1>3 DEF PushType
<1>5. \A q \in Pipes : pipe[q] \in {"open", "gone"} => pipe'[q] \in {"open", "gone"}
  BY <1>2
<1>6. MembersOK'
  <2>1. \A m \in Viewers : Range(connections[m]) \subseteq Pipes
    <3> TAKE m \in Viewers
    <3>1. connections[m] \in Seq(Pipes)
      BY <1>1 DEF PushType
    <3> QED BY <3>1 DEF Range
  <2>2. \A m \in Viewers : ListOK(m)'
    BY <1>1, <1>3, <1>5, <2>1 DEF MembersOK, ListOK
  <2> QED BY <1>1, <1>3, <2>2 DEF MembersOK
<1>7. ProgressOK'
  BY <1>1, <1>3, <1>5 DEF ProgressOK, PushType
<1>8. OpenPipesAreRegistered'
  BY <1>1, <1>2, <1>3 DEF OpenPipesAreRegistered
<1> QED BY <1>4, <1>6, <1>7, <1>8 DEF PushIInv

\* The server hears that a client has left, or that a response it ended is closed.
LEMMA CloseKeeps ==
  ASSUME PushIInv, NEW p \in Pipes, Close(p)
  PROVE  PushIInv'
<1>1. PushType /\ MembersOK /\ ProgressOK /\ OpenPipesAreRegistered
  BY DEF PushIInv
<1>2. /\ pipe' \in [Pipes -> PipeStates] /\ pipe'[p] = "closed" /\ stream' = stream
      /\ \A q \in Pipes \ {p} : pipe'[q] = pipe[q]
  BY <1>1 DEF Close, PushType, PipeStates
<1>3. CASE stream[p] \in Viewers /\ RemoveListener(stream[p], p) /\ UNCHANGED progressPush
  BY <1>2, <1>3, RemoveListenerKeeps
<1>4. CASE /\ stream[p] = "progress"
           /\ listeners' = listeners \ {p}
           /\ progressBeat' = IF listeners' = {} THEN Stopped(progressBeat) ELSE progressBeat
           /\ UNCHANGED <<events, received, memberPush>>
  <2>1. UNCHANGED <<stream, connections, memberBeat, events, received>>
    BY <1>2, <1>4 DEF memberPush
  <2>2. progressBeat' \in [intervals : Nat, handle : BOOLEAN] /\ (progressBeat'.handle => progressBeat'.intervals > 0)
    BY <1>1, <1>4 DEF PushType, ProgressOK, Stopped
  <2>3. PushType'
    BY <1>1, <1>2, <1>4, <2>1, <2>2 DEF PushType
  <2>4. ASSUME NEW m \in Viewers, NEW q \in Range(connections[m]) PROVE q \in Pipes /\ q # p
    <3>1. connections[m] \in Seq(Pipes)
      BY <1>1 DEF PushType
    <3>2. stream[q] = m
      BY <1>1, <2>4 DEF MembersOK, ListOK
    <3> QED BY <1>4, <3>1, <3>2, ViewersAssumption DEF ViewersAssumption, Range
  <2>5. \A m \in Viewers : ListOK(m)'
    BY <1>1, <1>2, <2>1, <2>4 DEF MembersOK, ListOK
  <2>6. MembersOK'
    BY <1>1, <2>1, <2>5 DEF MembersOK
  <2>7. ProgressOK'
    BY <1>1, <1>2, <1>4, <2>1, <2>2 DEF ProgressOK, PushType
  <2>8. OpenPipesAreRegistered'
    BY <1>1, <1>2, <1>4, <2>1 DEF OpenPipesAreRegistered
  <2> QED BY <2>3, <2>6, <2>7, <2>8 DEF PushIInv
<1> QED BY <1>3, <1>4 DEF Close

\* One more event makes the backlog one longer.
LEMMA BacklogGrows ==
  ASSUME NEW n \in Nat
  PROVE  Backlog(n) \in Seq(Nat) /\ Backlog(n + 1) \in Seq(Nat) /\ Append(Backlog(n), n + 1) = Backlog(n + 1)
<1>1. Backlog(n) \in Seq(Nat) /\ Len(Backlog(n)) = n
  BY DEF Backlog
<1>2. Backlog(n + 1) \in Seq(Nat) /\ Len(Backlog(n + 1)) = n + 1
  BY DEF Backlog
<1>3. \A i \in 1 .. n + 1 : Append(Backlog(n), n + 1)[i] = Backlog(n + 1)[i]
  BY <1>1 DEF Backlog
<1>4. Append(Backlog(n), n + 1) \in Seq(Nat) /\ Len(Append(Backlog(n), n + 1)) = n + 1
  BY <1>1
<1> QED BY <1>1, <1>2, <1>3, <1>4, SeqEqual

\* A new listener of the progress, whose replay goes through or throws.
LEMMA OpenProgressKeeps ==
  ASSUME PushIInv, NEW p \in Pipes, OpenProgress(p)
  PROVE  PushIInv'
<1>1. PushType /\ MembersOK /\ ProgressOK /\ OpenPipesAreRegistered
  BY DEF PushIInv
<1>2. PICK refused \in BOOLEAN :
        /\ pipe[p] = "unused"
        /\ pipe' = [pipe EXCEPT ![p] = IF refused THEN "gone" ELSE "open"]
        /\ stream' = [stream EXCEPT ![p] = "progress"]
        /\ listeners' = (IF refused THEN listeners ELSE listeners \union {p})
        /\ received' = [received EXCEPT ![p] = IF refused THEN <<>> ELSE Backlog(events)]
        /\ progressBeat' = IF Cardinality(listeners') = 1 THEN Started(progressBeat) ELSE progressBeat
        /\ UNCHANGED <<events, memberPush>>
  <2>1. PICK refused \in BOOLEAN :
          /\ pipe[p] = "unused"
          /\ pipe' = [pipe EXCEPT ![p] = IF refused THEN "gone" ELSE "open"]
          /\ stream' = [stream EXCEPT ![p] = "progress"]
          /\ listeners' = (IF refused THEN listeners ELSE listeners \union {p})
          /\ received' = [received EXCEPT ![p] = IF refused THEN <<>> ELSE Backlog(events)]
          /\ progressBeat' = IF Cardinality(IF refused THEN listeners ELSE listeners \union {p}) = 1
                              THEN Started(progressBeat) ELSE progressBeat
          /\ UNCHANGED <<events, memberPush>>
    BY Zenon DEF OpenProgress
  <2>2. progressBeat' = IF Cardinality(listeners') = 1 THEN Started(progressBeat) ELSE progressBeat
    BY <2>1
  <2> QED BY <2>1, <2>2
<1>3. /\ pipe' \in [Pipes -> PipeStates] /\ pipe'[p] = IF refused THEN "gone" ELSE "open"
      /\ \A q \in Pipes \ {p} : pipe'[q] = pipe[q]
  BY <1>1, <1>2 DEF PushType, PipeStates
<1>4. /\ stream' \in [Pipes -> Viewers \union {"progress", "none"}] /\ stream'[p] = "progress"
      /\ \A q \in Pipes \ {p} : stream'[q] = stream[q]
  BY <1>1, <1>2 DEF PushType
<1>5. /\ received' \in [Pipes -> Seq(Nat)] /\ (~refused => received'[p] = Backlog(events))
      /\ \A q \in Pipes \ {p} : received'[q] = received[q]
  <2>1. Backlog(events) \in Seq(Nat) /\ <<>> \in Seq(Nat)
    BY <1>1, BacklogGrows DEF PushType
  <2> QED BY <2>1, <1>1, <1>2 DEF PushType
<1>6. UNCHANGED <<connections, memberBeat, events>>
  BY <1>2 DEF memberPush
<1>7. /\ progressBeat' \in [intervals : Nat, handle : BOOLEAN] /\ (progressBeat'.handle => progressBeat'.intervals > 0)
      /\ listeners' # {} => progressBeat'.handle
  <2>1. CASE Cardinality(listeners') = 1
    BY <2>1, <1>1, <1>2 DEF PushType, Started
  <2>2. CASE Cardinality(listeners') # 1
    <3>1. listeners' # {} => listeners # {}
      BY <2>2, <1>2, FS_Singleton
    <3> QED BY <2>2, <3>1, <1>1, <1>2 DEF PushType, ProgressOK
  <2> QED BY <2>1, <2>2
<1>8. PushType'
  BY <1>1, <1>2, <1>3, <1>4, <1>5, <1>6, <1>7 DEF PushType
<1>9. ASSUME NEW m \in Viewers, NEW q \in Range(connections[m]) PROVE q \in Pipes /\ q # p
  <2>1. connections[m] \in Seq(Pipes)
    BY <1>1 DEF PushType
  <2>2. pipe[q] # "unused"
    BY <1>1, <1>9 DEF MembersOK, ListOK
  <2> QED BY <1>2, <2>1, <2>2 DEF Range
<1>10. \A m \in Viewers : ListOK(m)'
  BY <1>1, <1>3, <1>4, <1>6, <1>9 DEF MembersOK, ListOK
<1>11. MembersOK'
  BY <1>1, <1>6, <1>10 DEF MembersOK
<1>12. p \notin listeners /\ listeners \subseteq Pipes
  BY <1>1, <1>2 DEF ProgressOK, PushType
<1>13. ProgressOK'
  <2> SUFFICES ASSUME NEW q \in listeners'
               PROVE  stream'[q] = "progress" /\ pipe'[q] \in {"open", "gone"} /\ received'[q] = Backlog(events')
    BY <1>7 DEF ProgressOK
  <2>1. CASE q = p
    BY <2>1, <1>2, <1>3, <1>4, <1>5, <1>6, <1>12
  <2>2. CASE q # p
    BY <2>2, <1>1, <1>2, <1>3, <1>4, <1>5, <1>6, <1>12 DEF ProgressOK
  <2> QED BY <2>1, <2>2
<1>14. OpenPipesAreRegistered'
  BY <1>1, <1>2, <1>3, <1>4, <1>6 DEF OpenPipesAreRegistered
<1> QED BY <1>8, <1>11, <1>13, <1>14 DEF PushIInv

\* An event is pushed to the backlog and written to every listener; a write that throws
\* drops its listener, whose client has left.
LEMMA ProgressWritesKeep ==
  ASSUME PushIInv, EmitProgress \/ ProgressTick
  PROVE  PushIInv'
<1>1. PushType /\ MembersOK /\ ProgressOK /\ OpenPipesAreRegistered
  BY DEF PushIInv
<1>2. PICK failed \in MayThrow(listeners) : listeners' = listeners \ failed
  BY DEF EmitProgress, ProgressTick
<1>3. UNCHANGED <<pipe, stream, connections, memberBeat, progressBeat>>
  BY DEF EmitProgress, ProgressTick, memberPush
<1>4. /\ events' \in Nat /\ received' \in [Pipes -> Seq(Nat)]
      /\ \A p \in listeners' : received'[p] = Backlog(events')
  <2>1. CASE ProgressTick
    BY <2>1, <1>1, <1>2 DEF ProgressTick, PushType, ProgressOK
  <2>2. CASE EmitProgress
    <3>1. PICK lost \in MayThrow(listeners) :
            /\ events' = events + 1
            /\ received' = [p \in Pipes |-> IF p \in listeners \ lost THEN Append(received[p], events') ELSE received[p]]
            /\ listeners' = listeners \ lost
      BY <2>2 DEF EmitProgress
    <3>2. \A p \in Pipes : received[p] \in Seq(Nat) /\ Append(received[p], events') \in Seq(Nat)
      BY <1>1, <3>1 DEF PushType
    <3>3. \A p \in listeners' : p \in Pipes /\ received'[p] = Append(Backlog(events), events + 1)
      BY <1>1, <3>1 DEF PushType, ProgressOK
    <3>4. events' \in Nat /\ Append(Backlog(events), events + 1) = Backlog(events')
      <4>1. events \in Nat /\ events' = events + 1
        BY <1>1, <3>1 DEF PushType
      <4>2. Append(Backlog(events), events + 1) = Backlog(events + 1)
        BY <4>1, BacklogGrows
      <4>3. Append(Backlog(events), events + 1) = Backlog(events')
        BY <4>1, <4>2, Zenon
      <4> QED BY <4>1, <4>3
    <3>5. received' \in [Pipes -> Seq(Nat)]
      BY <1>1, <3>1, <3>2 DEF PushType
    <3>6. \A p \in listeners' : received'[p] = Backlog(events')
      BY <3>3, <3>4, Zenon
    <3> QED BY <3>4, <3>5, <3>6, Zenon
  <2> QED BY <2>1, <2>2
<1>5. PushType'
  BY <1>1, <1>2, <1>3, <1>4 DEF PushType
<1>6. \A m \in Viewers : ListOK(m)'
  BY <1>1, <1>3 DEF MembersOK, ListOK
<1>7. MembersOK'
  BY <1>1, <1>3, <1>6 DEF MembersOK
<1>8. ProgressOK'
  BY <1>1, <1>2, <1>3, <1>4 DEF ProgressOK
<1>9. OpenPipesAreRegistered'
  BY <1>1, <1>2, <1>3 DEF OpenPipesAreRegistered, MayThrow
<1> QED BY <1>5, <1>7, <1>8, <1>9 DEF PushIInv

\* The invariant holds before the first stream.
LEMMA PushStarts == PushInit => PushIInv
<1> SUFFICES ASSUME PushInit PROVE PushIInv
  OBVIOUS
<1>1. \A m \in Viewers : connections[m] = <<>> /\ Range(connections[m]) = {}
  BY DEF PushInit, Range
<1>2. Registered(connections) = {}
  BY <1>1, RegisteredPipes
<1>3. PushType
  BY DEF PushInit, PushType, PipeStates, NoBeat
<1>4. MembersOK
  <2>1. \A m \in Viewers : ListOK(m)
    <3> TAKE m \in Viewers
    <3>1. Len(connections[m]) = 0 /\ DOMAIN connections[m] = {}
      BY <1>1
    <3> QED BY <1>1, <3>1, PipeCapAssumption DEF PipeCapAssumption, ListOK, IsInjective
  <2>2. IsFiniteSet(Registered(connections)) /\ memberBeat = NoBeat
    BY <1>2, FS_EmptySet DEF PushInit
  <2> QED BY <1>2, <2>1, <2>2 DEF MembersOK
<1>5. ProgressOK /\ OpenPipesAreRegistered
  BY DEF PushInit, ProgressOK, OpenPipesAreRegistered, NoBeat
<1> QED BY <1>3, <1>4, <1>5 DEF PushIInv

\* Every step of the clients and of the two trackers preserves the invariant.
LEMMA PushKeeps == PushIInv /\ [PushNext]_pushVars => PushIInv'
<1> SUFFICES ASSUME PushIInv, [PushNext]_pushVars PROVE PushIInv'
  OBVIOUS
<1>1. CASE UNCHANGED pushVars
  <2>1. UNCHANGED <<pipe, stream, connections, memberBeat, listeners, events, received, progressBeat>>
    BY <1>1 DEF pushVars
  <2>2. PushType'
    BY <2>1 DEF PushIInv, PushType
  <2>3. \A m \in Viewers : ListOK(m)'
    BY <2>1 DEF PushIInv, MembersOK, ListOK
  <2> QED BY <2>1, <2>2, <2>3 DEF PushIInv, MembersOK, ProgressOK, OpenPipesAreRegistered
<1> QED BY <1>1, OpenNotificationsKeeps, OpenProgressKeeps, ClientLeavesKeeps, CloseKeeps, WriteNoticesKeeps,
           ProgressWritesKeep DEF PushNext

\* Every open tab of a Member is registered, at most PipeCap of them, exactly one heartbeat
\* runs while somebody is connected, and a listener of the progress has the whole backlog in
\* order, through any evictions, failed writes and late closes (member-notification-tracker.ts,
\* progress-tracker.ts, sse-bridge.ts).
THEOREM PipesServed == PushSpec => [](PushInv /\ PipesAreServed)
BY PushStarts, PushKeeps, PushImplies, PTL DEF PushSpec
=============================================================================
