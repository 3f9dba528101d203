-------------------------- MODULE NotificationBus --------------------------
(***************************************************************************)
(* The listening side of BasePostgresNotificationBus in one process: one   *)
(* connection, opened by the first subscription and again by a timer after *)
(* a loss, and LISTEN for every channel with a handler.  The methods       *)
(* interleave where they await: several subscriptions and the timer may    *)
(* wait for one connection attempt.                                        *)
(***************************************************************************)
EXTENDS Naturals, FiniteSets

CONSTANTS
  Channels,      \* the notification channels
  MaxClients     \* bound on the connections ever opened

ASSUME BusAssumption == MaxClients \in Nat

VARIABLES
  current,       \* this.client, 0 for null
  connecting,    \* the client of this.connecting, 0 for none
  clients,       \* every client created: where it stands, what it listens to
  opened,        \* how many clients were created
  timer,         \* reconnectTimer is set
  awaited,       \* the timer's callback waits for the connection attempt
  handlers,      \* the channels with a handler
  subscriber,    \* subscribe(), channel by channel
  pending,       \* the LISTENs that subscriptions sent, and on which client
  stopped        \* disconnect() was called

busVars == <<current, connecting, clients, opened, timer, awaited, handlers, subscriber, pending, stopped>>

Client == 1 .. MaxClients

BusTypeOK ==
  /\ current \in 0 .. MaxClients
  /\ connecting \in 0 .. MaxClients
  /\ clients \in [Client -> [pc : {"none", "opening", "restoring", "ready", "closed"},
                             hears : SUBSET Channels]]
  /\ opened \in 0 .. MaxClients
  /\ timer \in BOOLEAN
  /\ awaited \in BOOLEAN
  /\ handlers \subseteq Channels
  /\ subscriber \in [Channels -> {"none", "connecting", "done"}]
  /\ pending \subseteq Client \X Channels
  /\ stopped \in BOOLEAN

BusInit ==
  /\ current = 0
  /\ connecting = 0
  /\ clients = [k \in Client |-> [pc |-> "none", hears |-> {}]]
  /\ opened = 0
  /\ timer = FALSE
  /\ awaited = FALSE
  /\ handlers = {}
  /\ subscriber = [ch \in Channels |-> "none"]
  /\ pending = {}
  /\ stopped = FALSE

-----------------------------------------------------------------------------
\* scheduleReconnect: the timer after it.
Reconnect == timer \/ (~stopped /\ handlers # {})

\* connect(): join the attempt in flight, or create a client.
Connect ==
  IF connecting # 0
    THEN UNCHANGED <<connecting, clients, opened>>
    ELSE /\ opened < MaxClients
         /\ opened' = opened + 1
         /\ connecting' = opened + 1
         /\ clients' = [clients EXCEPT ![opened + 1].pc = "opening"]

\* The handler is registered at once; then a connection, or LISTEN on the one there is.
Subscribe(ch) ==
  /\ subscriber[ch] = "none"
  /\ handlers' = handlers \cup {ch}
  /\ IF current = 0
       THEN /\ Connect
            /\ subscriber' = [subscriber EXCEPT ![ch] = "connecting"]
            /\ UNCHANGED pending
       ELSE /\ subscriber' = [subscriber EXCEPT ![ch] = "done"]
            /\ pending' = pending \cup {<<current, ch>>}
            /\ UNCHANGED <<connecting, clients, opened>>
  /\ UNCHANGED <<current, timer, awaited, stopped>>

\* The connection is established, and this.client from then on.
Connected(k) ==
  /\ clients[k].pc = "opening"
  /\ clients' = [clients EXCEPT ![k].pc = "restoring"]
  /\ current' = k
  /\ UNCHANGED <<connecting, opened, timer, awaited, handlers, subscriber, pending, stopped>>

\* The attempt ends for those who wait for it: a subscription sends its LISTEN if
\* there is a client then; what was sent on a client that is lost is rejected.
AttemptEnds(cl, lost) ==
  LET waiting == {ch \in Channels : subscriber[ch] = "connecting"} IN
  /\ connecting' = 0
  /\ awaited' = FALSE
  /\ subscriber' = [ch \in Channels |-> IF ch \in waiting THEN "done" ELSE subscriber[ch]]
  /\ pending' = {l \in pending : l[1] # lost} \cup (IF cl = 0 THEN {} ELSE {cl} \X waiting)

AttemptGoesOn(lost) ==
  /\ pending' = {l \in pending : l[1] # lost}
  /\ UNCHANGED <<connecting, awaited, subscriber>>

\* LISTEN for one more channel of the handlers, those added meanwhile included.
Restore(k, ch) ==
  /\ clients[k].pc = "restoring"
  /\ ch \in handlers \ clients[k].hears
  /\ clients' = [clients EXCEPT ![k].hears = @ \cup {ch}]
  /\ UNCHANGED <<current, connecting, opened, timer, awaited, handlers, subscriber, pending, stopped>>

\* The attempt is over once no handler is left to listen for.
ToRestore(k) == handlers \ clients[k].hears

Restored(k) ==
  /\ clients[k].pc = "restoring"
  /\ ToRestore(k) = {}
  /\ clients' = [clients EXCEPT ![k].pc = "ready"]
  /\ AttemptEnds(current, 0)
  /\ UNCHANGED <<current, opened, timer, handlers, stopped>>

\* A timer that gives up after one failure.
Retry_Once == timer

\* The attempt failed: each of those who wait schedules a reconnection.
Retry == IF awaited \/ \E ch \in Channels : subscriber[ch] = "connecting" THEN Reconnect ELSE timer

ConnectFails(k) ==
  /\ clients[k].pc = "opening"
  /\ clients' = [clients EXCEPT ![k].pc = "closed"]
  /\ AttemptEnds(current, k)
  /\ timer' = Retry
  /\ UNCHANGED <<current, opened, handlers, stopped>>

\* The error event of an established connection, whether it is this.client or not.
\* A LISTEN of the attempt under way is rejected with it.
ConnectionLost(k) ==
  /\ clients[k].pc \in {"restoring", "ready"}
  /\ clients' = [clients EXCEPT ![k] = [pc |-> "closed", hears |-> {}]]
  /\ current' = IF current = k THEN 0 ELSE current
  /\ timer' = Reconnect
  /\ IF connecting = k THEN AttemptEnds(current', k) ELSE AttemptGoesOn(k)
  /\ UNCHANGED <<opened, handlers, stopped>>

\* The LISTEN of a subscription runs on the client it was sent on.
Listen(k, ch) ==
  /\ <<k, ch>> \in pending
  /\ pending' = pending \ {<<k, ch>>}
  /\ clients' = [clients EXCEPT ![k].hears = @ \cup {ch}]
  /\ UNCHANGED <<current, connecting, opened, timer, awaited, handlers, subscriber, stopped>>

TimerFires ==
  /\ timer
  /\ timer' = FALSE
  /\ awaited' = TRUE
  /\ Connect
  /\ UNCHANGED <<current, handlers, subscriber, pending, stopped>>

\* Shutdown closes the current client; an attempt in flight goes on.
Disconnect ==
  /\ ~stopped
  /\ stopped' = TRUE
  /\ timer' = FALSE
  /\ current' = 0
  /\ clients' = [k \in Client |->
       IF k = current THEN [pc |-> "closed", hears |-> {}] ELSE clients[k]]
  /\ IF connecting # 0 /\ connecting = current THEN AttemptEnds(0, current)
                                               ELSE AttemptGoesOn(current)
  /\ UNCHANGED <<opened, handlers>>

BusNext ==
  \/ \E ch \in Channels : Subscribe(ch)
  \/ \E k \in Client :
       \/ Connected(k)
       \/ \E ch \in Channels : Restore(k, ch) \/ Listen(k, ch)
       \/ Restored(k)
       \/ ConnectFails(k)
       \/ ConnectionLost(k)
  \/ TimerFires
  \/ Disconnect

BusSpec == BusInit /\ [][BusNext]_busVars

-----------------------------------------------------------------------------
(* Properties.                                                             *)

\* A process with handlers is never deaf for good: until it is told to stop it has a
\* connection, an attempt in flight or a timer that starts one, through failed
\* attempts and losses at any of their steps; and a connection in rest listens to
\* every channel that has a handler.
NeverDeaf ==
  ~stopped /\ handlers # {} =>
    /\ current # 0 \/ connecting # 0 \/ timer
    /\ current # 0 /\ connecting = 0 =>
         \A ch \in handlers : ch \in clients[current].hears \/ <<current, ch>> \in pending

\* Where the attempt in flight stands, and who waits for it.
AttemptKnown ==
  /\ connecting # 0 =>
       /\ clients[connecting].pc \in {"opening", "restoring"}
       /\ clients[connecting].pc = "restoring" => current = connecting
       /\ awaited \/ \E ch \in Channels : subscriber[ch] = "connecting"
  /\ \A k \in Client : clients[k].pc \in {"opening", "restoring"} => connecting = k
  /\ \A k \in Client : k > opened => clients[k].pc = "none"

WaitersKnown ==
  /\ \A ch \in Channels : subscriber[ch] = "none" <=> ch \notin handlers
  /\ \A ch \in Channels : subscriber[ch] = "connecting" => connecting # 0
  /\ awaited => connecting # 0

\* What the current connection hears once its channels are restored, also while
\* another attempt is in flight.
CurrentHears ==
  /\ current # 0 => clients[current].pc \in {"restoring", "ready"}
  /\ current # 0 /\ clients[current].pc = "ready" =>
       \A ch \in handlers : ch \in clients[current].hears \/ <<current, ch>> \in pending
  /\ \A l \in pending : clients[l[1]].pc \in {"restoring", "ready"} /\ l[2] \in handlers

BusInv == BusTypeOK /\ NeverDeaf /\ AttemptKnown /\ WaitersKnown /\ CurrentHears
=============================================================================
