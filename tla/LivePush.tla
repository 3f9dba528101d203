------------------------------ MODULE LivePush ------------------------------
(***************************************************************************)
(* The two server-sent event sinks of the web server, as one module: the   *)
(* progress tracker (one list, with a backlog replayed to every new        *)
(* listener) and the member notification tracker (one list per Member,     *)
(* capped, no backlog).  A pipe is one HTTP response.  The client may be   *)
(* gone for a while before the server hears "close"; a write to such a     *)
(* pipe may throw.  `intervals' counts the setInterval timers that run,    *)
(* `handle' says whether the tracker still holds one it can clear.         *)
(***************************************************************************)
EXTENDS Naturals, Sequences, FiniteSets, SequencesExt

CONSTANTS Viewers,      \* the Members who open the notification stream
          Pipes,        \* HTTP responses, each used once
          PipeCap,      \* MAX_CONNECTIONS_PER_MEMBER
          MaxEvents     \* bound: progress events emitted

\* With a cap of 1 every eviction would start another heartbeat.
ASSUME PipeCapAssumption == PipeCap \in Nat /\ PipeCap >= 2
ASSUME ViewersAssumption == Viewers \intersect {"progress", "none"} = {}
ASSUME MaxEventsAssumption == MaxEvents \in Nat

VARIABLES pipe,         \* pipe -> unused, open, gone (client left), ended (by the server), closed
          stream,       \* pipe -> the Member it serves, "progress", or "none"
          connections,  \* Member -> its registered pipes, oldest first
          memberBeat,   \* [intervals, handle] of the member tracker
          listeners,    \* the progress tracker's registered pipes
          events,       \* how many events its backlog holds
          received,     \* progress pipe -> the events written to it, in order
          progressBeat  \* [intervals, handle] of the progress tracker

pushVars == <<pipe, stream, connections, memberBeat, listeners, events, received, progressBeat>>
memberPush == <<connections, memberBeat>>
progressPush == <<listeners, events, received, progressBeat>>

NoBeat == [intervals |-> 0, handle |-> FALSE]
\* startHeartbeat overwrites the handle; stopHeartbeat clears what it holds.
Started(beat) == [intervals |-> beat.intervals + 1, handle |-> TRUE]
Stopped(beat) == IF beat.handle THEN [intervals |-> beat.intervals - 1, handle |-> FALSE] ELSE beat

Registered(lists) == UNION {Range(lists[m]) : m \in Viewers}
Backlog(n) == [i \in 1..n |-> i]

\* A write throws at most on the pipes whose client has left.
MayThrow(S) == SUBSET {p \in S : pipe[p] # "open"}

PushInit == /\ pipe = [p \in Pipes |-> "unused"]
            /\ stream = [p \in Pipes |-> "none"]
            /\ connections = [m \in Viewers |-> <<>>]
            /\ memberBeat = NoBeat
            /\ listeners = {}
            /\ events = 0
            /\ received = [p \in Pipes |-> <<>>]
            /\ progressBeat = NoBeat

------------------------------------------------------------------------------
(* MemberNotificationTracker.                                               *)

\* indexOf; a pipe is listed once.
IndexOf(list, p) == CHOOSE i \in DOMAIN list : list[i] = p

\* The bug a reader fears: splice(-1, 1) for a pipe that is no longer listed.
Without_LastIfAbsent(list, p) == IF p \in Range(list) THEN RemoveAt(list, IndexOf(list, p))
                                 ELSE IF list = <<>> THEN list ELSE Front(list)

Without(list, p) == IF p \in Range(list) THEN RemoveAt(list, IndexOf(list, p)) ELSE list

\* removeListener on the lists and the beat.
RemoveListener(m, p) ==
    LET lists == [connections EXCEPT ![m] = Without(@, p)]
    IN  /\ connections' = lists
        /\ memberBeat' = IF connections[m] # <<>> /\ Registered(lists) = {} THEN Stopped(memberBeat)
                         ELSE memberBeat

\* At the cap the oldest pipes are ended, then the new one is appended.
Kept(list) == IF Len(list) >= PipeCap THEN SubSeq(list, Len(list) - PipeCap + 2, Len(list)) ELSE list

OpenNotifications(m, p) ==
    LET kept == Kept(connections[m])
        lists == [connections EXCEPT ![m] = Append(kept, p)]
    IN  /\ pipe[p] = "unused"
        /\ connections' = lists
        /\ pipe' = [q \in Pipes |-> IF q = p THEN "open"
                                    ELSE IF q \in Range(connections[m]) \ Range(kept) THEN "ended"
                                    ELSE pipe[q]]
        /\ stream' = [stream EXCEPT ![p] = m]
        /\ memberBeat' = IF Cardinality(Registered(lists)) = 1 THEN Started(memberBeat) ELSE memberBeat
        /\ UNCHANGED progressPush

\* emit, and one tick of the heartbeat, write to the pipes of a Member, and remove
\* each one that throws before they go on.  Which ones throw is open, so that a loop
\* over several of them ends where as many of these steps do.
WriteNotices(m) == \E p \in Range(connections[m]) :
    /\ pipe[p] # "open"
    /\ RemoveListener(m, p)
    /\ UNCHANGED <<pipe, stream, progressPush>>

------------------------------------------------------------------------------
(* ProgressTracker.                                                         *)

\* addListener registers, replays the backlog (a write that throws drops the
\* pipe again), then starts a heartbeat if exactly one pipe is registered,
\* whoever that is.
OpenProgress(p) == \E refused \in BOOLEAN :
    LET now == IF refused THEN listeners ELSE listeners \union {p}
    IN  /\ pipe[p] = "unused"
        /\ refused => events > 0
        /\ pipe' = [pipe EXCEPT ![p] = IF refused THEN "gone" ELSE "open"]
        /\ stream' = [stream EXCEPT ![p] = "progress"]
        /\ listeners' = now
        /\ received' = [received EXCEPT ![p] = IF refused THEN <<>> ELSE Backlog(events)]
        /\ progressBeat' = IF Cardinality(now) = 1 THEN Started(progressBeat) ELSE progressBeat
        /\ UNCHANGED <<events, memberPush>>

\* emit pushes to the backlog and writes to all; it drops without touching
\* the heartbeat.
EmitProgress == \E failed \in MayThrow(listeners) :
    /\ events < MaxEvents
    /\ events' = events + 1
    /\ received' = [p \in Pipes |-> IF p \in listeners \ failed THEN Append(received[p], events')
                                    ELSE received[p]]
    /\ listeners' = listeners \ failed
    /\ UNCHANGED <<pipe, stream, progressBeat, memberPush>>

ProgressTick == \E failed \in MayThrow(listeners) :
    /\ failed # {}
    /\ progressBeat.intervals > 0
    /\ listeners' = listeners \ failed
    /\ UNCHANGED <<pipe, stream, events, received, progressBeat, memberPush>>

------------------------------------------------------------------------------
(* Clients, and the `close' that runs the cleanup of sse-bridge.            *)

ClientLeaves(p) == /\ pipe[p] = "open"
                   /\ pipe' = [pipe EXCEPT ![p] = "gone"]
                   /\ UNCHANGED <<stream, memberPush, progressPush>>

Close(p) == /\ pipe[p] \in {"gone", "ended"}
            /\ pipe' = [pipe EXCEPT ![p] = "closed"]
            /\ \/ /\ stream[p] = "progress"
                  /\ listeners' = listeners \ {p}
                  /\ progressBeat' = IF listeners' = {} THEN Stopped(progressBeat) ELSE progressBeat
                  /\ UNCHANGED <<events, received, memberPush>>
               \/ /\ stream[p] \in Viewers
                  /\ RemoveListener(stream[p], p)
                  /\ UNCHANGED progressPush
            /\ UNCHANGED stream

PushNext == \/ \E p \in Pipes, m \in Viewers : OpenNotifications(m, p)
            \/ \E p \in Pipes : OpenProgress(p) \/ ClientLeaves(p) \/ Close(p)
            \/ \E m \in Viewers : WriteNotices(m)
            \/ EmitProgress
            \/ ProgressTick

PushSpec == PushInit /\ [][PushNext]_pushVars

------------------------------------------------------------------------------
(* Properties.                                                              *)

\* Every pipe whose client is there and that the server has not ended is
\* registered, whatever evictions, failed writes and late closes happened to
\* the others (sse-bridge.ts, member-notification-tracker.ts:56-70): a notice
\* reaches every open tab of its Member, at most PipeCap of them.
OpenPipesAreRegistered ==
    \A p \in Pipes : pipe[p] = "open" =>
        \/ stream[p] = "progress" /\ p \in listeners
        \/ stream[p] \in Viewers /\ p \in Range(connections[stream[p]])

\* The member tracker runs one heartbeat while somebody is connected and none
\* otherwise.  The progress tracker runs at least one while somebody is
\* connected; it may keep more than it can clear.
HeartbeatsRun ==
    /\ memberBeat = IF Registered(connections) = {} THEN NoBeat ELSE Started(NoBeat)
    /\ listeners # {} => progressBeat.handle
    /\ progressBeat.handle => progressBeat.intervals > 0

PipesAreServed == OpenPipesAreRegistered /\ HeartbeatsRun

\* Every registered progress pipe was sent the whole backlog, in order and
\* once; the lists are within their cap and hold a pipe once.
PushInv == /\ pipe \in [Pipes -> {"unused", "open", "gone", "ended", "closed"}]
           /\ stream \in [Pipes -> Viewers \union {"progress", "none"}]
           /\ \A m \in Viewers : /\ Len(connections[m]) <= PipeCap
                                 /\ IsInjective(connections[m])
                                 /\ \A p \in Range(connections[m]) :
                                        stream[p] = m /\ pipe[p] \in {"open", "gone"}
           /\ \A p \in listeners : /\ stream[p] = "progress"
                                   /\ pipe[p] \in {"open", "gone"}
                                   /\ received[p] = Backlog(events)
=============================================================================
