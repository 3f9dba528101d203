---------------------------- MODULE ScheduleSync ----------------------------
(***************************************************************************)
(* The cron tasks of the worker against the table scrape_schedules.  The   *)
(* web role writes a row, commits, and only then publishes a snapshot of   *)
(* it; the worker loads the table once at its start, subscribes, and from  *)
(* then on knows what the notices tell.  Requests interleave between their *)
(* statements and their notices, and a notice finds the worker listening   *)
(* or is lost.  Whether the connection listens is decided by               *)
(* NotificationBus; here it is up or down.                                 *)
(***************************************************************************)
EXTENDS Naturals, FiniteSets

CONSTANTS
  Schedules,     \* ids of scrape_schedules, never used twice
  Edits,         \* slots for the requests in flight
  MaxVersions    \* bound on the writes of one row

ASSUME ScheduleAssumption ==
  /\ MaxVersions \in Nat \ {0}
  /\ "none" \notin Schedules

VARIABLES
  row,          \* the table: state and version of each row
  edit,         \* the requests in flight
  scheduler,    \* the worker's CronScheduler
  tasks,        \* the version registered for each schedule, 0 for none
  published,    \* the newest version published so far (history)
  missed        \* schedules whose last notice did not do its work (history)

scheduleVars == <<row, edit, scheduler, tasks, published, missed>>

\* An enabled row whose cron expression node-cron accepts or rejects, a disabled one.
RowStates == {"absent", "enabled", "invalid", "disabled", "deleted"}
Snapshot == [state : RowStates, version : 0 .. MaxVersions]
NoEdit == [pc |-> "idle", schedule |-> "none", snap |-> [state |-> "absent", version |-> 0]]
Known(s) == row[s].state \notin {"absent", "deleted"}

ScheduleTypeOK ==
  /\ row \in [Schedules -> Snapshot]
  /\ edit \in [Edits -> [pc : {"idle", "loaded", "written"},
                         schedule : Schedules \cup {"none"}, snap : Snapshot]]
  /\ scheduler \in {"down", "loaded", "listening", "deaf"}
  /\ tasks \in [Schedules -> 0 .. MaxVersions]
  /\ published \in [Schedules -> 0 .. MaxVersions]
  /\ missed \subseteq Schedules

ScheduleInit ==
  /\ row = [s \in Schedules |-> [state |-> "absent", version |-> 0]]
  /\ edit = [e \in Edits |-> NoEdit]
  /\ scheduler = "down"
  /\ tasks = [s \in Schedules |-> 0]
  /\ published = [s \in Schedules |-> 0]
  /\ missed = {}

-----------------------------------------------------------------------------
(* The web role.                                                           *)

\* The row is written, and the snapshot waits for its publication.
Write(e, s, new) ==
  /\ row' = [row EXCEPT ![s] = new]
  /\ edit' = [edit EXCEPT ![e] = [pc |-> "written", schedule |-> s, snap |-> new]]
  /\ UNCHANGED <<scheduler, tasks, published, missed>>

Bumped(s, state) == [state |-> state, version |-> row[s].version + 1]

CreateSchedule(e, s, state) ==
  /\ edit[e].pc = "idle"
  /\ row[s].state = "absent"
  /\ state \in {"enabled", "invalid", "disabled"}
  /\ Write(e, s, Bumped(s, state))

\* The row was found: an update or a deletion goes on.
LoadSchedule(e, s) ==
  /\ edit[e].pc = "idle"
  /\ Known(s)
  /\ edit' = [edit EXCEPT ![e].pc = "loaded", ![e].schedule = s]
  /\ UNCHANGED <<row, scheduler, tasks, published, missed>>

\* An update that finds the row deleted meanwhile publishes no snapshot at all,
\* which the worker reads like a deletion.
UpdateSchedule(e, state) ==
  LET s == edit[e].schedule IN
  /\ edit[e].pc = "loaded"
  /\ state \in {"enabled", "invalid", "disabled"}
  /\ row[s].version < MaxVersions
  /\ Write(e, s, IF Known(s) THEN Bumped(s, state) ELSE row[s])

DeleteSchedule(e) ==
  LET s == edit[e].schedule IN
  /\ edit[e].pc = "loaded"
  /\ row[s].version < MaxVersions
  /\ Write(e, s, IF Known(s) THEN Bumped(s, "deleted") ELSE row[s])

-----------------------------------------------------------------------------
(* The notice.                                                             *)

\* handleScheduleChange that leaves the task of a disabled schedule running.
Handled_KeepsDisabled(old, snap) ==
  IF snap.state = "enabled" THEN snap.version
  ELSE IF snap.state = "disabled" THEN old ELSE 0

\* handleScheduleChange: unregister, then register what is enabled and valid.
Handled(old, snap) == IF snap.state = "enabled" THEN snap.version ELSE 0

\* The newest version published for s, this one included.
Newest(e) ==
  LET s == edit[e].schedule IN
  IF published[s] > edit[e].snap.version THEN published[s] ELSE edit[e].snap.version

\* A notice handled in the order of the writes repairs what was missed; one that
\* comes after a newer one takes the schedule back.
Publish(e) ==
  LET s == edit[e].schedule IN
  /\ edit[e].pc = "written"
  /\ published' = [published EXCEPT ![s] = Newest(e)]
  /\ IF scheduler = "listening"
       THEN /\ tasks' = [tasks EXCEPT ![s] = Handled(@, edit[e].snap)]
            /\ missed' = IF Newest(e) = edit[e].snap.version THEN missed \ {s} ELSE missed \cup {s}
       ELSE /\ UNCHANGED tasks
            /\ missed' = missed \cup {s}
  /\ edit' = [edit EXCEPT ![e] = NoEdit]
  /\ UNCHANGED <<row, scheduler>>

\* A publication that fails is only logged, and a crash of the web role never makes it.
PublishLost(e) ==
  LET s == edit[e].schedule IN
  /\ edit[e].pc = "written"
  /\ published' = [published EXCEPT ![s] = Newest(e)]
  /\ missed' = missed \cup {s}
  /\ edit' = [edit EXCEPT ![e] = NoEdit]
  /\ UNCHANGED <<row, scheduler, tasks>>

-----------------------------------------------------------------------------
(* The worker.                                                             *)

\* loadInitial; a failure leaves no task.
LoadTasks ==
  /\ scheduler = "down"
  /\ scheduler' = "loaded"
  /\ \/ /\ tasks' = [s \in Schedules |-> Handled(0, row[s])]
        /\ missed' = {}
     \/ /\ UNCHANGED tasks
        /\ missed' = Schedules
  /\ UNCHANGED <<row, edit, published>>

SubscribeChanges ==
  /\ scheduler = "loaded"
  /\ scheduler' \in {"listening", "deaf"}
  /\ UNCHANGED <<row, edit, tasks, published, missed>>

\* The bus loses its connection or restores it; nothing is loaded again.
ListenerToggles ==
  /\ scheduler \in {"listening", "deaf"}
  /\ scheduler' = IF scheduler = "deaf" THEN "listening" ELSE "deaf"
  /\ UNCHANGED <<row, edit, tasks, published, missed>>

WorkerStops ==
  /\ scheduler # "down"
  /\ scheduler' = "down"
  /\ tasks' = [s \in Schedules |-> 0]
  /\ UNCHANGED <<row, edit, published, missed>>

ScheduleNext ==
  \/ \E e \in Edits, s \in Schedules, state \in RowStates : CreateSchedule(e, s, state)
  \/ \E e \in Edits, s \in Schedules : LoadSchedule(e, s)
  \/ \E e \in Edits, state \in RowStates : UpdateSchedule(e, state)
  \/ \E e \in Edits : DeleteSchedule(e) \/ Publish(e) \/ PublishLost(e)
  \/ LoadTasks
  \/ SubscribeChanges
  \/ ListenerToggles
  \/ WorkerStops

ScheduleSpec == ScheduleInit /\ [][ScheduleNext]_scheduleVars

-----------------------------------------------------------------------------
(* Properties.                                                             *)

\* A running worker fires exactly the enabled schedules, each by its last cron
\* expression, unless a request is between its write and its notice, or the last
\* notice of the schedule was lost, overtaken by an older one, or came between the
\* load of the table and the subscription; the next notice in order repairs it.
TasksFollowTable ==
  scheduler # "down" =>
    \A s \in Schedules \ missed :
      (\A e \in Edits : ~(edit[e].pc = "written" /\ edit[e].schedule = s)) =>
        tasks[s] = Handled(0, row[s])

\* A request carries the newest version of the row to its publication.
OnItsWay(s) ==
  \E e \in Edits : edit[e].pc = "written" /\ edit[e].schedule = s /\ edit[e].snap.version = row[s].version

\* What is published or about to be is no newer than the table, and the newest
\* version is one or the other.
ScheduleInv ==
  /\ ScheduleTypeOK
  /\ \A e \in Edits :
       /\ edit[e].pc = "idle" <=> edit[e].schedule = "none"
       /\ edit[e].pc = "written" =>
            /\ edit[e].snap.version <= row[edit[e].schedule].version
            /\ edit[e].snap.version = row[edit[e].schedule].version =>
                 edit[e].snap = row[edit[e].schedule]
  /\ \A s \in Schedules :
       /\ row[s].state = "absent" => row[s].version = 0
       /\ published[s] <= row[s].version
       /\ published[s] = row[s].version \/ OnItsWay(s)
       /\ scheduler # "down" /\ s \notin missed => tasks[s] = Handled(0, row[s]) \/ OnItsWay(s)
=============================================================================
