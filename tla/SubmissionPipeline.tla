------------------------- MODULE SubmissionPipeline -------------------------
(***************************************************************************)
(* The TheaterSubmission pipeline: a Member submits the URL of a cinema,   *)
(* the web role records an attempt and queues an add_theater job, a worker *)
(* claims the job and scrapes, and a resolver of the web role writes the   *)
(* attempt's terminal status, adds the Theater to the submitter's          *)
(* Selection and publishes a notice.                                       *)
(*                                                                         *)
(* Every shared variable is a table of the one Postgres database.  The     *)
(* processes are the HTTP handlers that run SubmissionService.submit       *)
(* (Clients), the worker role (Workers) and the concurrent runs of         *)
(* SubmissionResolutionService, live or swept (Resolvers).  An action is   *)
(* one statement, or one transaction whose rows stay locked between its    *)
(* statements: the row locks that outlive an action are derived from the   *)
(* program counters (MemberLocked, TheaterLocked).                         *)
(***************************************************************************)
EXTENDS Integers, FiniteSets

CONSTANTS
  Members,          \* users rows with the member role
  Theaters,         \* theater ids; a URL is named by the id it carries
  Clients,          \* HTTP handlers running submit or a Selection add
  Workers,          \* worker processes
  Resolvers,        \* concurrent runs of the resolution routine
  None,             \* SQL NULL / no value
  MaxReports,       \* bound: reports (hence jobs and attempts) ever created
  ThrottleMax,      \* submissionThrottleMax()
  SelectionQuota,   \* the Entitlement quota
  MaxCrashes,       \* bound: process crashes
  FaultyWrites,     \* TRUE: a worker's report update may fail
  Outside           \* which acts of people and of the environment take part

ASSUME ConstantsAssumption ==
  /\ IsFiniteSet(Members) /\ IsFiniteSet(Theaters)
  /\ None \notin Members \cup Theaters
  /\ MaxReports \in Nat /\ MaxCrashes \in Nat
  /\ ThrottleMax \in Nat /\ SelectionQuota \in Nat
  /\ FaultyWrites \in BOOLEAN
  /\ Outside \subseteq {"add", "edit", "delete", "scrape", "select", "suspend",
                        "erase", "lose", "slide"}

VARIABLES
  member,       \* lifecycle status of each users row
  catalog,      \* theaters.status, "absent" when there is no row
  storedUrl,    \* theaters.url
  placeholder,  \* theaters whose name is still their id
  report,       \* scrape_reports rows: status and age of claimed_at
  job,          \* the payload queued with each report
  queue,        \* scrape_jobs rows, by report id
  sub,          \* theater_submissions rows, by report id
  window,       \* attempts created inside the throttle window
  selection,    \* member_selections rows
  client,       \* handler state
  worker,       \* worker state
  events,       \* terminal progress notifications in flight
  resolver,     \* resolution runs
  notices,      \* notices published, per attempt
  crashes       \* crashes so far

catalogVars == <<catalog, storedUrl, placeholder>>
jobVars     == <<report, job, queue>>
subVars     == <<sub, window>>
procVars    == <<client, worker, resolver>>
vars == <<member, catalogVars, jobVars, subVars, selection, procVars, events,
          notices, crashes>>

Reports == 1..MaxReports

SubStatus      == {"none", "pending", "succeeded", "failed"}
TerminalReport == {"success", "failed"}

NoAttempt == [status |-> "none", member |-> None, theater |-> None]
NoReport  == [status |-> "none", claim |-> "null"]
NoJob     == [kind |-> "none", target |-> None]
IdleClient   == [pc |-> "idle", member |-> None, theater |-> None, retry |-> FALSE]
IdleWorker   == [pc |-> "idle", report |-> 0, url |-> None]
IdleResolver == [pc |-> "idle", report |-> 0, ok |-> FALSE]

(***************************************************************************)
(* A fresh database: verified and unverified Members, an empty catalog.    *)
(***************************************************************************)
Init ==
  /\ member \in [Members -> {"unverified", "active"}]
  /\ catalog     = [th \in Theaters |-> "absent"]
  /\ storedUrl   = [th \in Theaters |-> None]
  /\ placeholder = {}
  /\ report    = [r \in Reports |-> NoReport]
  /\ job       = [r \in Reports |-> NoJob]
  /\ queue     = {}
  /\ sub       = [r \in Reports |-> NoAttempt]
  /\ window    = {}
  /\ selection = [m \in Members |-> {}]
  /\ client    = [c \in Clients |-> IdleClient]
  /\ worker    = [w \in Workers |-> IdleWorker]
  /\ events    = {}
  /\ resolver  = [v \in Resolvers |-> IdleResolver]
  /\ notices   = [r \in Reports |-> 0]
  /\ crashes   = 0

-----------------------------------------------------------------------------
(***************************************************************************)
(* Row locks held across the statements of the submit transaction.         *)
(***************************************************************************)

\* Mutant: the users row is read without FOR UPDATE.
MemberLocked_None(m) == FALSE

\* The users row is held from lockMemberForSubmission to the commit.
MemberLocked(m) ==
  \E c \in Clients : client[c].pc \in {"locked", "insert"} /\ client[c].member = m

\* Mutant: the theaters row is read without FOR UPDATE.
TheaterLocked_None(th) == FALSE

\* The theaters row is held from lockTheaterForSubmission to the commit; a row
\* that does not exist yet cannot be locked.
TheaterLocked(th) ==
  \E c \in Clients : client[c].pc = "insert" /\ client[c].retry /\ client[c].theater = th

(***************************************************************************)
(* Queries.                                                                *)
(***************************************************************************)

Attempts(th)  == {r \in Reports : sub[r].status # "none" /\ sub[r].theater = th}
Pending(th)   == {r \in Attempts(th) : sub[r].status = "pending"}
Retryable(th) == Attempts(th) # {} /\ Pending(th) = {}

Recent(m) == {r \in window : sub[r].status # "none" /\ sub[r].member = m}
BelowThrottle(m) == Cardinality(Recent(m)) < ThrottleMax

\* The next id of the scrape_reports sequence.
Fresh(r) == /\ report[r].status = "none"
            /\ \A q \in Reports : q < r => report[q].status # "none"

\* assertMemberEligible, and the verification gate of the transaction.
Eligible(m) == member[m] \in {"unverified", "active"}

MaySubmit(m) == member[m] = "active"

\* Mutant: only the Member is checked before a Selection add.
MayChoose_Any(m, th) == member[m] # "erased"
MayChoose(m, th) == member[m] # "erased" /\ catalog[th] = "active"

\* Mutant: the quota test lets one choice too many in.
SelectionAfterAdd_OneMore(m, th) ==
  IF Cardinality(selection[m]) > SelectionQuota
  THEN selection
  ELSE [selection EXCEPT ![m] = @ \cup {th}]

\* Selection add policy while billing is disabled: every stored choice is
\* active, so quota and choice bound coincide.
SelectionAfterAdd(m, th) ==
  IF th \in selection[m] \/ Cardinality(selection[m]) >= SelectionQuota
  THEN selection
  ELSE [selection EXCEPT ![m] = @ \cup {th}]

(***************************************************************************)
(* createScrapeReport and the queue insert, on the caller's transaction.   *)
(***************************************************************************)
EnqueueJob(r, kind, target) ==
  /\ report' = [report EXCEPT ![r] = [status |-> "running", claim |-> "null"]]
  /\ job'    = [job EXCEPT ![r] = [kind |-> kind, target |-> target]]
  /\ queue'  = queue \cup {r}

InsertTheater(th, url, named) ==
  /\ catalog'     = [catalog EXCEPT ![th] = "provisioning"]
  /\ storedUrl'   = [storedUrl EXCEPT ![th] = url]
  /\ placeholder' = IF named THEN placeholder \ {th} ELSE placeholder \cup {th}

\* ON DELETE CASCADE of theater_submissions.
WithoutAttempts(gone) == [r \in Reports |-> IF r \in gone THEN NoAttempt ELSE sub[r]]

-----------------------------------------------------------------------------
(***************************************************************************)
(* Members: the handlers of POST /api/me/submissions and of the Selection. *)
(***************************************************************************)

\* submit: the read-only pre-gate, then the dedup fast path.
SubmitBegin(c, m, th) ==
  /\ client[c].pc = "idle" /\ Eligible(m)
  /\ client' = [client EXCEPT ![c] =
       [pc |-> IF catalog[th] = "active" THEN "add" ELSE "begin",
        member |-> m, theater |-> th, retry |-> FALSE]]
  /\ UNCHANGED <<member, catalogVars, jobVars, subVars, selection, worker, resolver,
                 events, notices, crashes>>

\* The Selection route: requireMember, then SelectionService.add.
SelectBegin(c, m, th) ==
  /\ "select" \in Outside
  /\ client[c].pc = "idle" /\ Eligible(m)
  /\ client' = [client EXCEPT ![c] =
       [pc |-> "add", member |-> m, theater |-> th, retry |-> FALSE]]
  /\ UNCHANGED <<member, catalogVars, jobVars, subVars, selection, worker, resolver,
                 events, notices, crashes>>

\* lockMemberForSubmission with the authoritative eligibility and verification
\* gate; a refusal ends the transaction.
LockMember(c) ==
  /\ client[c].pc = "begin" /\ ~MemberLocked(client[c].member)
  /\ client' = [client EXCEPT ![c] =
       IF MaySubmit(client[c].member) THEN [@ EXCEPT !.pc = "locked"] ELSE IdleClient]
  /\ UNCHANGED <<member, catalogVars, jobVars, subVars, selection, worker, resolver,
                 events, notices, crashes>>

\* lockTheaterForSubmission, the retry rule and the throttle.  An active row
\* degrades to the Selection add after this transaction.
DecideAttempt(c) ==
  LET m  == client[c].member
      th == client[c].theater
  IN
  /\ client[c].pc = "locked" /\ ~TheaterLocked(th)
  /\ client' = [client EXCEPT ![c] =
       IF catalog[th] = "active" THEN [@ EXCEPT !.pc = "add"]
       ELSE IF BelowThrottle(m) /\ (catalog[th] = "absent" \/ Retryable(th))
            THEN [@ EXCEPT !.pc = "insert", !.retry = (catalog[th] # "absent")]
            ELSE IdleClient]
  /\ UNCHANGED <<member, catalogVars, jobVars, subVars, selection, worker, resolver,
                 events, notices, crashes>>

\* The writes and the commit.  A new Theater whose id appeared meanwhile is a
\* unique violation: the transaction rolls back with a conflict.
InsertAttempt(c, r) ==
  LET m  == client[c].member
      th == client[c].theater
  IN
  /\ client[c].pc = "insert" /\ Fresh(r)
  /\ client' = [client EXCEPT ![c] = IdleClient]
  /\ \/ /\ client[c].retry
        /\ EnqueueJob(r, "add_theater", storedUrl[th])
        /\ UNCHANGED catalogVars
     \/ /\ ~client[c].retry /\ catalog[th] = "absent"
        /\ InsertTheater(th, th, FALSE)
        /\ EnqueueJob(r, "add_theater", th)
  /\ sub'    = [sub EXCEPT ![r] = [status |-> "pending", member |-> m, theater |-> th]]
  /\ window' = window \cup {r}
  /\ UNCHANGED <<member, selection, worker, resolver, events, notices, crashes>>

\* The conflict above, or any statement failing, or the connection dropping.
ClientAbort(c) ==
  /\ client[c].pc # "idle"
  /\ client' = [client EXCEPT ![c] = IdleClient]
  /\ UNCHANGED <<member, catalogVars, jobVars, subVars, selection, worker, resolver,
                 events, notices, crashes>>

\* SelectionService.add: one transaction under the Member lock.
AddToSelection(c) ==
  LET m  == client[c].member
      th == client[c].theater
  IN
  /\ client[c].pc = "add" /\ ~MemberLocked(m)
  /\ selection' = IF MayChoose(m, th)
                  THEN SelectionAfterAdd(m, th) ELSE selection
  /\ client' = [client EXCEPT ![c] = IdleClient]
  /\ UNCHANGED <<member, catalogVars, jobVars, subVars, worker, resolver, events,
                 notices, crashes>>

\* SelectionService.remove takes no Member lock.
RemoveFromSelection(m, th) ==
  /\ "select" \in Outside
  /\ th \in selection[m]
  /\ selection' = [selection EXCEPT ![m] = @ \ {th}]
  /\ UNCHANGED <<member, catalogVars, jobVars, subVars, procVars, events, notices,
                 crashes>>

-----------------------------------------------------------------------------
(***************************************************************************)
(* Member lifecycle: each is one transaction that locks the users row.     *)
(***************************************************************************)

SetMemberStatus(m, from, to) ==
  /\ member[m] \in from /\ ~MemberLocked(m)
  /\ member' = [member EXCEPT ![m] = to]

VerifyEmail(m) ==
  /\ SetMemberStatus(m, {"unverified"}, "active")
  /\ UNCHANGED <<catalogVars, jobVars, subVars, selection, procVars, events, notices,
                 crashes>>

Suspend(m) ==
  /\ "suspend" \in Outside
  /\ SetMemberStatus(m, {"active"}, "suspended")
  /\ UNCHANGED <<catalogVars, jobVars, subVars, selection, procVars, events, notices,
                 crashes>>

Reinstate(m) ==
  /\ SetMemberStatus(m, {"suspended"}, "active")
  /\ UNCHANGED <<catalogVars, jobVars, subVars, selection, procVars, events, notices,
                 crashes>>

\* Self-erasure (not while suspended) or deletion by an Admin: the attempts and
\* the Selection cascade, the Theaters stay.
Erase(m) ==
  /\ "erase" \in Outside
  /\ SetMemberStatus(m, {"unverified", "active", "suspended"}, "erased")
  /\ sub' = WithoutAttempts({r \in Reports : sub[r].member = m})
  /\ selection' = [selection EXCEPT ![m] = {}]
  /\ UNCHANGED <<catalogVars, jobVars, window, procVars, events, notices, crashes>>

-----------------------------------------------------------------------------
(***************************************************************************)
(* Staff.                                                                  *)
(***************************************************************************)

\* addTheaterViaUrl (id and URL agree, the name is the id) or addTheaterManual
\* (any URL, a typed name).
StaffAdd(r, th, url, named) ==
  /\ "add" \in Outside /\ Fresh(r)
  /\ catalog[th] = "absent" /\ (url = th \/ named)
  /\ InsertTheater(th, url, named)
  /\ EnqueueJob(r, "add_theater", url)
  /\ UNCHANGED <<member, subVars, selection, procVars, events, notices, crashes>>

\* updateTheater on the URL.
StaffEdit(th, url) ==
  /\ "edit" \in Outside
  /\ catalog[th] # "absent" /\ ~TheaterLocked(th)
  /\ storedUrl' = [storedUrl EXCEPT ![th] = url]
  /\ UNCHANGED <<member, catalog, placeholder, jobVars, subVars, selection, procVars,
                 events, notices, crashes>>

\* deleteTheater: attempts and Selection choices cascade; jobs and reports stay.
StaffDelete(th) ==
  /\ "delete" \in Outside
  /\ catalog[th] # "absent" /\ ~TheaterLocked(th)
  /\ catalog'     = [catalog EXCEPT ![th] = "absent"]
  /\ storedUrl'   = [storedUrl EXCEPT ![th] = None]
  /\ placeholder' = placeholder \ {th}
  /\ sub' = WithoutAttempts(Attempts(th))
  /\ selection' = [m \in Members |-> selection[m] \ {th}]
  /\ UNCHANGED <<member, jobVars, window, procVars, events, notices, crashes>>

\* triggerScrape for one Theater, whatever its status.
StaffScrape(r, th) ==
  /\ "scrape" \in Outside /\ Fresh(r)
  /\ catalog[th] # "absent"
  /\ EnqueueJob(r, "scrape", th)
  /\ UNCHANGED <<member, catalogVars, subVars, selection, procVars, events, notices,
                 crashes>>

-----------------------------------------------------------------------------
(***************************************************************************)
(* The worker role: PgJobConsumer.start and executeJob.                    *)
(***************************************************************************)

WorkerAt(w, pc) == worker[w].pc = pc
Target(w) == job[worker[w].report].target
IsScrape(w) == job[worker[w].report].kind = "scrape"
MoveWorker(w, pc) == worker' = [worker EXCEPT ![w].pc = pc]

Dequeued(r) == queue \ {r}

\* CLAIM_JOB deletes the oldest row before the job is handled.
Claim(w) ==
  /\ WorkerAt(w, "idle")
  /\ \E r \in queue :
       /\ \A q \in queue : r <= q
       /\ queue'  = Dequeued(r)
       /\ worker' = [worker EXCEPT ![w] = [pc |-> "claimed", report |-> r, url |-> None]]
  /\ UNCHANGED <<member, catalogVars, report, job, subVars, selection, client, resolver,
                 events, notices, crashes>>

\* The first report update stamps claimed_at; its failure is only logged.
MarkRunning(w) ==
  /\ WorkerAt(w, "claimed")
  /\ worker' = [worker EXCEPT ![w] =
       IF IsScrape(w) THEN [@ EXCEPT !.pc = "prepare"]
                      ELSE [@ EXCEPT !.pc = "load", !.url = Target(w)]]
  /\ \/ report' = [report EXCEPT ![worker[w].report] = [status |-> "running", claim |-> "fresh"]]
     \/ FaultyWrites /\ UNCHANGED report
  /\ UNCHANGED <<member, catalogVars, job, queue, subVars, selection, client, resolver,
                 events, notices, crashes>>

\* ScrapeRun.prepare: a scrape job reads the Theater's row, and throws without it.
Prepare(w) ==
  LET t == Target(w) IN
  /\ WorkerAt(w, "prepare") /\ catalog[t] # "absent"
  /\ worker' = [worker EXCEPT ![w] = [@ EXCEPT !.pc = "load", !.url = storedUrl[t]]]
  /\ UNCHANGED <<member, catalogVars, jobVars, subVars, selection, client, resolver, events,
                 notices, crashes>>

\* Mutant: the upsert's conflict arm writes the status as well.
UpsertedStatus_Reset(t) == "provisioning"

\* ON CONFLICT leaves the status of an existing row alone.
UpsertedStatus(t) == IF catalog[t] = "absent" THEN "provisioning" ELSE catalog[t]

\* loadTheaterMetadata: upsertTheater inserts the row or refreshes it, URL
\* included, and never its status; it brings a deleted row back.
LoadMetadata(w) ==
  LET t == Target(w) IN
  /\ WorkerAt(w, "load") /\ ~TheaterLocked(t)
  /\ catalog' = [catalog EXCEPT ![t] = UpsertedStatus(t)]
  /\ storedUrl' = [storedUrl EXCEPT ![t] = worker[w].url]
  /\ placeholder' = placeholder \ {t}
  /\ worker' = [worker EXCEPT ![w] = [@ EXCEPT !.pc = "scrape", !.url = None]]
  /\ UNCHANGED <<member, jobVars, subVars, selection, client, resolver, events, notices,
                 crashes>>

\* Some date had showtimes: activateTheater, which only moves a provisioning row.
Activate(w) ==
  LET t == Target(w) IN
  /\ WorkerAt(w, "scrape") /\ ~TheaterLocked(t)
  /\ MoveWorker(w, "succeeded")
  /\ catalog' = [catalog EXCEPT ![t] = IF @ = "provisioning" THEN "active" ELSE @]
  /\ UNCHANGED <<member, storedUrl, placeholder, jobVars, subVars, selection, client,
                 resolver, events, notices, crashes>>

\* No date had showtimes: resetProvisioningTheater restores the id as name.  An
\* add_theater job then fails; a scrape job may still count as a success.
ResetTheater(w) ==
  LET t == Target(w) IN
  /\ WorkerAt(w, "scrape") /\ ~TheaterLocked(t)
  /\ MoveWorker(w, "failed") \/ (IsScrape(w) /\ MoveWorker(w, "succeeded"))
  /\ placeholder' = IF catalog[t] = "provisioning" THEN placeholder \cup {t} ELSE placeholder
  /\ UNCHANGED <<member, catalog, storedUrl, jobVars, subVars, selection, client,
                 resolver, events, notices, crashes>>

\* The row is missing, the page cannot be loaded, or a statement throws.
ScrapeThrows(w) ==
  /\ worker[w].pc \in {"prepare", "load", "scrape"}
  /\ worker' = [worker EXCEPT ![w] = [@ EXCEPT !.pc = "failed", !.url = None]]
  /\ UNCHANGED <<member, catalogVars, jobVars, subVars, selection, client, resolver,
                 events, notices, crashes>>

\* Mutant: the loop ends after one job, as in oneshot mode.
Finish_Oneshot(w, status) ==
  /\ report' = [report EXCEPT ![worker[w].report].status = status]
  /\ events' = events \cup {worker[w].report}
  /\ worker' = [worker EXCEPT ![w].pc = "stopped"]

\* The outcome is written whatever the row's status is by now, then the tagged
\* terminal event is published and the worker polls again.
Finish(w, status) ==
  /\ report' = [report EXCEPT ![worker[w].report].status = status]
  /\ events' = events \cup {worker[w].report}
  /\ worker' = [worker EXCEPT ![w] = IdleWorker]

ReportSuccess(w) ==
  /\ WorkerAt(w, "succeeded")
  /\ Finish(w, "success")
  /\ UNCHANGED <<member, catalogVars, job, queue, subVars, selection, client, resolver,
                 notices, crashes>>

\* Closing the browser or the success update throws: executeJob falls into its failure branch.
SuccessNotWritten(w) ==
  /\ FaultyWrites
  /\ WorkerAt(w, "succeeded") /\ MoveWorker(w, "failed")
  /\ UNCHANGED <<member, catalogVars, jobVars, subVars, selection, client, resolver,
                 events, notices, crashes>>

\* The failure update is swallowed when it throws; the event goes out anyway.
ReportFailure(w) ==
  /\ WorkerAt(w, "failed")
  /\ \/ Finish(w, "failed")
     \/ FaultyWrites /\ Finish(w, report[worker[w].report].status)
  /\ UNCHANGED <<member, catalogVars, job, queue, subVars, selection, client, resolver,
                 notices, crashes>>

\* The process dies: the job it held is in no table any more.
WorkerCrash(w) ==
  /\ ~WorkerAt(w, "idle") /\ crashes < MaxCrashes
  /\ crashes' = crashes + 1
  /\ worker'  = [worker EXCEPT ![w] = IdleWorker]
  /\ UNCHANGED <<member, catalogVars, jobVars, subVars, selection, client, resolver,
                 events, notices>>

-----------------------------------------------------------------------------
(***************************************************************************)
(* Resolution in the web role.                                             *)
(***************************************************************************)

\* Mutant: the sweep's query forgets the failed reports.
Resolvable_SuccessOnly(r) == sub[r].status = "pending" /\ report[r].status = "success"
Resolvable(r) == sub[r].status = "pending" /\ report[r].status \in TerminalReport

StartResolving(v, r) ==
  resolver' = [resolver EXCEPT ![v] =
    [pc |-> "read", report |-> r, ok |-> (report[r].status = "success")]]

\* onProgressEvent / resolveReport.  The notification is consumed, or stays for
\* another web instance that listens too.
LiveStart(v, r) ==
  /\ resolver[v].pc = "idle" /\ r \in events
  /\ events' \in {events \ {r}} \cup (IF "lose" \in Outside THEN {events} ELSE {})
  /\ IF Resolvable(r) THEN StartResolving(v, r) ELSE UNCHANGED resolver
  /\ UNCHANGED <<member, catalogVars, jobVars, subVars, selection, client, worker,
                 notices, crashes>>

\* A notification nobody received.
EventLost(r) ==
  /\ "lose" \in Outside
  /\ r \in events /\ events' = events \ {r}
  /\ UNCHANGED <<member, catalogVars, jobVars, subVars, selection, procVars, notices,
                 crashes>>

\* Mutant: a job still queued counts as stuck.
Stale_Queued(r) == /\ report[r].status = "running" /\ report[r].claim # "fresh"
                   /\ sub[r].status = "pending"

\* expireStalePendingSubmissionReports, the first statement of a sweep.
Stale(r) == /\ report[r].status = "running" /\ report[r].claim = "old"
            /\ sub[r].status = "pending"

SweepExpire ==
  /\ report' = [r \in Reports |->
       IF Stale(r) THEN [report[r] EXCEPT !.status = "failed"] ELSE report[r]]
  /\ UNCHANGED <<member, catalogVars, job, queue, subVars, selection, procVars, events,
                 notices, crashes>>

\* One row of getResolvablePendingSubmissions taken up by the sweep.
SweepStart(v, r) ==
  /\ resolver[v].pc = "idle" /\ Resolvable(r)
  /\ StartResolving(v, r)
  /\ UNCHANGED <<member, catalogVars, jobVars, subVars, selection, client, worker,
                 events, notices, crashes>>

\* Mutant: a successful report is taken to mean an active Theater.
TheaterReady_Assumed(r) == TRUE
TheaterReady(r) == sub[r].status # "none" /\ catalog[sub[r].theater] = "active"

\* The resolution transaction reads the Theater first, without a lock.
DecideOutcome(v) ==
  LET r == resolver[v].report IN
  /\ resolver[v].pc = "read"
  /\ resolver' = [resolver EXCEPT ![v].pc = "decided",
       ![v].ok = @ /\ TheaterReady(r)]
  /\ UNCHANGED <<member, catalogVars, jobVars, subVars, selection, client, worker,
                 events, notices, crashes>>

\* Mutant: the status write has no pending guard.
StillPending_Any(r) == sub[r].status # "none"
StillPending(r) == sub[r].status = "pending"

\* Nothing to update: another run resolved the attempt, or its row is gone.
LoseRace(v) ==
  /\ resolver[v].pc = "decided" /\ ~StillPending(resolver[v].report)
  /\ resolver' = [resolver EXCEPT ![v] = IdleResolver]
  /\ UNCHANGED <<member, catalogVars, jobVars, subVars, selection, client, worker,
                 events, notices, crashes>>

\* The guarded status write, the auto-add under the Member lock, the commit.
WriteTerminal(v) ==
  LET r  == resolver[v].report
      m  == sub[r].member
      th == sub[r].theater
  IN
  /\ resolver[v].pc = "decided" /\ StillPending(r)
  /\ sub' = [sub EXCEPT ![r].status = IF resolver[v].ok THEN "succeeded" ELSE "failed"]
  /\ IF resolver[v].ok
     THEN ~MemberLocked(m) /\ selection' = SelectionAfterAdd(m, th)
     ELSE UNCHANGED selection
  /\ resolver' = [resolver EXCEPT ![v].pc = "publish"]
  /\ UNCHANGED <<member, catalogVars, jobVars, window, client, worker, events, notices,
                 crashes>>

\* publishMemberNotice after the commit; a transport failure is swallowed.
Publish(v) ==
  /\ resolver[v].pc = "publish"
  /\ notices' \in {notices, [notices EXCEPT ![resolver[v].report] = @ + 1]}
  /\ resolver' = [resolver EXCEPT ![v] = IdleResolver]
  /\ UNCHANGED <<member, catalogVars, jobVars, subVars, selection, client, worker,
                 events, crashes>>

\* The web process dies, or the transaction is rolled back.
ResolverCrash(v) ==
  /\ resolver[v].pc # "idle" /\ crashes < MaxCrashes
  /\ crashes'  = crashes + 1
  /\ resolver' = [resolver EXCEPT ![v] = IdleResolver]
  /\ UNCHANGED <<member, catalogVars, jobVars, subVars, selection, client, worker,
                 events, notices>>

-----------------------------------------------------------------------------
(***************************************************************************)
(* Time: 30 minutes pass after a claim; a creation leaves the window.      *)
(***************************************************************************)

ClaimAges(r) ==
  /\ report[r].status = "running" /\ report[r].claim = "fresh"
  /\ report' = [report EXCEPT ![r].claim = "old"]
  /\ UNCHANGED <<member, catalogVars, job, queue, subVars, selection, procVars, events,
                 notices, crashes>>

WindowSlides(r) ==
  /\ "slide" \in Outside
  /\ r \in window /\ window' = window \ {r}
  /\ UNCHANGED <<member, catalogVars, jobVars, sub, selection, procVars, events,
                 notices, crashes>>

-----------------------------------------------------------------------------
ClientStep(c) ==
  \/ \E m \in Members, th \in Theaters : SubmitBegin(c, m, th) \/ SelectBegin(c, m, th)
  \/ LockMember(c) \/ DecideAttempt(c) \/ AddToSelection(c) \/ ClientAbort(c)
  \/ \E r \in Reports : InsertAttempt(c, r)

MemberStep(m) ==
  \/ VerifyEmail(m) \/ Suspend(m) \/ Reinstate(m) \/ Erase(m)
  \/ \E th \in Theaters : RemoveFromSelection(m, th)

StaffStep(th) ==
  \/ \E r \in Reports, url \in Theaters, named \in BOOLEAN : StaffAdd(r, th, url, named)
  \/ \E url \in Theaters : StaffEdit(th, url)
  \/ StaffDelete(th)
  \/ \E r \in Reports : StaffScrape(r, th)

WorkerStep(w) ==
  \/ Claim(w) \/ MarkRunning(w) \/ Prepare(w) \/ LoadMetadata(w) \/ Activate(w) \/ ResetTheater(w)
  \/ ScrapeThrows(w) \/ ReportSuccess(w) \/ SuccessNotWritten(w) \/ ReportFailure(w)

ResolverStep(v) ==
  \/ \E r \in Reports : LiveStart(v, r) \/ SweepStart(v, r)
  \/ DecideOutcome(v) \/ LoseRace(v) \/ WriteTerminal(v) \/ Publish(v)

Next ==
  \/ \E c \in Clients : ClientStep(c)
  \/ \E m \in Members : MemberStep(m)
  \/ \E th \in Theaters : StaffStep(th)
  \/ \E w \in Workers : WorkerStep(w) \/ WorkerCrash(w)
  \/ \E v \in Resolvers : ResolverStep(v) \/ ResolverCrash(v)
  \/ SweepExpire
  \/ \E r \in Reports : EventLost(r) \/ ClaimAges(r) \/ WindowSlides(r)

Spec == Init /\ [][Next]_vars

(***************************************************************************)
(* Fairness.  A started handler or job ends; Postgres grants row locks in  *)
(* queue order, so a resolution waiting for the Member lock is served; the *)
(* sweep runs every 60 s and takes every resolvable row; time passes.      *)
(* Nothing obliges anybody to submit, notifications to arrive, or crashes. *)
(***************************************************************************)
ClientProgress(c) ==
  \/ LockMember(c) \/ DecideAttempt(c) \/ AddToSelection(c) \/ ClientAbort(c)
  \/ \E r \in Reports : InsertAttempt(c, r)

ResolverProgress(v) == DecideOutcome(v) \/ LoseRace(v) \/ WriteTerminal(v) \/ Publish(v)

Fairness ==
  /\ \A c \in Clients : WF_vars(ClientProgress(c))
  /\ \A w \in Workers : WF_vars(WorkerStep(w))
  /\ \A v \in Resolvers : SF_vars(ResolverProgress(v))
  /\ WF_vars(SweepExpire)
  /\ \A r \in Reports : /\ WF_vars(\E v \in Resolvers : SweepStart(v, r))
                        /\ WF_vars(ClaimAges(r))

FairSpec == Spec /\ Fairness

-----------------------------------------------------------------------------
(***************************************************************************)
(* Type invariant, with the shape the process states have.                 *)
(***************************************************************************)
ClientType ==
  {IdleClient} \cup
  [pc : {"begin", "locked", "insert", "add"}, member : Members, theater : Theaters,
   retry : BOOLEAN]

WorkerType ==
  {IdleWorker} \cup
  [pc : {"claimed", "prepare", "load", "scrape", "succeeded", "failed"}, report : Reports,
   url : Theaters \cup {None}]

ResolverType ==
  {IdleResolver} \cup
  [pc : {"read", "decided", "publish"}, report : Reports, ok : BOOLEAN]

\* The variables hold what the tables and the processes may hold: an existing
\* attempt names a Member and a Theater, a busy worker its report.
TypeOK ==
  /\ member \in [Members -> {"unverified", "active", "suspended", "erased"}]
  /\ catalog \in [Theaters -> {"absent", "provisioning", "active"}]
  /\ storedUrl \in [Theaters -> Theaters \cup {None}]
  /\ placeholder \subseteq Theaters
  /\ report \in [Reports -> [status : {"none", "running"} \cup TerminalReport,
                             claim : {"null", "fresh", "old"}]]
  /\ job \in [Reports -> [kind : {"none", "add_theater", "scrape"},
                          target : Theaters \cup {None}]]
  /\ queue \subseteq Reports
  /\ sub \in [Reports -> {NoAttempt} \cup
                [status : SubStatus \ {"none"}, member : Members, theater : Theaters]]
  /\ window \subseteq Reports
  /\ selection \in [Members -> SUBSET Theaters]
  /\ client \in [Clients -> ClientType]
  /\ worker \in [Workers -> WorkerType]
  /\ events \subseteq Reports
  /\ resolver \in [Resolvers -> ResolverType]
  /\ notices \in [Reports -> Nat]
  /\ crashes \in 0..MaxCrashes

(***************************************************************************)
(* Safety.                                                                 *)
(***************************************************************************)

\* At most one attempt per Theater is pending, however concurrent submissions
\* and retries of one URL interleave (the FOR UPDATE of submit).
OnePendingPerTheater == \A th \in Theaters : \A q, r \in Pending(th) : q = r

\* The per-Member throttle holds across concurrent submissions of one Member:
\* counting and inserting are covered by one Member lock.
ThrottleHolds == \A m \in Members : Cardinality(Recent(m)) <= ThrottleMax

\* A succeeded attempt's Theater is in the catalog and active, whatever jobs,
\* Staff edits and expiries happened since the report was written.
SucceededIsActive ==
  \A r \in Reports : sub[r].status = "succeeded" => catalog[sub[r].theater] = "active"

\* A Selection holds active Theaters of the catalog only, and an erased Member
\* has none, although adds, auto-adds, deletions and erasures race.
SelectionIsCatalogued ==
  \A m \in Members : \A th \in selection[m] :
    catalog[th] = "active" /\ member[m] # "erased"

\* Route adds and auto-adds together never exceed the Entitlement quota.
SelectionWithinQuota == \A m \in Members : Cardinality(selection[m]) <= SelectionQuota

\* A Member is told once about an attempt, and only after its outcome is durable,
\* whatever notifications, sweeps and web instances resolve it concurrently.
NoticesAreFinal ==
  \A r \in Reports : notices[r] <= 1 /\ (notices[r] = 1 => sub[r].status # "pending")

\* A job is handed to one worker: a report is queued, or held by one worker, or
\* neither.
JobRunsOnce ==
  \A w \in Workers : worker[w].pc # "idle" =>
    /\ worker[w].report \notin queue
    /\ \A x \in Workers \ {w} : worker[x].report # worker[w].report

(***************************************************************************)
(* Action properties.                                                      *)
(***************************************************************************)

\* An attempt is inserted only while its Member is verified and not suspended:
\* the Member lock keeps a suspension or an erasure out until the commit.
NewAttemptNeedsVerifiedMember ==
  [][\A r \in Reports :
       sub[r].status = "none" /\ sub'[r].status # "none" => member[sub'[r].member] = "active"]_vars

\* The first terminal status of an attempt is its last; only a deletion of its
\* Theater or Member removes the row.
AttemptResolvesOnce ==
  [][\A r \in Reports :
       sub[r].status \in {"succeeded", "failed"} => sub'[r] \in {sub[r], NoAttempt}]_vars

\* A terminal report never runs again: an expiry only hits a job whose worker
\* already stamped its claim, never one still queued.
TerminalReportStays ==
  [][\A r \in Reports :
       report[r].status \in TerminalReport => report'[r].status \in TerminalReport]_vars

(***************************************************************************)
(* The pipeline implements the lifecycle the glossary promises.            *)
(***************************************************************************)
Lifecycle == INSTANCE SubmissionLifecycle WITH AttemptIds <- Reports

\* Every step of the pipeline is a step of the abstract lifecycle or changes
\* neither the catalog, nor an attempt, nor a Selection.
ImplementsLifecycle == Lifecycle!Spec

\* The tables of the queue without the workers' progress.
Jobs == INSTANCE JobLedger WITH
  report <- [r \in Reports |-> report[r].status],
  held <- {worker[w].report : w \in {x \in Workers : worker[x].pc # "idle"}},
  Outcomes <- TerminalReport

\* Whatever submitters, workers, expiries and crashes do, the tables change as the
\* queue's readers may expect: ScrapeWorker promises the same.
ImplementsJobs == Jobs!Spec

(***************************************************************************)
(* Liveness, under FairSpec.                                               *)
(***************************************************************************)

\* An attempt whose claim was stamped is resolved, although the worker may die,
\* its report updates may fail and every notification may be lost.
ClaimedResolves ==
  \A r \in Reports :
    (sub[r].status = "pending" /\ report[r].claim # "null") ~> sub[r].status # "pending"

\* A queued job reaches a worker: failures and crashes never stop the loop.
QueuedRuns == \A r \in Reports : r \in queue ~> r \notin queue

(***************************************************************************)
(* What the documentation says, and the code does not always do.           *)
(***************************************************************************)

\* "It ends in exactly one of succeeded, failed": no attempt stays pending for
\* ever.
EveryAttemptEnds ==
  \A r \in Reports : sub[r].status = "pending" ~> sub[r].status # "pending"

\* "The Theater row remains in provisioning, and a retry can still succeed":
\* while the row stays provisioning, it stays retryable or has a new attempt.
FailedStaysRetryable ==
  [][\A th \in Theaters :
       Retryable(th) /\ catalog[th] = "provisioning" /\ catalog'[th] = "provisioning"
         => Attempts(th)' # {}]_vars

\* "Active: first scrape completed, metadata populated": an active Theater's name
\* is not its id placeholder.
ActiveIsNamed == \A th \in placeholder : catalog[th] = "provisioning"
=============================================================================
