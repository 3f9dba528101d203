---------------------------- MODULE ScrapeWorker ----------------------------
(***************************************************************************)
(* One worker process (RUN_MODE=consumer): a loop that executes queued     *)
(* jobs one after the other, cron ticks that start scheduled runs beside   *)
(* it, and the Chromium that all of them share.                            *)
(*                                                                         *)
(* A run is named by its scrape_reports row.  It is a ScrapeRun over the   *)
(* active Theaters (scope "all") or over one ("one"), or an                *)
(* addTheaterAndScrape ("add").  An action is what a run does between two  *)
(* awaits, so that the runs of the process interleave where Node lets      *)
(* them.  Of a date only its outcome matters, so a Theater's dates are the *)
(* number still to be scraped.  ScrapeOptions.reportId is set by no caller *)
(* in the repository, so scrape_attempts rows and resumed runs, which need *)
(* them, are not part of the model.                                        *)
(***************************************************************************)
EXTENDS Integers, FiniteSets

CONSTANTS
  Theaters,     \* theater ids
  Chromiums,    \* names for Chromium processes
  None,         \* no value
  MaxReports,   \* bound: reports, hence runs, ever created
  MaxDates,     \* bound: dates published and planned for one Theater
  MaxCrashes,   \* bound: crashes of the worker process or of a Chromium
  CronEnabled   \* ENABLE_SCRAPE_CRON

ASSUME ConstantsAssumption ==
  /\ IsFiniteSet(Theaters) /\ IsFiniteSet(Chromiums)
  /\ None \notin Theaters \cup Chromiums
  /\ MaxReports \in Nat /\ MaxDates \in Nat /\ MaxCrashes \in Nat
  /\ CronEnabled \in BOOLEAN

VARIABLES
  catalog,      \* theaters.status, "absent" when there is no row
  report,       \* scrape_reports.status, "none" when there is no row
  queue,        \* scrape_jobs, by report
  run,          \* the in-process state of each run
  browser,      \* the module variable _browser of the Puppeteer transport
  alive,        \* Chromium processes that run
  overlapped,   \* history: a cron run has been in progress beside another run
  crashes       \* crashes so far

vars == <<catalog, report, queue, run, browser, alive, overlapped, crashes>>

Reports == 1..MaxReports

\* best: the best outcome of the Theater's dates so far, "untried" without dates.
\* limited: ScrapeSummary.status is rate_limited.  fatal: the run threw.
\* held: the Chromium this run waits for, to load a page or to close.
NoRun == [pc |-> "idle", scope |-> "all", plan |-> {}, todo |-> {}, cur |-> None,
          dates |-> 0, best |-> "untried", ok |-> {}, bad |-> {},
          limited |-> FALSE, fatal |-> FALSE, held |-> None]

Init ==
  /\ catalog \in [Theaters -> {"absent", "provisioning", "active"}]
  /\ report  = [r \in Reports |-> "none"]
  /\ queue   = {}
  /\ run     = [r \in Reports |-> NoRun]
  /\ browser = None /\ alive = {}
  /\ overlapped = FALSE /\ crashes = 0

-----------------------------------------------------------------------------
At(r, pc)   == run[r].pc = pc
Move(r, pc) == run' = [run EXCEPT ![r].pc = pc]

InProgress == {"prepare", "next", "browser", "launch", "page", "dates", "closing", "record"}
Busy(r)    == run[r].pc \in InProgress

\* Locals are gone with the call they belong to, or with the process.
LeaveTheater(s) == [s EXCEPT !.cur = None, !.dates = 0, !.best = "untried", !.held = None]
Ended           == [NoRun EXCEPT !.pc = "ended"]

\* An exception leaves every loop; what counts is that there was one.
Fatal(s, pc) == [NoRun EXCEPT !.pc = pc, !.scope = s.scope, !.limited = s.limited, !.fatal = TRUE]

\* A report's id is the next of its sequence.
Fresh(r) == report[r] = "none" /\ \A q \in 1..(r - 1) : report[q] # "none"

(***************************************************************************)
(* The web role: a report and its job in one transaction.                  *)
(***************************************************************************)
Enqueue(r, scope, th) ==
  /\ Fresh(r)
  /\ report' = [report EXCEPT ![r] = "running"]
  /\ queue'  = queue \cup {r}
  /\ run'    = [run EXCEPT ![r] = [NoRun EXCEPT !.pc = "queued", !.scope = scope, !.cur = th]]
  /\ UNCHANGED <<browser, alive, overlapped, crashes>>

TriggerAll(r) == Enqueue(r, "all", None) /\ UNCHANGED catalog

TriggerOne(r, th) ==
  /\ catalog[th] # "absent"
  /\ Enqueue(r, "one", th) /\ UNCHANGED catalog

\* A new Theater, or the retry of one that is still provisioning.
TriggerAdd(r, th) ==
  /\ catalog[th] # "active"
  /\ catalog' = [catalog EXCEPT ![th] = "provisioning"]
  /\ Enqueue(r, "add", th)

DeleteTheater(th) ==
  /\ catalog[th] # "absent"
  /\ catalog' = [catalog EXCEPT ![th] = "absent"]
  /\ UNCHANGED <<report, queue, run, browser, alive, overlapped, crashes>>

(***************************************************************************)
(* The two ways a run starts in the worker.                                *)
(***************************************************************************)

\* Mutant: the handler is called without an await.
LoopFree_NoAwait == TRUE

\* consumeJobs awaits the handler before it claims again; it never sees cron runs.
LoopFree == \A q \in Reports : Busy(q) => run[q].scope = "cron"

Claim(r) ==
  /\ LoopFree
  /\ r \in queue /\ \A q \in queue : r <= q
  /\ queue' = queue \ {r}
  /\ Move(r, IF run[r].scope = "add" THEN "browser" ELSE "prepare")
  /\ overlapped' = (overlapped \/ \E q \in Reports : Busy(q) /\ run[q].scope = "cron")
  /\ UNCHANGED <<catalog, report, browser, alive, crashes>>

\* A registered cron task fires, whatever else the process is doing.
Tick(r) ==
  /\ CronEnabled /\ Fresh(r)
  /\ report' = [report EXCEPT ![r] = "running"]
  /\ run'    = [run EXCEPT ![r] = [NoRun EXCEPT !.pc = "prepare", !.scope = "cron"]]
  /\ overlapped' = (overlapped \/ \E q \in Reports : Busy(q))
  /\ UNCHANGED <<catalog, queue, browser, alive, crashes>>

(***************************************************************************)
(* runScraper: prepare, then the Theaters one by one.                      *)
(***************************************************************************)
Planned(r) == IF run[r].scope = "one" THEN {run[r].cur}
              ELSE {th \in Theaters : catalog[th] = "active"}

Prepare(r) ==
  /\ At(r, "prepare")
  /\ \A th \in Planned(r) : catalog[th] # "absent"
  /\ run' = [run EXCEPT ![r] = [LeaveTheater(@) EXCEPT !.pc = "next", !.plan = Planned(r),
                                                      !.todo = Planned(r)]]
  /\ UNCHANGED <<catalog, report, queue, browser, alive, overlapped, crashes>>

\* A statement or an emit outside the handlers of single dates and pages throws,
\* or the Theater of the job is gone.
RunThrows(r) ==
  /\ At(r, "prepare") \/ (run[r].scope # "add" /\ (At(r, "dates") \/ At(r, "next")))
  /\ ~run[r].fatal
  /\ run' = [run EXCEPT ![r] = Fatal(@, "next")]
  /\ UNCHANGED <<catalog, report, queue, browser, alive, overlapped, crashes>>

\* Mutant: a rate limit does not leave the loop over Theaters.
Over_NoLimit(r) == run[r].todo = {} \/ run[r].fatal

Over(r) == run[r].todo = {} \/ run[r].limited \/ run[r].fatal

NextTheater(r) ==
  /\ At(r, "next") /\ ~Over(r)
  /\ \E th \in run[r].todo :
       run' = [run EXCEPT ![r].pc = "browser", ![r].cur = th, ![r].todo = @ \ {th}]
  /\ UNCHANGED <<catalog, report, queue, browser, alive, overlapped, crashes>>

(***************************************************************************)
(* loadTheaterMetadata on the shared browser.                              *)
(***************************************************************************)

\* Mutant: every page gets a browser of its own.
Connected_Never == FALSE

Connected == browser \in alive

GetBrowser(r) ==
  /\ At(r, "browser")
  /\ run' = IF Connected
              THEN [run EXCEPT ![r].pc = "page", ![r].held = browser]
              ELSE [run EXCEPT ![r].pc = "launch"]
  /\ UNCHANGED <<catalog, report, queue, browser, alive, overlapped, crashes>>

Launched(r) ==
  /\ At(r, "launch")
  /\ \E b \in Chromiums \ (alive \cup {browser} \cup {run[q].held : q \in Reports}) :
       /\ alive'   = alive \cup {b}
       /\ browser' = b
       /\ run'     = [run EXCEPT ![r].pc = "page", ![r].held = b]
  /\ UNCHANGED <<catalog, report, queue, overlapped, crashes>>

\* The page is loaded and parsed, the row upserted, the dates filtered.
PageLoads(r) ==
  /\ At(r, "page") /\ run[r].held \in alive
  /\ catalog' = [catalog EXCEPT ![run[r].cur] = IF @ = "absent" THEN "provisioning" ELSE @]
  /\ \E n \in 0..MaxDates :
       run' = [run EXCEPT ![r].pc = "dates", ![r].held = None, ![r].dates = n,
                          ![r].best = IF n = 0 THEN "untried" ELSE "failed"]
  /\ UNCHANGED <<report, queue, browser, alive, overlapped, crashes>>

\* Mutant: a Theater whose page fails is not counted as failed.
FailedTheaters_Not(r) == run[r].bad

FailedTheaters(r) == run[r].bad \cup {run[r].cur}

\* The launch, the page or the upsert fails: loadAvailability counts the Theater
\* as failed, addTheaterAndScrape gives up and leaves the browser open.
LoadFails(r) ==
  /\ run[r].pc \in {"launch", "page"}
  /\ run' = IF run[r].scope = "add"
              THEN [run EXCEPT ![r] = Fatal(@, "record")]
              ELSE [run EXCEPT ![r] = [LeaveTheater(@) EXCEPT !.pc = "next",
                                                              !.bad = FailedTheaters(r)]]
  /\ UNCHANGED <<catalog, report, queue, browser, alive, overlapped, crashes>>

(***************************************************************************)
(* The dates of a Theater, and what becomes of its row.                    *)
(***************************************************************************)

\* Showtimes reference the theaters row, so a deleted Theater stores none.
DateSucceeds(r) ==
  /\ At(r, "dates") /\ run[r].dates > 0
  /\ \E found \in {"empty", "shows"} :
       /\ found = "shows" => catalog[run[r].cur] # "absent"
       /\ run' = [run EXCEPT ![r].dates = @ - 1,
                             ![r].best = IF @ = "shows" THEN @ ELSE found]
  /\ UNCHANGED <<catalog, report, queue, browser, alive, overlapped, crashes>>

DateFails(r) ==
  /\ At(r, "dates") /\ run[r].dates > 0
  /\ run' = [run EXCEPT ![r].dates = @ - 1]
  /\ UNCHANGED <<catalog, report, queue, browser, alive, overlapped, crashes>>

\* Mutant: the date that met a 429 is tried again.
DateRateLimited_Retries(r) ==
  /\ At(r, "dates") /\ run[r].dates > 0 /\ run[r].scope # "add"
  /\ run' = [run EXCEPT ![r].limited = TRUE]
  /\ UNCHANGED <<catalog, report, queue, browser, alive, overlapped, crashes>>

\* HTTP 429: the date loop breaks.  The add_theater loop takes it as any failure.
DateRateLimited(r) ==
  /\ At(r, "dates") /\ run[r].dates > 0 /\ run[r].scope # "add"
  /\ run' = [run EXCEPT ![r].dates = 0, ![r].limited = TRUE]
  /\ UNCHANGED <<catalog, report, queue, browser, alive, overlapped, crashes>>

Scraped(r) == run[r].best = "shows"

\* summarizeTheater: a Theater with no date to scrape is a success.
Summarized(r) ==
  IF run[r].best # "failed"
    THEN [LeaveTheater(run[r]) EXCEPT !.ok = @ \cup {run[r].cur}]
    ELSE [LeaveTheater(run[r]) EXCEPT !.bad = @ \cup {run[r].cur}]

\* Mutant: the reset forgets that it is for provisioning rows.
Settled_Reset(r) == IF Scraped(r)
                      THEN IF catalog[run[r].cur] = "provisioning" THEN "active"
                                                                   ELSE catalog[run[r].cur]
                      ELSE IF catalog[run[r].cur] = "absent" THEN "absent" ELSE "provisioning"

\* activateTheater or resetProvisioningTheater: both touch provisioning rows only.
Settled(r) == IF Scraped(r) /\ catalog[run[r].cur] = "provisioning"
                THEN "active" ELSE catalog[run[r].cur]

SettleTheater(r) ==
  /\ At(r, "dates") /\ run[r].dates = 0 /\ run[r].scope # "add"
  /\ catalog' = [catalog EXCEPT ![run[r].cur] = Settled(r)]
  /\ run' = [run EXCEPT ![r] = [Summarized(r) EXCEPT !.pc = "next"]]
  /\ UNCHANGED <<report, queue, browser, alive, overlapped, crashes>>

\* addTheaterAndScrape wants showtimes; without them it throws, browser open.
SettleAdd(r) ==
  /\ At(r, "dates") /\ run[r].dates = 0 /\ run[r].scope = "add"
  /\ catalog' = [catalog EXCEPT ![run[r].cur] = Settled(r)]
  /\ run' = [run EXCEPT ![r] = IF Scraped(r) THEN [LeaveTheater(@) EXCEPT !.pc = "next"]
                                             ELSE Fatal(@, "record")]
  /\ UNCHANGED <<report, queue, browser, alive, overlapped, crashes>>

\* Its last statement fails.
SettleAddThrows(r) ==
  /\ At(r, "dates") /\ run[r].dates = 0 /\ run[r].scope = "add"
  /\ run' = [run EXCEPT ![r] = Fatal(@, "record")]
  /\ UNCHANGED <<catalog, report, queue, browser, alive, overlapped, crashes>>

(***************************************************************************)
(* closeBrowser, and the outcome on the report.                            *)
(***************************************************************************)
CloseBrowser(r) ==
  /\ At(r, "next") /\ Over(r)
  /\ run' = IF browser = None
              THEN [run EXCEPT ![r].pc = "record"]
              ELSE [run EXCEPT ![r].pc = "closing", ![r].held = browser]
  /\ UNCHANGED <<catalog, report, queue, browser, alive, overlapped, crashes>>

\* close() resolved: the variable is cleared, whatever it holds by now.
BrowserClosed(r) ==
  /\ At(r, "closing") /\ run[r].held \notin alive
  /\ browser' = None
  /\ run' = [run EXCEPT ![r].pc = "record", ![r].held = None]
  /\ UNCHANGED <<catalog, report, queue, alive, overlapped, crashes>>

Outcome(r) ==
  CASE run[r].fatal   -> "failed"
    [] ~run[r].fatal /\ run[r].bad = {} -> "success"
    [] ~run[r].fatal /\ run[r].bad # {} /\ run[r].ok # {} -> "partial_success"
    [] OTHER -> "failed"

Record(r) ==
  /\ At(r, "record")
  /\ report' = [report EXCEPT ![r] = Outcome(r)]
  /\ run' = [run EXCEPT ![r] = Ended]
  /\ UNCHANGED <<catalog, queue, browser, alive, overlapped, crashes>>

\* The update fails, or the one of the schedule's row that follows it in a cron run:
\* "failed" is written instead, unless that fails too.
RecordThrows(r) ==
  /\ At(r, "record")
  /\ report' \in {report, [report EXCEPT ![r] = "failed"]}
  /\ run' = [run EXCEPT ![r] = Ended]
  /\ UNCHANGED <<catalog, queue, browser, alive, overlapped, crashes>>

(***************************************************************************)
(* The environment.                                                        *)
(***************************************************************************)

\* A Chromium ends: a run asked it to close, or it crashed.
Closing(b) == \E r \in Reports : At(r, "closing") /\ run[r].held = b

ChromiumCloses(b) ==
  /\ b \in alive /\ Closing(b)
  /\ alive' = alive \ {b}
  /\ UNCHANGED <<catalog, report, queue, run, browser, overlapped, crashes>>

ChromiumCrashes(b) ==
  /\ b \in alive /\ crashes < MaxCrashes
  /\ crashes' = crashes + 1
  /\ alive' = alive \ {b}
  /\ UNCHANGED <<catalog, report, queue, run, browser, overlapped>>

\* The process and its Chromiums die and it is started again; claimed jobs are
\* gone from the queue and their reports stay running.
Crash ==
  /\ crashes < MaxCrashes
  /\ crashes' = crashes + 1
  /\ run' = [r \in Reports |-> IF Busy(r) THEN Ended ELSE run[r]]
  /\ browser' = None /\ alive' = {}
  /\ UNCHANGED <<catalog, report, queue, overlapped>>

-----------------------------------------------------------------------------
RunStep(r) ==
  \/ Prepare(r) \/ RunThrows(r) \/ NextTheater(r)
  \/ GetBrowser(r) \/ Launched(r) \/ PageLoads(r) \/ LoadFails(r)
  \/ DateSucceeds(r) \/ DateFails(r) \/ DateRateLimited(r)
  \/ SettleTheater(r) \/ SettleAdd(r) \/ SettleAddThrows(r)
  \/ CloseBrowser(r) \/ BrowserClosed(r) \/ Record(r) \/ RecordThrows(r)

WebStep(r) ==
  \/ TriggerAll(r)
  \/ \E th \in Theaters : TriggerOne(r, th) \/ TriggerAdd(r, th)

Next ==
  \/ \E r \in Reports : WebStep(r) \/ Claim(r) \/ Tick(r) \/ RunStep(r)
  \/ \E th \in Theaters : DeleteTheater(th)
  \/ \E b \in Chromiums : ChromiumCloses(b) \/ ChromiumCrashes(b)
  \/ Crash

Spec == Init /\ [][Next]_vars

-----------------------------------------------------------------------------
(***************************************************************************)
(* Properties.                                                             *)
(***************************************************************************)

RunType ==
  [pc : InProgress \cup {"idle", "queued", "ended"}, scope : {"all", "one", "add", "cron"},
   plan : SUBSET Theaters, todo : SUBSET Theaters, cur : Theaters \cup {None},
   dates : 0..MaxDates, best : {"untried", "failed", "empty", "shows"},
   ok : SUBSET Theaters, bad : SUBSET Theaters,
   limited : BOOLEAN, fatal : BOOLEAN, held : Chromiums \cup {None}]

\* Tables, runs and Chromiums hold values of their kind.
TypeOK ==
  /\ catalog \in [Theaters -> {"absent", "provisioning", "active"}]
  /\ report \in [Reports -> {"none", "running", "success", "partial_success", "failed"}]
  /\ queue \subseteq Reports
  /\ run \in [Reports -> RunType]
  /\ browser \in Chromiums \cup {None} /\ alive \subseteq Chromiums
  /\ overlapped \in BOOLEAN /\ crashes \in Nat

\* "One browser per scraper process": as long as no cron run was ever in progress
\* beside another run, at most one Chromium runs, also after failed adds that left
\* theirs open, crashes of Chromium and restarts of the worker.
OneBrowserUnlessOverlap ==
  ~overlapped => \A b, c \in alive : b = c

\* After a 429 the run asks the site for nothing more, neither a page nor a date.
LimitedStops ==
  \A r \in Reports :
    run[r].limited => run[r].dates = 0 /\ run[r].pc \notin {"browser", "launch", "page"}

\* When a run over the catalog or over one Theater records an outcome other than
\* failed and no 429 cut it short, each Theater it set out to scrape was counted
\* exactly once, and it says success only if none of them failed.
SummaryCoversPlan ==
  [][\A r \in Reports :
       /\ report'[r] # report[r] /\ report'[r] \in {"success", "partial_success"}
       /\ run[r].scope # "add" /\ ~run[r].limited
       => /\ run[r].ok \cup run[r].bad = run[r].plan
          /\ run[r].ok \cap run[r].bad = {}
          /\ report'[r] = "success" <=> run[r].ok = run[r].plan]_vars

\* No run, scheduled or queued, takes an active Theater back to provisioning,
\* whatever its own scrape of that Theater gave.
ActiveStays ==
  [][\A th \in Theaters : catalog[th] = "active" => catalog'[th] # "provisioning"]_vars

\* How far a run is from its end: the Theaters before it, then the stage and the dates
\* of the one at hand.
Stage == [idle |-> 0, queued |-> 0, ended |-> 0, record |-> 1, closing |-> 2, next |-> 4, dates |-> 5,
          page |-> 6 + MaxDates, launch |-> 7 + MaxDates, browser |-> 8 + MaxDates, prepare |-> 0]
TheatersLeft(s) == IF s.pc = "prepare" THEN Cardinality(Theaters) + 1 ELSE Cardinality(s.todo)
StagesLeft(s) == Stage[s.pc] + s.dates - (IF s.pc = "next" /\ s.fatal THEN 1 ELSE 0)

Nearer(s, t) ==
  \/ TheatersLeft(s) < TheatersLeft(t)
  \/ TheatersLeft(s) = TheatersLeft(t) /\ StagesLeft(s) < StagesLeft(t)

\* No run goes round in circles: each of its steps, and whatever befalls it, takes it
\* nearer to its end, so that the loop always comes to its next job.
RunsWindDown ==
  [][\A r \in Reports : Busy(r) /\ run'[r] # run[r] => Nearer(run'[r], run[r])]_vars

\* The tables of the queue without the runs' progress.
Jobs == INSTANCE JobLedger WITH
  held <- {r \in Reports : Busy(r)},
  Outcomes <- {"success", "partial_success", "failed"}

\* Jobs, scheduled runs, failures and restarts change the tables as the queue's
\* readers may expect: SubmissionPipeline promises the same.
ImplementsJobs == Jobs!Spec

\* "Report status set to rate_limited (not failed)": what the guide says of a run
\* that met a 429.
RateLimitReported ==
  [][\A r \in Reports :
       run[r].limited /\ report'[r] # report[r] => report'[r] = "rate_limited"]_vars

-----------------------------------------------------------------------------
(***************************************************************************)
(* The inductive invariant that the safety properties rest on.             *)
(***************************************************************************)

\* Each phase finds the fields of its run as the phases before it left them.
WellFormed(s) ==
  /\ s.pc \in {"browser", "launch", "page", "dates"} => s.cur \in Theaters
  /\ s.pc \in {"next", "closing", "record"} => s.cur = None
  /\ s.pc \in {"queued", "prepare"} =>
       /\ ~s.limited /\ ~s.fatal /\ s.todo = {} /\ s.ok = {} /\ s.bad = {}
       /\ s.scope \in {"one", "add"} => s.cur \in Theaters
  /\ s.pc \in {"closing", "record"} => s.todo = {} \/ s.limited \/ s.fatal
  /\ s.limited => s.dates = 0 /\ s.pc \notin {"browser", "launch", "page"}
  /\ s.scope = "add" => s.todo = {} /\ s.pc # "prepare"

\* A planned Theater is to be scraped, being scraped, done or failed: one of them.
Accounted(s) ==
  s.pc \in InProgress \ {"prepare"} /\ s.scope # "add" /\ ~s.fatal =>
    /\ s.plan = s.ok \cup s.bad \cup s.todo \cup ({s.cur} \ {None})
    /\ s.ok \cap s.bad = {} /\ s.todo \cap (s.ok \cup s.bad) = {}
    /\ s.cur \notin s.ok \cup s.bad \cup s.todo

\* A queued job has not begun.
QueueRefers == \A r \in queue : At(r, "queued") /\ report[r] # "none"

\* Without an overlap a run is alone in the process, ...
Alone == ~overlapped => \A r, q \in Reports : Busy(r) /\ Busy(q) => r = q

\* ... the transport's variable names the only Chromium, and whoever launches or
\* closes one has read the variable as it still is.
BrowserKnown ==
  ~overlapped =>
    /\ alive \subseteq {browser}
    /\ \A r \in Reports :
         /\ At(r, "launch") => alive = {}
         /\ At(r, "closing") => run[r].held = browser

\* What is true between any two steps, and enough to stay true.
IInv ==
  /\ TypeOK
  /\ \A r \in Reports : WellFormed(run[r]) /\ Accounted(run[r])
  /\ QueueRefers /\ Alone /\ BrowserKnown
=============================================================================
