------------------------- MODULE ScrapeWorkerProofs -------------------------
(***************************************************************************)
(* Proofs about ScrapeWorker, for every finite set of Theaters and of      *)
(* Chromium names and every bound.                                         *)
(***************************************************************************)
EXTENDS ScrapeWorker, FiniteSetTheorems, TLAPS

Good(s) == s \in RunType /\ WellFormed(s) /\ Accounted(s)

-----------------------------------------------------------------------------
(***************************************************************************)
(* The runs, one by one: each step of a run leaves it a good one.          *)
(***************************************************************************)

\* A step that replaces one run by a good one keeps all of them good.
LEMMA OneRun ==
  ASSUME IInv, NEW r \in Reports, NEW s, Good(s), run' = [run EXCEPT ![r] = s]
  PROVE  /\ run' \in [Reports -> RunType]
         /\ \A q \in Reports : WellFormed(run'[q]) /\ Accounted(run'[q])
         /\ run'[r] = s /\ \A q \in Reports \ {r} : run'[q] = run[q]
BY DEF IInv, TypeOK, Good

\* What the invariant says of one run.
LEMMA EachRun ==
  ASSUME IInv, NEW r \in Reports
  PROVE  Good(run[r])
BY DEF IInv, TypeOK, Good

\* The records no run is in, and those of runs that threw, are good.
LEMMA FreshRuns ==
  /\ NoRun \in RunType /\ Good(Ended)
  /\ \A s \in RunType, p \in {"next", "record"} : s.limited \in BOOLEAN /\ Good(Fatal(s, p))
<1>0. 0 \in 0..MaxDates /\ MaxDates \in Nat
  BY ConstantsAssumption DEF ConstantsAssumption
<1>1. NoRun \in RunType /\ Ended \in RunType
  BY <1>0 DEF NoRun, RunType, Ended, InProgress
<1>2. Good(Ended)
  BY <1>1 DEF Good, WellFormed, Accounted, Ended, NoRun, InProgress
<1>3. ASSUME NEW s \in RunType, NEW p \in {"next", "record"}
      PROVE  s.limited \in BOOLEAN /\ Good(Fatal(s, p))
  <2>1. s.limited \in BOOLEAN /\ Fatal(s, p) \in RunType
    BY <1>0 DEF RunType, Fatal, NoRun, InProgress
  <2> QED BY <2>1 DEF Good, WellFormed, Accounted, Fatal, NoRun, InProgress
<1> QED BY <1>1, <1>2, <1>3

\* Leaving a Theater resets its locals.
LEMMA LeftTheater ==
  ASSUME NEW s \in RunType
  PROVE  LeaveTheater(s) \in RunType
<1>1. 0 \in 0..MaxDates
  BY ConstantsAssumption DEF ConstantsAssumption
<1> QED BY <1>1 DEF LeaveTheater, RunType

\* A job is queued, or a cron run begins, with nothing done yet.
LEMMA NewRuns ==
  ASSUME NEW sc \in {"all", "one", "add", "cron"}, NEW th \in Theaters \cup {None},
         sc \in {"one", "add"} => th \in Theaters
  PROVE  /\ Good([NoRun EXCEPT !.pc = "queued", !.scope = sc, !.cur = th])
         /\ Good([NoRun EXCEPT !.pc = "prepare", !.scope = "cron"])
<1>1. /\ [NoRun EXCEPT !.pc = "queued", !.scope = sc, !.cur = th] \in RunType
      /\ [NoRun EXCEPT !.pc = "prepare", !.scope = "cron"] \in RunType
  BY FreshRuns DEF RunType, InProgress
<1> QED BY <1>1 DEF Good, WellFormed, Accounted, NoRun, InProgress

\* The moves of a run between its phases.
LEMMA ClaimedRun ==
  ASSUME NEW s, Good(s), s.pc = "queued"
  PROVE  Good([s EXCEPT !.pc = IF s.scope = "add" THEN "browser" ELSE "prepare"])
<1>1. [s EXCEPT !.pc = IF s.scope = "add" THEN "browser" ELSE "prepare"] \in RunType
  BY DEF Good, RunType, InProgress
<1> QED BY <1>1 DEF Good, WellFormed, Accounted, InProgress, RunType

\* A run that has its plan stays well formed.
LEMMA PreparedRun ==
  ASSUME NEW s, Good(s), s.pc = "prepare", s.scope # "add", NEW P \in SUBSET Theaters
  PROVE  Good([LeaveTheater(s) EXCEPT !.pc = "next", !.plan = P, !.todo = P])
<1>1. [LeaveTheater(s) EXCEPT !.pc = "next", !.plan = P, !.todo = P] \in RunType
  BY LeftTheater DEF Good, RunType, InProgress
<1>2. s.ok = {} /\ s.bad = {} /\ ~s.limited
  BY DEF Good, WellFormed
<1> QED BY <1>1, <1>2, ConstantsAssumption
        DEF ConstantsAssumption, Good, WellFormed, Accounted, InProgress, RunType, LeaveTheater

\* A run that takes its next Theater stays well formed.
LEMMA NextRun ==
  ASSUME NEW s, Good(s), s.pc = "next", NEW th \in s.todo, ~s.limited
  PROVE  Good([s EXCEPT !.pc = "browser", !.cur = th, !.todo = @ \ {th}])
<1> DEFINE t == [s EXCEPT !.pc = "browser", !.cur = th, !.todo = @ \ {th}]
<1>1. t \in RunType
  BY DEF Good, RunType, InProgress
<1>2. WellFormed(t)
  BY <1>1 DEF Good, WellFormed, RunType
<1>3. Accounted(t)
  BY <1>1, ConstantsAssumption DEF ConstantsAssumption, Good, Accounted, WellFormed, InProgress, RunType
<1> QED BY <1>1, <1>2, <1>3 DEF Good

\* A run that waits for a Chromium, or was given one, stays well formed.
LEMMA BrowserRun ==
  ASSUME NEW s, Good(s), s.pc \in {"browser", "launch"}, NEW b \in Chromiums
  PROVE  /\ Good([s EXCEPT !.pc = "launch"])
         /\ Good([s EXCEPT !.pc = "page", !.held = b])
<1>1. /\ [s EXCEPT !.pc = "launch"] \in RunType
      /\ [s EXCEPT !.pc = "page", !.held = b] \in RunType
  BY DEF Good, RunType, InProgress
<1> QED BY <1>1 DEF Good, WellFormed, Accounted, InProgress, RunType

\* A run whose Theater's page has loaded, with its dates, stays well formed.
LEMMA LoadedRun ==
  ASSUME NEW s, Good(s), s.pc = "page", NEW n \in 0..MaxDates
  PROVE  Good([s EXCEPT !.pc = "dates", !.held = None, !.dates = n,
                        !.best = IF n = 0 THEN "untried" ELSE "failed"])
<1>1. [s EXCEPT !.pc = "dates", !.held = None, !.dates = n,
                !.best = IF n = 0 THEN "untried" ELSE "failed"] \in RunType
  BY DEF Good, RunType, InProgress
<1> QED BY <1>1 DEF Good, WellFormed, Accounted, InProgress, RunType

\* The Theater at hand is counted as done or as failed.
LEMMA CountedRun ==
  ASSUME NEW s, Good(s), s.pc \in {"launch", "page", "dates"}, s.scope # "add"
  PROVE  /\ Good([LeaveTheater(s) EXCEPT !.pc = "next", !.bad = s.bad \cup {s.cur}])
         /\ Good([LeaveTheater(s) EXCEPT !.pc = "next", !.ok = s.ok \cup {s.cur}])
<1> DEFINE t == [LeaveTheater(s) EXCEPT !.pc = "next", !.bad = s.bad \cup {s.cur}]
           u == [LeaveTheater(s) EXCEPT !.pc = "next", !.ok = s.ok \cup {s.cur}]
<1>1. s \in RunType /\ s.cur \in Theaters
  BY DEF Good, WellFormed
<1>2. t \in RunType /\ u \in RunType
  BY <1>1, LeftTheater DEF RunType, InProgress
<1>3. WellFormed(t) /\ WellFormed(u)
  BY <1>1 DEF Good, WellFormed, LeaveTheater, RunType
<1>4. Accounted(t) /\ Accounted(u)
  BY <1>1, ConstantsAssumption DEF ConstantsAssumption, Good, Accounted, LeaveTheater, InProgress, RunType
<1> QED BY <1>2, <1>3, <1>4 DEF Good

\* A run that scraped a date, failed it or met a 429 stays well formed.
LEMMA DatedRun ==
  ASSUME NEW s, Good(s), s.pc = "dates", s.dates > 0,
         NEW best \in {"untried", "failed", "empty", "shows"}
  PROVE  /\ Good([s EXCEPT !.dates = @ - 1, !.best = best])
         /\ Good([s EXCEPT !.dates = @ - 1])
         /\ Good([s EXCEPT !.dates = 0, !.limited = TRUE])
<1>1. s.dates - 1 \in 0..MaxDates /\ 0 \in 0..MaxDates
  BY ConstantsAssumption DEF ConstantsAssumption, Good, RunType
<1>2. /\ [s EXCEPT !.dates = @ - 1, !.best = best] \in RunType
      /\ [s EXCEPT !.dates = @ - 1] \in RunType
      /\ [s EXCEPT !.dates = 0, !.limited = TRUE] \in RunType
  BY <1>1 DEF Good, RunType
<1>3. ~s.limited
  BY ConstantsAssumption DEF ConstantsAssumption, Good, WellFormed, RunType
<1> QED BY <1>2, <1>3 DEF Good, WellFormed, Accounted, InProgress, RunType

\* A run at its end, or that closes its Chromium, stays well formed.
LEMMA ClosingRun ==
  ASSUME NEW s, Good(s), NEW b \in Chromiums \cup {None}
  PROVE  /\ s.pc = "next" /\ (s.todo = {} \/ s.limited \/ s.fatal) =>
              /\ Good([s EXCEPT !.pc = "record"])
              /\ Good([s EXCEPT !.pc = "closing", !.held = b])
         /\ s.pc = "closing" => Good([s EXCEPT !.pc = "record", !.held = None])
         /\ s.pc = "dates" /\ s.scope = "add" => Good([LeaveTheater(s) EXCEPT !.pc = "next"])
<1>1. /\ [s EXCEPT !.pc = "record"] \in RunType
      /\ [s EXCEPT !.pc = "closing", !.held = b] \in RunType
      /\ [s EXCEPT !.pc = "record", !.held = None] \in RunType
      /\ [LeaveTheater(s) EXCEPT !.pc = "next"] \in RunType
  BY LeftTheater DEF Good, RunType, InProgress
<1> QED BY <1>1 DEF Good, WellFormed, Accounted, InProgress, RunType, LeaveTheater

-----------------------------------------------------------------------------
(***************************************************************************)
(* The process: what a step of one run leaves alone.                       *)
(***************************************************************************)
ReportType == [Reports -> {"none", "running", "success", "partial_success", "failed"}]
CatalogType == [Theaters -> {"absent", "provisioning", "active"}]

\* A step of a run in progress that leaves the queue alone and the browser known.
LEMMA RunStepInv ==
  ASSUME IInv, NEW r \in Reports, Busy(r), NEW s, Good(s), run' = [run EXCEPT ![r] = s],
         s.pc \in InProgress \cup {"ended"},
         catalog' \in CatalogType, report' \in ReportType,
         \A q \in Reports : report[q] # "none" => report'[q] # "none",
         UNCHANGED <<queue, overlapped, crashes>>,
         browser' \in Chromiums \cup {None}, alive' \subseteq Chromiums, BrowserKnown'
  PROVE  IInv'
<1>1. /\ run' \in [Reports -> RunType]
      /\ \A q \in Reports : WellFormed(run'[q]) /\ Accounted(run'[q])
      /\ run'[r] = s /\ \A q \in Reports \ {r} : run'[q] = run[q]
  BY OneRun
<1>2. TypeOK'
  BY <1>1 DEF IInv, TypeOK, CatalogType, ReportType
<1>3. QueueRefers'
  BY <1>1 DEF IInv, TypeOK, QueueRefers, At, Busy, InProgress
<1>4. Alone'
  BY <1>1 DEF IInv, Alone, Busy
<1> QED BY <1>1, <1>2, <1>3, <1>4 DEF IInv

\* The same for a step that has nothing to do with the browser.
LEMMA QuietStepInv ==
  ASSUME IInv, NEW r \in Reports, Busy(r), NEW s, Good(s), run' = [run EXCEPT ![r] = s],
         s.pc \in (InProgress \cup {"ended"}) \ {"launch", "closing"},
         catalog' \in CatalogType, report' \in ReportType,
         \A q \in Reports : report[q] # "none" => report'[q] # "none",
         UNCHANGED <<queue, browser, alive, overlapped, crashes>>
  PROVE  IInv'
<1>1. run'[r] = s /\ \A q \in Reports \ {r} : run'[q] = run[q]
  BY OneRun
<1>2. BrowserKnown'
  BY <1>1 DEF IInv, BrowserKnown, At
<1>3. browser' \in Chromiums \cup {None} /\ alive' \subseteq Chromiums
  BY DEF IInv, TypeOK
<1> QED BY <1>2, <1>3, RunStepInv

\* The tables as they were.
LEMMA SameTables ==
  ASSUME IInv
  PROVE  /\ catalog \in CatalogType /\ report \in ReportType
         /\ \A th \in Theaters \cup {None}, v \in {"absent", "provisioning", "active"} :
              [catalog EXCEPT ![th] = v] \in CatalogType
         /\ \A q \in Reports, v \in {"running", "success", "partial_success", "failed"} :
              /\ [report EXCEPT ![q] = v] \in ReportType
              /\ \A x \in Reports : report[x] # "none" => [report EXCEPT ![q] = v][x] # "none"
BY DEF IInv, TypeOK, CatalogType, ReportType

\* The initial states satisfy the invariant.
LEMMA InitInv == Init => IInv
<1> SUFFICES ASSUME Init PROVE IInv
  OBVIOUS
<1>1. TypeOK
  BY FreshRuns DEF Init, TypeOK
<1>2. \A r \in Reports : WellFormed(run[r]) /\ Accounted(run[r])
  BY DEF Init, NoRun, WellFormed, Accounted, InProgress
<1>3. QueueRefers /\ Alone /\ BrowserKnown
  BY DEF Init, NoRun, QueueRefers, Alone, BrowserKnown, Busy, InProgress
<1> QED BY <1>1, <1>2, <1>3 DEF IInv

\* A report and its job are written.
LEMMA EnqueueInv ==
  ASSUME IInv, NEW r \in Reports, NEW sc \in {"all", "one", "add"},
         NEW th \in Theaters \cup {None}, sc \in {"one", "add"} => th \in Theaters,
         Enqueue(r, sc, th), catalog' \in CatalogType
  PROVE  IInv'
<1> DEFINE s == [NoRun EXCEPT !.pc = "queued", !.scope = sc, !.cur = th]
<1>1. Good(s) /\ s.pc = "queued"
  BY NewRuns DEF NoRun
<1>2. run' = [run EXCEPT ![r] = s]
  BY DEF Enqueue
<1>3. /\ run' \in [Reports -> RunType]
      /\ \A q \in Reports : WellFormed(run'[q]) /\ Accounted(run'[q])
      /\ run'[r] = s /\ \A q \in Reports \ {r} : run'[q] = run[q]
  BY <1>1, <1>2, OneRun
<1>4. /\ report' \in ReportType /\ report'[r] = "running"
      /\ \A q \in Reports : report[q] # "none" => report'[q] # "none"
  BY SameTables DEF Enqueue, ReportType
<1>5. TypeOK'
  BY <1>3, <1>4 DEF Enqueue, IInv, TypeOK, ReportType, CatalogType
<1>6. QueueRefers'
  BY <1>1, <1>3, <1>4 DEF Enqueue, IInv, TypeOK, QueueRefers, At
<1>7. Alone'
  BY <1>1, <1>3 DEF Enqueue, IInv, Alone, Busy, InProgress
<1>8. BrowserKnown'
  BY <1>1, <1>3 DEF Enqueue, IInv, BrowserKnown, At
<1> QED BY <1>3, <1>5, <1>6, <1>7, <1>8 DEF IInv

\* The loop takes a job.
LEMMA ClaimInv ==
  ASSUME IInv, NEW r \in Reports, Claim(r)
  PROVE  IInv'
<1> DEFINE s == [run[r] EXCEPT !.pc = IF run[r].scope = "add" THEN "browser" ELSE "prepare"]
<1>1. Good(run[r]) /\ run[r].pc = "queued"
  BY EachRun DEF IInv, QueueRefers, Claim, At
<1>2. Good(s) /\ s.pc \in {"browser", "prepare"}
  BY <1>1, ClaimedRun DEF Good, RunType
<1>3. run' = [run EXCEPT ![r] = s]
  BY DEF Claim, Move
<1>4. /\ run' \in [Reports -> RunType]
      /\ \A q \in Reports : WellFormed(run'[q]) /\ Accounted(run'[q])
      /\ run'[r] = s /\ \A q \in Reports \ {r} : run'[q] = run[q]
  BY <1>2, <1>3, OneRun
<1>5. TypeOK'
  BY <1>4 DEF Claim, IInv, TypeOK
<1>6. QueueRefers'
  BY <1>4 DEF Claim, IInv, TypeOK, QueueRefers, At
<1>7. ~overlapped' => ~overlapped /\ \A q \in Reports : ~Busy(q)
  BY DEF Claim, LoopFree
<1>8. Alone'
  BY <1>4, <1>7 DEF Alone, Busy
<1>9. BrowserKnown'
  BY <1>2, <1>4, <1>7 DEF Claim, IInv, BrowserKnown, At
<1> QED BY <1>4, <1>5, <1>6, <1>8, <1>9 DEF IInv

\* A cron task fires.
LEMMA TickInv ==
  ASSUME IInv, NEW r \in Reports, Tick(r)
  PROVE  IInv'
<1> DEFINE s == [NoRun EXCEPT !.pc = "prepare", !.scope = "cron"]
<1>1. Good(s) /\ s.pc = "prepare"
  BY NewRuns DEF NoRun
<1>2. /\ run' \in [Reports -> RunType]
      /\ \A q \in Reports : WellFormed(run'[q]) /\ Accounted(run'[q])
      /\ run'[r] = s /\ \A q \in Reports \ {r} : run'[q] = run[q]
  BY <1>1, OneRun DEF Tick
<1>3. TypeOK'
  BY <1>2, SameTables DEF Tick, IInv, TypeOK, ReportType
<1>4. QueueRefers'
  BY <1>2 DEF Tick, Fresh, IInv, TypeOK, QueueRefers, At
<1>5. ~overlapped' => ~overlapped /\ \A q \in Reports : ~Busy(q)
  BY DEF Tick
<1>6. Alone'
  BY <1>2, <1>5 DEF Alone, Busy
<1>7. BrowserKnown'
  BY <1>1, <1>2, <1>5 DEF Tick, IInv, BrowserKnown, At
<1> QED BY <1>2, <1>3, <1>4, <1>6, <1>7 DEF IInv

-----------------------------------------------------------------------------
(***************************************************************************)
(* The steps of a run.                                                     *)
(***************************************************************************)

\* prepare, the loop over Theaters, and whatever throws in them.
LEMMA LoopInv ==
  ASSUME IInv, NEW r \in Reports, Prepare(r) \/ RunThrows(r) \/ NextTheater(r)
  PROVE  IInv'
<1>1. Good(run[r])
  BY EachRun
<1>2. CASE Prepare(r)
  <2> DEFINE P == Planned(r)
             s == [LeaveTheater(run[r]) EXCEPT !.pc = "next", !.plan = P, !.todo = P]
  <2>1. P \in SUBSET Theaters /\ run[r].scope # "add"
    BY <1>1, <1>2 DEF Planned, Prepare, At, Good, WellFormed
  <2>2. Good(s) /\ s.pc = "next"
    <3>1. Good(s)
      BY <1>1, <1>2, <2>1, PreparedRun DEF Prepare, At
    <3>2. s.pc = "next"
      BY <1>1, LeftTheater DEF Good, RunType
    <3> QED BY <3>1, <3>2
  <2>3. run' = [run EXCEPT ![r] = s] /\ Busy(r)
    BY <1>2 DEF Prepare, At, Busy, InProgress
  <2> HIDE DEF s
  <2> QED BY <1>2, <2>2, <2>3, QuietStepInv, SameTables DEF Prepare, InProgress
<1>3. CASE RunThrows(r)
  <2> DEFINE s == Fatal(run[r], "next")
  <2>1. Good(s) /\ s.pc = "next"
    BY <1>1, FreshRuns DEF Good, Fatal, NoRun
  <2> HIDE DEF s
  <2>2. run' = [run EXCEPT ![r] = s] /\ Busy(r)
    BY <1>3 DEF RunThrows, At, Busy, InProgress, s
  <2> QED BY <1>3, <2>1, <2>2, QuietStepInv, SameTables DEF RunThrows, InProgress
<1>4. CASE NextTheater(r)
  <2>1. PICK th \in run[r].todo :
          run' = [run EXCEPT ![r].pc = "browser", ![r].cur = th, ![r].todo = @ \ {th}]
    BY <1>4 DEF NextTheater
  <2> DEFINE s == [run[r] EXCEPT !.pc = "browser", !.cur = th, !.todo = @ \ {th}]
  <2>2. Good(s) /\ s.pc = "browser"
    BY <1>1, <1>4, NextRun DEF NextTheater, At, Over, Good, RunType
  <2>3. run' = [run EXCEPT ![r] = s] /\ Busy(r)
    BY <1>4, <2>1 DEF NextTheater, At, Busy, InProgress, IInv, TypeOK, RunType
  <2> HIDE DEF s
  <2> QED BY <1>4, <2>2, <2>3, QuietStepInv, SameTables DEF NextTheater, InProgress
<1> QED BY <1>2, <1>3, <1>4

\* The shared browser is found or launched, and the page is loaded or is not.
LEMMA PageInv ==
  ASSUME IInv, NEW r \in Reports,
         GetBrowser(r) \/ Launched(r) \/ PageLoads(r) \/ LoadFails(r)
  PROVE  IInv'
<1>1. Good(run[r])
  BY EachRun
<1>2. CASE GetBrowser(r) /\ Connected
  <2> DEFINE s == [run[r] EXCEPT !.pc = "page", !.held = browser]
  <2>1. browser \in Chromiums
    BY <1>2 DEF Connected, IInv, TypeOK
  <2>2. Good(s) /\ s.pc = "page"
    BY <1>1, <1>2, <2>1, BrowserRun DEF GetBrowser, At, Good, RunType
  <2>3. run' = [run EXCEPT ![r] = s] /\ Busy(r)
    BY <1>2 DEF GetBrowser, At, Busy, InProgress, IInv, TypeOK, RunType
  <2> HIDE DEF s
  <2> QED BY <1>2, <2>2, <2>3, QuietStepInv, SameTables DEF GetBrowser, InProgress
<1>3. CASE GetBrowser(r) /\ ~Connected
  <2> DEFINE s == [run[r] EXCEPT !.pc = "launch"]
  <2>2. Good(s) /\ s.pc = "launch"
    <3>1. s \in RunType
      BY <1>1 DEF Good, RunType, InProgress
    <3> QED BY <1>1, <1>3, <3>1 DEF GetBrowser, At, Good, WellFormed, Accounted, InProgress, RunType
  <2>3. run' = [run EXCEPT ![r] = s] /\ Busy(r)
    BY <1>3 DEF GetBrowser, At, Busy, InProgress, IInv, TypeOK, RunType
  <2>4. run'[r] = s /\ \A q \in Reports \ {r} : run'[q] = run[q]
    BY <2>2, <2>3, OneRun
  <2>5. ~overlapped => alive = {}
    BY <1>3 DEF Connected, IInv, BrowserKnown
  <2>6. BrowserKnown'
    BY <1>3, <2>2, <2>4, <2>5 DEF GetBrowser, IInv, BrowserKnown, At
  <2> HIDE DEF s
  <2> QED BY <1>3, <2>2, <2>3, <2>6, RunStepInv, SameTables DEF GetBrowser, InProgress, IInv, TypeOK
<1>4. CASE Launched(r)
  <2>1. PICK b \in Chromiums :
          /\ alive' = alive \cup {b}
          /\ browser' = b
          /\ run' = [run EXCEPT ![r].pc = "page", ![r].held = b]
    BY <1>4 DEF Launched
  <2> DEFINE s == [run[r] EXCEPT !.pc = "page", !.held = b]
  <2>2. Good(s) /\ s.pc = "page"
    BY <1>1, <1>4, BrowserRun DEF Launched, At, Good, RunType
  <2>3. run' = [run EXCEPT ![r] = s] /\ Busy(r)
    BY <1>4, <2>1 DEF Launched, At, Busy, InProgress, IInv, TypeOK, RunType
  <2>4. run'[r] = s /\ \A q \in Reports \ {r} : run'[q] = run[q]
    BY <2>2, <2>3, OneRun
  <2>5. ~overlapped => alive = {} /\ \A q \in Reports \ {r} : ~Busy(q)
    <3>1. ~overlapped => alive = {}
      BY <1>4 DEF Launched, IInv, BrowserKnown
    <3>2. ~overlapped => \A q \in Reports \ {r} : ~Busy(q)
      BY <2>3 DEF IInv, Alone
    <3> QED BY <3>1, <3>2
  <2>6. BrowserKnown'
    BY <1>4, <2>1, <2>2, <2>4, <2>5 DEF Launched, BrowserKnown, At, Busy, InProgress
  <2>7. browser' \in Chromiums \cup {None} /\ alive' \subseteq Chromiums
    BY <2>1 DEF IInv, TypeOK
  <2> HIDE DEF s
  <2> QED BY <1>4, <2>2, <2>3, <2>6, <2>7, RunStepInv, SameTables DEF Launched, InProgress
<1>5. CASE PageLoads(r)
  <2>1. PICK n \in 0..MaxDates :
          run' = [run EXCEPT ![r].pc = "dates", ![r].held = None, ![r].dates = n,
                             ![r].best = IF n = 0 THEN "untried" ELSE "failed"]
    BY <1>5 DEF PageLoads
  <2> DEFINE s == [run[r] EXCEPT !.pc = "dates", !.held = None, !.dates = n,
                                 !.best = IF n = 0 THEN "untried" ELSE "failed"]
  <2>2. Good(s) /\ s.pc = "dates"
    <3>1. Good(s)
      BY <1>1, <1>5, LoadedRun DEF PageLoads, At
    <3>2. s.pc = "dates"
      BY <1>1 DEF Good, RunType
    <3> QED BY <3>1, <3>2
  <2>3. run' = [run EXCEPT ![r] = s] /\ Busy(r)
    BY <1>5, <2>1 DEF PageLoads, At, Busy, InProgress, IInv, TypeOK, RunType
  <2>4. catalog' \in CatalogType
    BY <1>5, SameTables DEF PageLoads, CatalogType
  <2> HIDE DEF s
  <2> QED BY <1>5, <2>2, <2>3, <2>4, QuietStepInv, SameTables DEF PageLoads, InProgress
<1>6. CASE LoadFails(r) /\ run[r].scope = "add"
  <2> DEFINE s == Fatal(run[r], "record")
  <2>1. Good(s) /\ s.pc = "record"
    BY <1>1, FreshRuns DEF Good, Fatal, NoRun
  <2> HIDE DEF s
  <2>2. run' = [run EXCEPT ![r] = s] /\ Busy(r)
    BY <1>6 DEF LoadFails, At, Busy, InProgress, s
  <2> QED BY <1>6, <2>1, <2>2, QuietStepInv, SameTables DEF LoadFails, InProgress
<1>7. CASE LoadFails(r) /\ run[r].scope # "add"
  <2> DEFINE s == [LeaveTheater(run[r]) EXCEPT !.pc = "next", !.bad = run[r].bad \cup {run[r].cur}]
  <2>1. Good(s) /\ s.pc = "next"
    <3>1. Good(s)
      BY <1>1, <1>7, CountedRun DEF LoadFails, FailedTheaters, InProgress
    <3>2. s.pc = "next"
      BY <1>1, LeftTheater DEF Good, RunType
    <3> QED BY <3>1, <3>2
  <2> HIDE DEF s
  <2>2. run' = [run EXCEPT ![r] = s] /\ Busy(r)
    BY <1>7 DEF LoadFails, FailedTheaters, At, Busy, InProgress, s
  <2> QED BY <1>7, <2>1, <2>2, QuietStepInv, SameTables DEF LoadFails, InProgress
<1> QED BY <1>2, <1>3, <1>4, <1>5, <1>6, <1>7

\* The dates of a Theater.
LEMMA DatesInv ==
  ASSUME IInv, NEW r \in Reports, DateSucceeds(r) \/ DateFails(r) \/ DateRateLimited(r)
  PROVE  IInv'
<1>1. Good(run[r])
  BY EachRun
<1>2. CASE DateSucceeds(r)
  <2>1. PICK found \in {"empty", "shows"} :
          run' = [run EXCEPT ![r].dates = @ - 1, ![r].best = IF @ = "shows" THEN @ ELSE found]
    BY <1>2 DEF DateSucceeds
  <2> DEFINE best == IF run[r].best = "shows" THEN run[r].best ELSE found
             s == [run[r] EXCEPT !.dates = @ - 1, !.best = best]
  <2>2. Good(s)
    BY <1>1, <1>2, DatedRun DEF DateSucceeds, At
  <2>3. s.pc = "dates"
    BY <1>1, <1>2 DEF DateSucceeds, At, Good, RunType
  <2>4. run' = [run EXCEPT ![r] = s] /\ Busy(r)
    BY <1>2, <2>1 DEF DateSucceeds, At, Busy, InProgress, IInv, TypeOK, RunType
  <2> HIDE DEF s
  <2> QED BY <1>2, <2>2, <2>3, <2>4, QuietStepInv, SameTables DEF DateSucceeds, InProgress
<1>3. CASE DateFails(r)
  <2> DEFINE s == [run[r] EXCEPT !.dates = @ - 1]
  <2>1. Good(s)
    BY <1>1, <1>3, DatedRun DEF DateFails, At
  <2>2. s.pc = "dates"
    BY <1>1, <1>3 DEF DateFails, At, Good, RunType
  <2>3. run' = [run EXCEPT ![r] = s] /\ Busy(r)
    BY <1>3 DEF DateFails, At, Busy, InProgress, IInv, TypeOK, RunType
  <2> HIDE DEF s
  <2> QED BY <1>3, <2>1, <2>2, <2>3, QuietStepInv, SameTables DEF DateFails, InProgress
<1>4. CASE DateRateLimited(r)
  <2> DEFINE s == [run[r] EXCEPT !.dates = 0, !.limited = TRUE]
  <2>1. Good(s)
    BY <1>1, <1>4, DatedRun DEF DateRateLimited, At
  <2>2. s.pc = "dates"
    BY <1>1, <1>4 DEF DateRateLimited, At, Good, RunType
  <2>3. run' = [run EXCEPT ![r] = s] /\ Busy(r)
    BY <1>4 DEF DateRateLimited, At, Busy, InProgress, IInv, TypeOK, RunType
  <2> HIDE DEF s
  <2> QED BY <1>4, <2>1, <2>2, <2>3, QuietStepInv, SameTables DEF DateRateLimited, InProgress
<1> QED BY <1>2, <1>3, <1>4

\* What becomes of the Theater's row, and of the Theater in the summary.
LEMMA SettleInv ==
  ASSUME IInv, NEW r \in Reports, SettleTheater(r) \/ SettleAdd(r) \/ SettleAddThrows(r)
  PROVE  IInv'
<1>1. Good(run[r])
  BY EachRun
<1>2. run[r].pc = "dates" /\ run[r].cur \in Theaters /\ Busy(r)
  BY <1>1 DEF SettleTheater, SettleAdd, SettleAddThrows, At, Good, WellFormed, Busy, InProgress
<1>3. catalog' \in CatalogType
  <2>1. Settled(r) \in {"absent", "provisioning", "active"}
    BY <1>2 DEF Settled, IInv, TypeOK
  <2>2. [catalog EXCEPT ![run[r].cur] = Settled(r)] \in CatalogType
    BY <1>2, <2>1, SameTables
  <2> QED BY <2>2, SameTables DEF SettleTheater, SettleAdd, SettleAddThrows
<1>4. CASE SettleTheater(r)
  <2> DEFINE s == [Summarized(r) EXCEPT !.pc = "next"]
  <2>1. Good(s)
    <3> DEFINE t == [LeaveTheater(run[r]) EXCEPT !.pc = "next", !.bad = run[r].bad \cup {run[r].cur}]
               u == [LeaveTheater(run[r]) EXCEPT !.pc = "next", !.ok = run[r].ok \cup {run[r].cur}]
    <3>1. Good(t) /\ Good(u)
      BY <1>1, <1>2, <1>4, CountedRun DEF SettleTheater
    <3>2. s = t \/ s = u
      BY <1>1, LeftTheater DEF Summarized, LeaveTheater, Good, RunType
    <3> QED BY <3>1, <3>2
  <2>2. s.pc = "next"
    BY <1>1, LeftTheater DEF Summarized, LeaveTheater, Good, RunType
  <2>3. run' = [run EXCEPT ![r] = s]
    BY <1>4 DEF SettleTheater
  <2> HIDE DEF s
  <2> QED BY <1>2, <1>3, <1>4, <2>1, <2>2, <2>3, QuietStepInv, SameTables
          DEF SettleTheater, InProgress
<1>5. CASE SettleAdd(r) /\ Scraped(r)
  <2> DEFINE s == [LeaveTheater(run[r]) EXCEPT !.pc = "next"]
  <2>1. Good(s)
    BY <1>1, <1>2, <1>5, ClosingRun DEF SettleAdd
  <2>2. s.pc = "next"
    BY <1>1, LeftTheater DEF Good, RunType
  <2>3. run' = [run EXCEPT ![r] = s]
    BY <1>5 DEF SettleAdd
  <2> HIDE DEF s
  <2> QED BY <1>2, <1>3, <1>5, <2>1, <2>2, <2>3, QuietStepInv, SameTables DEF SettleAdd, InProgress
<1>6. CASE (SettleAdd(r) /\ ~Scraped(r)) \/ SettleAddThrows(r)
  <2> DEFINE s == Fatal(run[r], "record")
  <2>1. Good(s)
    BY <1>1, FreshRuns DEF Good
  <2>2. s.pc = "record"
    BY DEF Fatal, NoRun
  <2>3. run' = [run EXCEPT ![r] = s]
    BY <1>6 DEF SettleAdd, SettleAddThrows
  <2> HIDE DEF s
  <2> QED BY <1>2, <1>3, <1>6, <2>1, <2>2, <2>3, QuietStepInv, SameTables
          DEF SettleAdd, SettleAddThrows, InProgress
<1> QED BY <1>4, <1>5, <1>6

\* The end of a run: the browser is closed and the outcome recorded.
LEMMA EndInv ==
  ASSUME IInv, NEW r \in Reports,
         CloseBrowser(r) \/ BrowserClosed(r) \/ Record(r) \/ RecordThrows(r)
  PROVE  IInv'
<1>1. Good(run[r])
  BY EachRun
<1>2. CASE CloseBrowser(r) /\ browser = None
  <2> DEFINE s == [run[r] EXCEPT !.pc = "record"]
  <2>1. Good(s)
    BY <1>1, <1>2, ClosingRun DEF CloseBrowser, At, Over
  <2>2. s.pc = "record"
    BY <1>1 DEF Good, RunType
  <2>3. run' = [run EXCEPT ![r] = s] /\ Busy(r)
    BY <1>2 DEF CloseBrowser, At, Busy, InProgress
  <2> HIDE DEF s
  <2> QED BY <1>2, <2>1, <2>2, <2>3, QuietStepInv, SameTables DEF CloseBrowser, InProgress
<1>3. CASE CloseBrowser(r) /\ browser # None
  <2> DEFINE s == [run[r] EXCEPT !.pc = "closing", !.held = browser]
  <2>1. Good(s)
    BY <1>1, <1>3, ClosingRun DEF CloseBrowser, At, Over, IInv, TypeOK
  <2>2. s.pc = "closing" /\ s.held = browser
    BY <1>1 DEF Good, RunType
  <2>3. run' = [run EXCEPT ![r] = s] /\ Busy(r)
    BY <1>3 DEF CloseBrowser, At, Busy, InProgress, IInv, TypeOK, RunType
  <2>4. run'[r] = s /\ \A q \in Reports \ {r} : run'[q] = run[q]
    BY <2>1, <2>3, OneRun
  <2> HIDE DEF s
  <2>5. BrowserKnown'
    BY <1>3, <2>2, <2>4 DEF CloseBrowser, IInv, BrowserKnown, At
  <2> QED BY <1>3, <2>1, <2>2, <2>3, <2>5, RunStepInv, SameTables
          DEF CloseBrowser, InProgress, IInv, TypeOK
<1>4. CASE BrowserClosed(r)
  <2> DEFINE s == [run[r] EXCEPT !.pc = "record", !.held = None]
  <2>1. Good(s)
    BY <1>1, <1>4, ClosingRun DEF BrowserClosed, At
  <2>2. s.pc = "record"
    BY <1>1 DEF Good, RunType
  <2>3. run' = [run EXCEPT ![r] = s] /\ Busy(r)
    BY <1>4 DEF BrowserClosed, At, Busy, InProgress, IInv, TypeOK, RunType
  <2>4. run'[r] = s /\ \A q \in Reports \ {r} : run'[q] = run[q]
    BY <2>1, <2>3, OneRun
  <2> HIDE DEF s
  <2>5. ~overlapped => alive = {}
    BY <1>4 DEF BrowserClosed, At, IInv, BrowserKnown
  <2>6. ~overlapped => \A q \in Reports \ {r} : ~Busy(q)
    BY <2>3 DEF IInv, Alone
  <2>7. BrowserKnown'
    <3>1. ~overlapped => \A q \in Reports : run'[q].pc \notin {"launch", "closing"}
      BY <2>2, <2>4, <2>6 DEF Busy, InProgress
    <3> QED BY <1>4, <2>5, <3>1 DEF BrowserClosed, BrowserKnown, At
  <2> QED BY <1>4, <2>1, <2>2, <2>3, <2>7, RunStepInv, SameTables
          DEF BrowserClosed, InProgress, IInv, TypeOK
<1>5. CASE Record(r) \/ RecordThrows(r)
  <2>1. Good(Ended) /\ Ended.pc = "ended"
    BY FreshRuns DEF Ended, NoRun
  <2>2. run' = [run EXCEPT ![r] = Ended] /\ Busy(r)
    BY <1>5 DEF Record, RecordThrows, At, Busy, InProgress
  <2>3. Outcome(r) \in {"success", "partial_success", "failed"}
    BY DEF Outcome
  <2>4. /\ report' \in ReportType
        /\ \A q \in Reports : report[q] # "none" => report'[q] # "none"
    <3>1. report' = report \/ \E v \in {"success", "partial_success", "failed"} :
                                report' = [report EXCEPT ![r] = v]
      BY <1>5, <2>3 DEF Record, RecordThrows
    <3>2. CASE report' = report
      BY <3>2, SameTables
    <3>3. ASSUME NEW v \in {"success", "partial_success", "failed"},
                 report' = [report EXCEPT ![r] = v]
          PROVE  /\ report' \in ReportType
                 /\ \A q \in Reports : report[q] # "none" => report'[q] # "none"
      <4>1. v \in {"running", "success", "partial_success", "failed"}
        OBVIOUS
      <4> QED BY <3>3, <4>1, SameTables
    <3> QED BY <3>1, <3>2, <3>3
  <2> QED BY <1>5, <2>1, <2>2, <2>4, QuietStepInv, SameTables DEF Record, RecordThrows
<1> QED BY <1>2, <1>3, <1>4, <1>5

-----------------------------------------------------------------------------
(***************************************************************************)
(* The environment, and every step.                                        *)
(***************************************************************************)

\* A Theater is deleted, a Chromium ends, the process dies.
LEMMA EnvironmentInv ==
  ASSUME IInv,
         \/ \E th \in Theaters : DeleteTheater(th)
         \/ \E b \in Chromiums : ChromiumCloses(b) \/ ChromiumCrashes(b)
         \/ Crash
  PROVE  IInv'
<1>1. CASE \E th \in Theaters : DeleteTheater(th)
  <2>1. catalog' \in CatalogType
    BY <1>1, SameTables DEF DeleteTheater
  <2>2. TypeOK'
    BY <1>1, <2>1 DEF DeleteTheater, CatalogType, IInv, TypeOK
  <2>3. QueueRefers' /\ Alone' /\ BrowserKnown'
    BY <1>1 DEF DeleteTheater, IInv, QueueRefers, Alone, BrowserKnown, At, Busy
  <2> QED BY <1>1, <2>2, <2>3 DEF DeleteTheater, IInv
<1>2. CASE \E b \in Chromiums : ChromiumCloses(b) \/ ChromiumCrashes(b)
  <2>1. alive' \subseteq alive /\ crashes' \in Nat
    BY <1>2 DEF ChromiumCloses, ChromiumCrashes, IInv, TypeOK
  <2>2. UNCHANGED <<catalog, report, queue, run, browser, overlapped>>
    BY <1>2 DEF ChromiumCloses, ChromiumCrashes
  <2>3. TypeOK'
    BY <2>1, <2>2 DEF IInv, TypeOK
  <2>4. QueueRefers' /\ Alone'
    BY <2>2 DEF IInv, QueueRefers, Alone, At, Busy
  <2>5. BrowserKnown'
    BY <2>1, <2>2 DEF IInv, BrowserKnown, At
  <2> QED BY <2>2, <2>3, <2>4, <2>5 DEF IInv
<1>3. CASE Crash
  <2>1. ASSUME NEW r \in Reports
        PROVE  /\ Good(run'[r]) /\ run'[r].pc \notin InProgress
               /\ ~Busy(r) => run'[r] = run[r]
    <3>1. run'[r] = IF Busy(r) THEN Ended ELSE run[r]
      BY <1>3 DEF Crash
    <3>2. Good(Ended) /\ Ended.pc = "ended"
      BY FreshRuns DEF Ended, NoRun
    <3> QED BY <3>1, <3>2, EachRun DEF Busy, InProgress
  <2>2. run' \in [Reports -> RunType] /\ \A r \in Reports : WellFormed(run'[r]) /\ Accounted(run'[r])
    <3>1. run' = [r \in Reports |-> run'[r]]
      BY <1>3 DEF Crash
    <3> QED BY <2>1, <3>1 DEF Good
  <2>3. TypeOK'
    BY <1>3, <2>2 DEF Crash, IInv, TypeOK
  <2>4. QueueRefers'
    BY <1>3, <2>1 DEF Crash, IInv, TypeOK, QueueRefers, At, Busy, InProgress
  <2>5. Alone'
    BY <2>1 DEF Alone, Busy
  <2>6. BrowserKnown'
    BY <1>3, <2>1 DEF Crash, BrowserKnown, At, InProgress
  <2> QED BY <2>2, <2>3, <2>4, <2>5, <2>6 DEF IInv
<1> QED BY <1>1, <1>2, <1>3

\* Every step keeps the invariant.
LEMMA StepInv == IInv /\ [Next]_vars => IInv'
<1> SUFFICES ASSUME IInv, [Next]_vars PROVE IInv'
  OBVIOUS
<1>1. ASSUME NEW r \in Reports, WebStep(r) PROVE IInv'
  <2>1. CASE TriggerAll(r)
    BY <2>1, EnqueueInv, SameTables DEF TriggerAll
  <2>2. ASSUME NEW th \in Theaters, TriggerOne(r, th) PROVE IInv'
    BY <2>2, EnqueueInv, SameTables DEF TriggerOne
  <2>3. ASSUME NEW th \in Theaters, TriggerAdd(r, th) PROVE IInv'
    BY <2>3, EnqueueInv, SameTables DEF TriggerAdd
  <2> QED BY <1>1, <2>1, <2>2, <2>3 DEF WebStep
<1>2. ASSUME NEW r \in Reports, RunStep(r) PROVE IInv'
  BY <1>2, LoopInv, PageInv, DatesInv, SettleInv, EndInv DEF RunStep
<1>3. CASE UNCHANGED vars
  <2>1. TypeOK'
    BY <1>3 DEF vars, IInv, TypeOK
  <2>2. QueueRefers' /\ Alone' /\ BrowserKnown'
    BY <1>3 DEF vars, IInv, QueueRefers, Alone, BrowserKnown, At, Busy
  <2> QED BY <1>3, <2>1, <2>2 DEF vars, IInv
<1> QED BY <1>1, <1>2, <1>3, ClaimInv, TickInv, EnvironmentInv DEF Next

\* Nobody but the run itself, when it records its outcome, writes a success.
LEMMA OnlyRecordReports ==
  ASSUME IInv, [Next]_vars, NEW r \in Reports,
         report'[r] # report[r], report'[r] \in {"success", "partial_success"}
  PROVE  Record(r)
<1>1. ASSUME NEW q \in Reports, WebStep(q) \/ Claim(q) \/ Tick(q) PROVE FALSE
  BY <1>1 DEF WebStep, TriggerAll, TriggerOne, TriggerAdd, Enqueue, Claim, Tick, IInv, TypeOK
<1>2. ASSUME NEW q \in Reports, RunStep(q), ~Record(q) PROVE FALSE
  <2>1. CASE RecordThrows(q)
    BY <2>1 DEF RecordThrows, IInv, TypeOK
  <2>2. CASE report' = report
    BY <2>2
  <2> QED BY <1>2, <2>1, <2>2
          DEF RunStep, Prepare, RunThrows, NextTheater, GetBrowser, Launched, PageLoads, LoadFails,
              DateSucceeds, DateFails, DateRateLimited, SettleTheater, SettleAdd, SettleAddThrows,
              CloseBrowser, BrowserClosed
<1>3. ASSUME NEW q \in Reports, Record(q) PROVE q = r
  BY <1>3 DEF Record, IInv, TypeOK
<1>4. CASE \/ \E th \in Theaters : DeleteTheater(th)
           \/ \E b \in Chromiums : ChromiumCloses(b) \/ ChromiumCrashes(b)
           \/ Crash \/ UNCHANGED vars
  BY <1>4 DEF DeleteTheater, ChromiumCloses, ChromiumCrashes, Crash, vars
<1> QED BY <1>1, <1>2, <1>3, <1>4 DEF Next

-----------------------------------------------------------------------------
(***************************************************************************)
(* The theorems.                                                           *)
(***************************************************************************)

\* The inductive invariant holds throughout.
THEOREM Invariant == Spec => []IInv
BY InitInv, StepInv, PTL DEF Spec

\* Tables, runs and Chromiums hold values of their kind.
THEOREM TypeCorrect == Spec => []TypeOK
<1>1. IInv => TypeOK
  BY DEF IInv
<1> QED BY <1>1, Invariant, PTL

\* Unless a cron run met another run, at most one Chromium runs.
THEOREM OneBrowser == Spec => []OneBrowserUnlessOverlap
<1>1. IInv => OneBrowserUnlessOverlap
  BY DEF IInv, BrowserKnown, OneBrowserUnlessOverlap
<1> QED BY <1>1, Invariant, PTL

\* A run that met a 429 asks the site for nothing more.
THEOREM LimitIsRespected == Spec => []LimitedStops
<1>1. IInv => LimitedStops
  BY DEF IInv, WellFormed, LimitedStops
<1> QED BY <1>1, Invariant, PTL

\* A report that says success or partial_success accounts for each planned Theater.
THEOREM SummariesAgree == Spec => SummaryCoversPlan
<1> DEFINE Agrees(r) ==
      /\ report'[r] # report[r] /\ report'[r] \in {"success", "partial_success"}
      /\ run[r].scope # "add" /\ ~run[r].limited
      => /\ run[r].ok \cup run[r].bad = run[r].plan
         /\ run[r].ok \cap run[r].bad = {}
         /\ report'[r] = "success" <=> run[r].ok = run[r].plan
<1>1. ASSUME IInv, [Next]_vars, NEW r \in Reports,
             report'[r] # report[r], report'[r] \in {"success", "partial_success"},
             run[r].scope # "add", ~run[r].limited
      PROVE  /\ run[r].ok \cup run[r].bad = run[r].plan
             /\ run[r].ok \cap run[r].bad = {}
             /\ report'[r] = "success" <=> run[r].ok = run[r].plan
  <2>1. Record(r)
    BY <1>1, OnlyRecordReports
  <2>2. report'[r] = Outcome(r) /\ run[r].pc = "record"
    BY <1>1, <2>1 DEF Record, At, IInv, TypeOK
  <2>3. ~run[r].fatal /\ (run[r].bad = {} <=> report'[r] = "success")
    BY <1>1, <2>2 DEF Outcome
  <2>4. /\ run[r].plan = run[r].ok \cup run[r].bad
        /\ run[r].ok \cap run[r].bad = {}
    BY <1>1, <2>2, <2>3 DEF IInv, WellFormed, Accounted, InProgress
  <2> QED BY <2>3, <2>4
<1>2. IInv /\ [Next]_vars => [\A r \in Reports : Agrees(r)]_vars
  BY <1>1
<1> QED BY <1>2, Invariant, PTL DEF Spec, SummaryCoversPlan

\* No step takes an active Theater back to provisioning.
THEOREM ActiveNeverReset == Spec => ActiveStays
<1>1. ASSUME IInv, [Next]_vars, NEW th \in Theaters, catalog[th] = "active"
      PROVE  catalog'[th] # "provisioning"
  <2>1. ASSUME NEW r \in Reports, WebStep(r) \/ Claim(r) \/ Tick(r)
        PROVE  catalog'[th] # "provisioning"
    BY <1>1, <2>1
       DEF WebStep, TriggerAll, TriggerOne, TriggerAdd, Claim, Tick, IInv, TypeOK
  <2>2. ASSUME NEW r \in Reports, PageLoads(r)
        PROVE  catalog'[th] # "provisioning"
    BY <1>1, <2>2 DEF PageLoads, IInv, TypeOK
  <2>3. ASSUME NEW r \in Reports, SettleTheater(r) \/ SettleAdd(r)
        PROVE  catalog'[th] # "provisioning"
    BY <1>1, <2>3 DEF SettleTheater, SettleAdd, Settled, Scraped, IInv, TypeOK
  <2>4. ASSUME NEW r \in Reports, RunStep(r)
        PROVE  catalog' = catalog \/ PageLoads(r) \/ SettleTheater(r) \/ SettleAdd(r)
    BY <2>4 DEF RunStep, Prepare, RunThrows, NextTheater, GetBrowser, Launched, LoadFails,
              DateSucceeds, DateFails, DateRateLimited, SettleAddThrows,
              CloseBrowser, BrowserClosed, Record, RecordThrows
  <2>5. CASE \/ \E t \in Theaters : DeleteTheater(t)
             \/ \E b \in Chromiums : ChromiumCloses(b) \/ ChromiumCrashes(b)
             \/ Crash \/ UNCHANGED vars
    BY <1>1, <2>5 DEF DeleteTheater, ChromiumCloses, ChromiumCrashes, Crash, vars, IInv, TypeOK
  <2> QED BY <1>1, <2>1, <2>2, <2>3, <2>4, <2>5 DEF Next
<1>2. IInv /\ [Next]_vars =>
        [\A th \in Theaters : catalog[th] = "active" => catalog'[th] # "provisioning"]_vars
  BY <1>1
<1> QED BY <1>2, Invariant, PTL DEF Spec, ActiveStays

-----------------------------------------------------------------------------
(***************************************************************************)
(* Every run comes to its end.                                             *)
(***************************************************************************)

\* A run exists only with its report.
Reported == \A r \in Reports : report[r] = "none" => run[r].pc = "idle"

\* Reports are written before their runs, and no report disappears.
LEMMA ReportedSteps == IInv /\ Reported /\ [Next]_vars => Reported'
<1> SUFFICES ASSUME IInv, Reported, [Next]_vars, NEW q \in Reports, report'[q] = "none"
             PROVE  run'[q].pc = "idle"
  BY DEF Reported
<1> USE DEF IInv, TypeOK, Reported
<1>1. ASSUME NEW r \in Reports, WebStep(r) \/ Tick(r) PROVE run'[q].pc = "idle"
  BY <1>1 DEF WebStep, TriggerAll, TriggerOne, TriggerAdd, Enqueue, Tick
<1>2. ASSUME NEW r \in Reports, Claim(r) PROVE run'[q].pc = "idle"
  BY <1>2 DEF Claim, Move, QueueRefers
<1>3. ASSUME NEW r \in Reports, Busy(r), NEW s, run' = [run EXCEPT ![r] = s],
             report[q] = "none"
      PROVE  run'[q].pc = "idle"
  BY <1>3 DEF Busy, InProgress
<1>4. ASSUME NEW r \in Reports, RunStep(r) PROVE report[q] = "none"
  <2>1. CASE Record(r)
    BY <2>1 DEF Record, Outcome
  <2>2. CASE RecordThrows(r)
    BY <2>2 DEF RecordThrows
  <2>3. CASE report' = report
    BY <2>3
  <2> QED BY <1>4, <2>1, <2>2, <2>3
          DEF RunStep, Prepare, RunThrows, NextTheater, GetBrowser, Launched, PageLoads, LoadFails,
              DateSucceeds, DateFails, DateRateLimited, SettleTheater, SettleAdd, SettleAddThrows,
              CloseBrowser, BrowserClosed
<1>5. ASSUME NEW r \in Reports, RunStep(r) PROVE run'[q].pc = "idle"
  <2>1. Busy(r) /\ r # q
    BY <1>4, <1>5 DEF RunStep, Prepare, RunThrows, NextTheater, GetBrowser, Launched, PageLoads, LoadFails,
              DateSucceeds, DateFails, DateRateLimited, SettleTheater, SettleAdd, SettleAddThrows,
              CloseBrowser, BrowserClosed, Record, RecordThrows, At, Busy, InProgress
  <2>2. run'[q] = run[q]
    BY <1>5, <2>1 DEF RunStep, Prepare, RunThrows, NextTheater, GetBrowser, Launched, PageLoads, LoadFails,
              DateSucceeds, DateFails, DateRateLimited, SettleTheater, SettleAdd, SettleAddThrows,
              CloseBrowser, BrowserClosed, Record, RecordThrows
  <2> QED BY <1>4, <1>5, <2>2
<1>6. CASE \/ \E th \in Theaters : DeleteTheater(th)
           \/ \E b \in Chromiums : ChromiumCloses(b) \/ ChromiumCrashes(b)
           \/ Crash \/ UNCHANGED vars
  BY <1>6 DEF DeleteTheater, ChromiumCloses, ChromiumCrashes, Crash, Busy, InProgress, vars
<1> QED BY <1>1, <1>2, <1>5, <1>6 DEF Next

\* The sets of Theaters before a run can be counted.
LEMMA Counted ==
  ASSUME NEW S \in SUBSET Theaters
  PROVE  /\ Cardinality(S) \in Nat /\ Cardinality(S) <= Cardinality(Theaters)
         /\ Cardinality(Theaters) \in Nat /\ Cardinality({}) = 0
         /\ S # {} => Cardinality(S) > 0
         /\ \A th \in S : Cardinality(S \ {th}) < Cardinality(S)
<1>1. IsFiniteSet(Theaters) /\ IsFiniteSet(S) /\ Cardinality(S) <= Cardinality(Theaters)
  BY ConstantsAssumption, FS_Subset DEF ConstantsAssumption
<1>2. Cardinality(S) \in Nat /\ Cardinality(Theaters) \in Nat
  BY <1>1, FS_CardinalityType
<1>3. Cardinality({}) = 0 /\ (Cardinality(S) = 0 <=> S = {})
  BY <1>1, FS_EmptySet
<1>4. ASSUME NEW th \in S PROVE Cardinality(S \ {th}) < Cardinality(S)
  <2>1. Cardinality(S \ {th}) = Cardinality(S) - 1
    BY <1>1, FS_RemoveElement
  <2> QED BY <1>2, <2>1
<1> QED BY <1>1, <1>2, <1>3, <1>4

\* The stages, by name.
LEMMA Stages ==
  /\ MaxDates \in Nat
  /\ Stage["ended"] = 0 /\ Stage["record"] = 1 /\ Stage["closing"] = 2 /\ Stage["next"] = 4
  /\ Stage["dates"] = 5 /\ Stage["page"] = 6 + MaxDates /\ Stage["launch"] = 7 + MaxDates
  /\ Stage["browser"] = 8 + MaxDates
BY ConstantsAssumption DEF ConstantsAssumption, Stage

\* A run whose Theaters are fewer is nearer to its end.
LEMMA FewerTheaters ==
  ASSUME NEW s, NEW t, s.todo \in SUBSET Theaters, s.pc # "prepare", t.todo \in SUBSET Theaters,
         t.pc = "prepare" \/ (\E th \in t.todo : s.todo = t.todo \ {th}) \/ (s.todo = {} /\ t.todo # {})
  PROVE  Nearer(s, t)
<1>1. CASE t.pc = "prepare"
  <2>1. Cardinality(s.todo) < Cardinality(Theaters) + 1
    BY Counted
  <2> QED BY <1>1, <2>1 DEF Nearer, TheatersLeft
<1>2. CASE t.pc # "prepare"
  <2>1. Cardinality(s.todo) < Cardinality(t.todo)
    BY <1>2, Counted
  <2> QED BY <1>2, <2>1 DEF Nearer, TheatersLeft
<1> QED BY <1>1, <1>2

\* So is one at a later stage of the same Theater, or of none.
LEMMA LaterStage ==
  ASSUME NEW s, NEW t, s.pc # "prepare", t.pc # "prepare", s.todo = t.todo, StagesLeft(s) < StagesLeft(t)
  PROVE  Nearer(s, t)
BY DEF Nearer, TheatersLeft

\* prepare, the loop over Theaters, the browser and the page take a run forward.
LEMMA NearerLoop ==
  ASSUME IInv, NEW r \in Reports,
         \/ Prepare(r) \/ RunThrows(r) \/ NextTheater(r)
         \/ GetBrowser(r) \/ Launched(r) \/ PageLoads(r) \/ LoadFails(r)
  PROVE  \E s : run' = [run EXCEPT ![r] = s] /\ Nearer(s, run[r])
<1> DEFINE t == run[r]
<1>1. t \in RunType /\ WellFormed(t) /\ MaxDates \in Nat
  BY EachRun, Stages DEF Good
<1>2. t.todo \in SUBSET Theaters /\ t.dates \in Nat /\ {} \in SUBSET Theaters
  BY <1>1 DEF RunType
<1>3. CASE Prepare(r)
  <2> DEFINE s == [LeaveTheater(t) EXCEPT !.pc = "next", !.plan = Planned(r), !.todo = Planned(r)]
  <2>1. t.pc = "prepare" /\ t.scope # "add"
    BY <1>1, <1>3 DEF Prepare, At, WellFormed
  <2>2. Planned(r) \in SUBSET Theaters
    BY <1>1, <2>1 DEF Planned, WellFormed
  <2>3. s.pc = "next" /\ s.todo = Planned(r)
    BY <1>1 DEF RunType, LeaveTheater
  <2> QED BY <1>2, <1>3, <2>1, <2>2, <2>3, FewerTheaters DEF Prepare
<1>4. CASE RunThrows(r)
  <2> DEFINE s == Fatal(t, "next")
  <2>1. s.pc = "next" /\ s.todo = {} /\ s.dates = 0 /\ s.fatal
    BY DEF Fatal, NoRun
  <2>2. t.pc \in {"prepare", "dates", "next"} /\ ~t.fatal
    BY <1>4 DEF RunThrows, At
  <2>3. Nearer(s, t)
    <3>1. CASE t.pc = "prepare" \/ t.todo # {}
      BY <1>2, <2>1, <3>1, FewerTheaters
    <3>2. CASE t.pc # "prepare" /\ t.todo = {}
      <4>1. StagesLeft(s) < StagesLeft(t)
        BY <1>2, <2>1, <2>2, <3>2, Stages DEF StagesLeft
      <4> QED BY <2>1, <3>2, <4>1, LaterStage
    <3> QED BY <3>1, <3>2
  <2> QED BY <1>4, <2>3 DEF RunThrows
<1>5. CASE NextTheater(r)
  <2>1. PICK th \in t.todo : run' = [run EXCEPT ![r].pc = "browser", ![r].cur = th, ![r].todo = @ \ {th}]
    BY <1>5 DEF NextTheater
  <2> DEFINE s == [t EXCEPT !.pc = "browser", !.cur = th, !.todo = @ \ {th}]
  <2>2. s.pc = "browser" /\ s.todo = t.todo \ {th}
    BY <1>1 DEF RunType
  <2>3. run' = [run EXCEPT ![r] = s]
    BY <2>1
  <2> QED BY <1>2, <2>2, <2>3, FewerTheaters
<1>6. CASE GetBrowser(r) \/ Launched(r)
  <2>1. t.pc \in {"browser", "launch"}
    BY <1>6 DEF GetBrowser, Launched, At
  <2>2. ASSUME NEW s, s.pc # t.pc, s.pc \in {"launch", "page"}, s.todo = t.todo, s.dates = t.dates,
               s.pc = "launch" => t.pc = "browser"
        PROVE  Nearer(s, t)
    <3>1. StagesLeft(s) < StagesLeft(t)
      BY <1>1, <1>2, <2>1, <2>2, Stages DEF StagesLeft
    <3> QED BY <2>1, <2>2, <3>1, LaterStage
  <2>3. ASSUME NEW b
        PROVE  /\ [t EXCEPT !.pc = "page", !.held = b].pc = "page"
               /\ [t EXCEPT !.pc = "page", !.held = b].todo = t.todo
               /\ [t EXCEPT !.pc = "page", !.held = b].dates = t.dates
    BY <1>1 DEF RunType
  <2>4. /\ [t EXCEPT !.pc = "launch"].pc = "launch"
        /\ [t EXCEPT !.pc = "launch"].todo = t.todo /\ [t EXCEPT !.pc = "launch"].dates = t.dates
    BY <1>1 DEF RunType
  <2>5. \/ \E b : run' = [run EXCEPT ![r] = [t EXCEPT !.pc = "page", !.held = b]]
        \/ t.pc = "browser" /\ run' = [run EXCEPT ![r] = [t EXCEPT !.pc = "launch"]]
    BY <1>6 DEF GetBrowser, Launched, At
  <2>6. Nearer([t EXCEPT !.pc = "launch"], t) \/ t.pc # "browser"
    <3> DEFINE s == [t EXCEPT !.pc = "launch"]
    <3>1. s.pc = "launch" /\ s.todo = t.todo /\ s.dates = t.dates
      BY <2>4
    <3> HIDE DEF s
    <3>2. t.pc = "browser" => Nearer(s, t)
      BY <2>2, <3>1
    <3> QED BY <3>2 DEF s
  <2>7. ASSUME NEW b, run' = [run EXCEPT ![r] = [t EXCEPT !.pc = "page", !.held = b]]
        PROVE  \E s : run' = [run EXCEPT ![r] = s] /\ Nearer(s, t)
    <3> DEFINE s == [t EXCEPT !.pc = "page", !.held = b]
    <3>1. s.pc = "page" /\ s.todo = t.todo /\ s.dates = t.dates /\ run' = [run EXCEPT ![r] = s]
      BY <2>3, <2>7
    <3> HIDE DEF s
    <3>2. Nearer(s, t)
      BY <2>1, <2>2, <3>1
    <3> QED BY <3>1, <3>2
  <2> QED BY <2>5, <2>6, <2>7
<1>7. CASE PageLoads(r)
  <2>1. PICK n \in 0..MaxDates :
          run' = [run EXCEPT ![r].pc = "dates", ![r].held = None, ![r].dates = n,
                             ![r].best = IF n = 0 THEN "untried" ELSE "failed"]
    BY <1>7 DEF PageLoads
  <2> DEFINE s == [t EXCEPT !.pc = "dates", !.held = None, !.dates = n,
                            !.best = IF n = 0 THEN "untried" ELSE "failed"]
  <2>2. s.pc = "dates" /\ s.todo = t.todo /\ s.dates = n /\ t.pc = "page"
    BY <1>1, <1>7 DEF RunType, PageLoads, At
  <2>3. run' = [run EXCEPT ![r] = s]
    BY <2>1
  <2>4. StagesLeft(s) < StagesLeft(t)
    BY <1>1, <1>2, <2>2, Stages DEF StagesLeft
  <2> QED BY <2>2, <2>3, <2>4, LaterStage
<1>8. CASE LoadFails(r)
  <2>1. t.pc \in {"launch", "page"}
    BY <1>8 DEF LoadFails
  <2>2. CASE t.scope = "add"
    <3>1. /\ Fatal(t, "record").pc = "record" /\ Fatal(t, "record").todo = {}
          /\ Fatal(t, "record").dates = 0 /\ t.todo = {}
      BY <1>1, <2>2 DEF Fatal, NoRun, WellFormed
    <3>2. StagesLeft(Fatal(t, "record")) < StagesLeft(t)
      BY <1>1, <1>2, <2>1, <3>1, Stages DEF StagesLeft
    <3> QED BY <1>8, <2>1, <2>2, <3>1, <3>2, LaterStage DEF LoadFails
  <2>3. CASE t.scope # "add"
    <3> DEFINE s == [LeaveTheater(t) EXCEPT !.pc = "next", !.bad = FailedTheaters(r)]
    <3>1. s.pc = "next" /\ s.todo = t.todo /\ s.dates = 0
      BY <1>1 DEF LeaveTheater, RunType
    <3>2. StagesLeft(s) < StagesLeft(t)
      BY <1>1, <1>2, <2>1, <3>1, Stages DEF StagesLeft
    <3> QED BY <1>8, <2>1, <2>3, <3>1, <3>2, LaterStage DEF LoadFails
  <2> QED BY <2>2, <2>3
<1> QED BY <1>3, <1>4, <1>5, <1>6, <1>7, <1>8

\* So do the dates of a Theater, and what closes the run.
LEMMA NearerDates ==
  ASSUME IInv, NEW r \in Reports,
         \/ DateSucceeds(r) \/ DateFails(r) \/ DateRateLimited(r)
         \/ SettleTheater(r) \/ SettleAdd(r) \/ SettleAddThrows(r)
         \/ CloseBrowser(r) \/ BrowserClosed(r) \/ Record(r) \/ RecordThrows(r)
  PROVE  \E s : run' = [run EXCEPT ![r] = s] /\ Nearer(s, run[r])
<1> DEFINE t == run[r]
<1>1. t \in RunType /\ WellFormed(t) /\ MaxDates \in Nat
  BY EachRun, Stages DEF Good
<1>2. t.todo \in SUBSET Theaters /\ t.dates \in Nat /\ {} \in SUBSET Theaters
  BY <1>1 DEF RunType
<1>3. CASE DateSucceeds(r) \/ DateFails(r) \/ DateRateLimited(r)
  <2>1. t.pc = "dates" /\ t.dates > 0
    BY <1>3 DEF DateSucceeds, DateFails, DateRateLimited, At
  <2>2. ASSUME NEW s, s.pc = "dates", s.todo = t.todo, s.dates \in {0, t.dates - 1}
        PROVE  Nearer(s, t)
    <3>1. StagesLeft(s) < StagesLeft(t)
      BY <1>2, <2>1, <2>2, Stages DEF StagesLeft
    <3> QED BY <2>1, <2>2, <3>1, LaterStage
  <2>3. CASE DateSucceeds(r)
    <3>1. PICK found \in {"empty", "shows"} :
            run' = [run EXCEPT ![r].dates = @ - 1, ![r].best = IF @ = "shows" THEN @ ELSE found]
      BY <2>3 DEF DateSucceeds
    <3> DEFINE s == [t EXCEPT !.dates = @ - 1, !.best = IF @ = "shows" THEN @ ELSE found]
    <3>2. s.pc = "dates" /\ s.todo = t.todo /\ s.dates = t.dates - 1
      BY <1>1, <2>1 DEF RunType
    <3>3. run' = [run EXCEPT ![r] = s]
      BY <3>1
    <3> QED BY <2>2, <3>2, <3>3
  <2>4. CASE DateFails(r)
    <3> DEFINE s == [t EXCEPT !.dates = @ - 1]
    <3>2. s.pc = "dates" /\ s.todo = t.todo /\ s.dates = t.dates - 1
      BY <1>1, <2>1 DEF RunType
    <3>3. run' = [run EXCEPT ![r] = s]
      BY <2>4 DEF DateFails
    <3> QED BY <2>2, <3>2, <3>3
  <2>5. CASE DateRateLimited(r)
    <3> DEFINE s == [t EXCEPT !.dates = 0, !.limited = TRUE]
    <3>2. s.pc = "dates" /\ s.todo = t.todo /\ s.dates = 0
      BY <1>1, <2>1 DEF RunType
    <3>3. run' = [run EXCEPT ![r] = s]
      BY <2>5 DEF DateRateLimited
    <3> QED BY <2>2, <3>2, <3>3
  <2> QED BY <1>3, <2>3, <2>4, <2>5
<1>4. CASE SettleTheater(r) \/ SettleAdd(r) \/ SettleAddThrows(r)
  <2>1. t.pc = "dates"
    BY <1>4 DEF SettleTheater, SettleAdd, SettleAddThrows, At
  <2>2. ASSUME NEW s, s.pc \in {"next", "record"}, s.todo = t.todo, s.dates = 0
        PROVE  Nearer(s, t)
    <3>1. StagesLeft(s) < StagesLeft(t)
      BY <1>2, <2>1, <2>2, Stages DEF StagesLeft
    <3> QED BY <2>1, <2>2, <3>1, LaterStage
  <2>3. CASE SettleTheater(r)
    <3> DEFINE s == [Summarized(r) EXCEPT !.pc = "next"]
    <3>1. s.pc = "next" /\ s.todo = t.todo /\ s.dates = 0
      BY <1>1 DEF Summarized, LeaveTheater, RunType
    <3>2. run' = [run EXCEPT ![r] = s]
      BY <2>3 DEF SettleTheater
    <3> HIDE DEF s
    <3>3. Nearer(s, t)
      BY <2>2, <3>1
    <3> QED BY <3>2, <3>3
  <2>4. ASSUME t.scope = "add"
        PROVE  /\ Fatal(t, "record").pc = "record" /\ Fatal(t, "record").todo = t.todo
               /\ Fatal(t, "record").dates = 0
    BY <1>1, <2>4 DEF Fatal, NoRun, WellFormed
  <2>7. t.scope = "add" => Nearer(Fatal(t, "record"), t)
    BY <2>2, <2>4
  <2>5. CASE SettleAdd(r)
    <3> DEFINE s == [LeaveTheater(t) EXCEPT !.pc = "next"]
    <3>1. s.pc = "next" /\ s.todo = t.todo /\ s.dates = 0
      BY <1>1 DEF LeaveTheater, RunType
    <3>2. t.scope = "add" /\ (run' = [run EXCEPT ![r] = s] \/ run' = [run EXCEPT ![r] = Fatal(t, "record")])
      BY <2>5 DEF SettleAdd
    <3> HIDE DEF s
    <3>3. Nearer(s, t)
      BY <2>2, <3>1
    <3> QED BY <2>7, <3>2, <3>3
  <2>6. CASE SettleAddThrows(r)
    BY <2>6, <2>7 DEF SettleAddThrows
  <2> QED BY <1>4, <2>3, <2>5, <2>6
<1>5. CASE CloseBrowser(r) \/ BrowserClosed(r)
  <2>1. t.pc \in {"next", "closing"}
    BY <1>5 DEF CloseBrowser, BrowserClosed, At
  <2>2. ASSUME NEW s, s.pc \in {"closing", "record"}, s.todo = t.todo, s.dates = t.dates,
               s.pc = "closing" => t.pc = "next"
        PROVE  Nearer(s, t)
    <3>1. StagesLeft(s) < StagesLeft(t)
      BY <1>2, <2>1, <2>2, Stages DEF StagesLeft
    <3> QED BY <2>1, <2>2, <3>1, LaterStage
  <2>3. ASSUME NEW b, NEW p \in {"closing", "record"}
        PROVE  /\ [t EXCEPT !.pc = p, !.held = b].pc = p
               /\ [t EXCEPT !.pc = p, !.held = b].todo = t.todo
               /\ [t EXCEPT !.pc = p, !.held = b].dates = t.dates
               /\ [t EXCEPT !.pc = p].pc = p
               /\ [t EXCEPT !.pc = p].todo = t.todo /\ [t EXCEPT !.pc = p].dates = t.dates
    BY <1>1 DEF RunType
  <2>6. ASSUME NEW b, NEW p \in {"closing", "record"}, p = "closing" => t.pc = "next"
        PROVE  Nearer([t EXCEPT !.pc = p, !.held = b], t)
    <3> DEFINE s == [t EXCEPT !.pc = p, !.held = b]
    <3>1. s.pc = p /\ s.todo = t.todo /\ s.dates = t.dates
      BY <2>3
    <3> HIDE DEF s
    <3>2. Nearer(s, t)
      BY <2>2, <2>6, <3>1
    <3> QED BY <3>2 DEF s
  <2>7. Nearer([t EXCEPT !.pc = "record"], t)
    <3> DEFINE s == [t EXCEPT !.pc = "record"]
    <3>1. s.pc = "record" /\ s.todo = t.todo /\ s.dates = t.dates
      BY <2>3
    <3> HIDE DEF s
    <3>2. Nearer(s, t)
      BY <2>2, <3>1
    <3> QED BY <3>2 DEF s
  <2>4. CASE CloseBrowser(r)
    <3>1. /\ t.pc = "next"
          /\ \/ run' = [run EXCEPT ![r] = [t EXCEPT !.pc = "record"]]
             \/ run' = [run EXCEPT ![r] = [t EXCEPT !.pc = "closing", !.held = browser]]
      BY <2>4 DEF CloseBrowser, At
    <3> QED BY <2>6, <2>7, <3>1
  <2>5. CASE BrowserClosed(r)
    <3>1. run' = [run EXCEPT ![r] = [t EXCEPT !.pc = "record", !.held = None]]
      BY <2>5 DEF BrowserClosed
    <3> QED BY <2>6, <3>1
  <2> QED BY <1>5, <2>4, <2>5
<1>6. CASE Record(r) \/ RecordThrows(r)
  <2>1. t.pc = "record" /\ run' = [run EXCEPT ![r] = Ended]
    BY <1>6 DEF Record, RecordThrows, At
  <2>2. Ended.pc = "ended" /\ Ended.todo = {} /\ Ended.dates = 0
    BY DEF Ended, NoRun
  <2>3. Nearer(Ended, t)
    <3>1. CASE t.todo # {}
      BY <1>2, <2>2, <3>1, FewerTheaters
    <3>2. CASE t.todo = {}
      <4>1. StagesLeft(Ended) < StagesLeft(t)
        BY <1>2, <2>1, <2>2, Stages DEF StagesLeft
      <4> QED BY <2>1, <2>2, <3>2, <4>1, LaterStage
    <3> QED BY <3>1, <3>2
  <2> QED BY <2>1, <2>3
<1> QED BY <1>3, <1>4, <1>5, <1>6

\* A run that dies with its process is at its end.
LEMMA NearerEnd ==
  ASSUME IInv, NEW r \in Reports, Busy(r)
  PROVE  Nearer(Ended, run[r])
<1> DEFINE t == run[r]
<1>1. t \in RunType /\ MaxDates \in Nat
  BY EachRun, Stages DEF Good
<1>2. t.todo \in SUBSET Theaters /\ t.dates \in Nat /\ {} \in SUBSET Theaters
  BY <1>1 DEF RunType
<1>3. Ended.pc = "ended" /\ Ended.todo = {} /\ Ended.dates = 0
  BY DEF Ended, NoRun
<1>4. CASE t.pc = "prepare" \/ t.todo # {}
  BY <1>2, <1>3, <1>4, FewerTheaters
<1>5. CASE t.pc # "prepare" /\ t.todo = {}
  <2>1. t.pc \in {"record", "closing", "next", "dates", "page", "launch", "browser"}
    BY <1>5 DEF Busy, InProgress
  <2>2. StagesLeft(Ended) < StagesLeft(t)
    BY <1>1, <1>2, <1>3, <2>1, Stages DEF StagesLeft
  <2> QED BY <1>3, <1>5, <2>2, LaterStage
<1> QED BY <1>4, <1>5

\* The steps of others leave a busy run alone.
LEMMA NearerSteps ==
  ASSUME IInv, Reported, [Next]_vars, NEW r \in Reports, Busy(r), run'[r] # run[r]
  PROVE  Nearer(run'[r], run[r])
<1> USE DEF IInv, TypeOK
<1>1. ASSUME NEW q \in Reports, WebStep(q) \/ Tick(q) PROVE FALSE
  <2>1. Fresh(q) /\ \A p \in Reports \ {q} : run'[p] = run[p]
    BY <1>1 DEF WebStep, TriggerAll, TriggerOne, TriggerAdd, Enqueue, Tick
  <2> QED BY <2>1 DEF Fresh, Reported, Busy, InProgress
<1>2. ASSUME NEW q \in Reports, Claim(q) PROVE FALSE
  <2>1. run[q].pc = "queued" /\ \A p \in Reports \ {q} : run'[p] = run[p]
    BY <1>2 DEF Claim, Move, QueueRefers, At
  <2> QED BY <2>1 DEF Busy, InProgress
<1>3. ASSUME NEW q \in Reports, RunStep(q) PROVE Nearer(run'[r], run[r])
  <2>1. PICK s : run' = [run EXCEPT ![q] = s] /\ Nearer(s, run[q])
    BY <1>3, NearerLoop, NearerDates DEF RunStep
  <2> QED BY <2>1
<1>4. CASE Crash
  BY <1>4, NearerEnd DEF Crash
<1>5. CASE \/ \E th \in Theaters : DeleteTheater(th)
           \/ \E b \in Chromiums : ChromiumCloses(b) \/ ChromiumCrashes(b)
           \/ UNCHANGED vars
  BY <1>5 DEF DeleteTheater, ChromiumCloses, ChromiumCrashes, vars
<1> QED BY <1>1, <1>2, <1>3, <1>4, <1>5 DEF Next

\* Runs exist with their reports, throughout.
LEMMA ReportedAlways == Spec => []Reported
<1>1. Init => Reported
  BY DEF Init, Reported, NoRun
<1> QED BY <1>1, ReportedSteps, Invariant, PTL DEF Spec

\* Each step of a busy run takes it nearer to its end.
THEOREM RunsEnd == Spec => RunsWindDown
<1>1. IInv /\ Reported /\ [Next]_vars =>
        [\A r \in Reports : Busy(r) /\ run'[r] # run[r] => Nearer(run'[r], run[r])]_vars
  BY NearerSteps
<1> QED BY <1>1, Invariant, ReportedAlways, PTL DEF Spec, RunsWindDown

-----------------------------------------------------------------------------
(***************************************************************************)
(* The worker implements JobLedger.                                        *)
(***************************************************************************)
Held == {r \in Reports : Busy(r)}
Tables == <<report, queue, Held, catalog>>

\* A step of a run other than its last one keeps it busy, and the queue as it is.
LEMMA StillBusy ==
  ASSUME IInv, NEW r \in Reports, RunStep(r), ~Record(r), ~RecordThrows(r)
  PROVE  Busy(r) /\ Held' = Held /\ UNCHANGED <<report, queue>>
<1>1. run[r] \in RunType /\ run \in [Reports -> RunType]
  BY DEF IInv, TypeOK
<1>2. Busy(r) /\ UNCHANGED <<report, queue>>
  BY DEF RunStep, Prepare, RunThrows, NextTheater, GetBrowser, Launched, PageLoads, LoadFails,
         DateSucceeds, DateFails, DateRateLimited, SettleTheater, SettleAdd, SettleAddThrows,
         CloseBrowser, BrowserClosed, At, Busy, InProgress
<1>3. \A q \in Reports \ {r} : run'[q] = run[q]
  BY <1>1 DEF RunStep, Prepare, RunThrows, NextTheater, GetBrowser, Launched, PageLoads, LoadFails,
         DateSucceeds, DateFails, DateRateLimited, SettleTheater, SettleAdd, SettleAddThrows,
         CloseBrowser, BrowserClosed
<1>4. run'[r].pc \in InProgress
  <2> DEFINE t == run[r]
  <2>2. \A p \in {"next", "record"} : Fatal(t, p).pc = p
    BY DEF Fatal, NoRun
  <2>3. CASE Prepare(r)
    BY <1>1, <2>3 DEF Prepare, RunType, InProgress, LeaveTheater
  <2>4. CASE RunThrows(r) \/ SettleAddThrows(r)
    BY <1>1, <2>2, <2>4 DEF RunThrows, SettleAddThrows, InProgress
  <2>5. CASE NextTheater(r)
    BY <1>1, <2>5 DEF NextTheater, RunType, InProgress
  <2>6. CASE GetBrowser(r)
    BY <1>1, <2>6 DEF GetBrowser, RunType, InProgress
  <2>12. CASE Launched(r)
    BY <1>1, <2>12 DEF Launched, RunType, InProgress
  <2>13. CASE PageLoads(r)
    BY <1>1, <2>13 DEF PageLoads, RunType, InProgress
  <2>7. CASE LoadFails(r)
    <3>1. CASE t.scope = "add"
      BY <1>1, <2>2, <2>7, <3>1 DEF LoadFails, InProgress
    <3>2. CASE t.scope # "add"
      BY <1>1, <2>7, <3>2 DEF LoadFails, LeaveTheater, RunType, InProgress
    <3> QED BY <3>1, <3>2
  <2>8. CASE DateSucceeds(r) \/ DateFails(r) \/ DateRateLimited(r)
    BY <1>1, <2>8 DEF DateSucceeds, DateFails, DateRateLimited, At, RunType, InProgress
  <2>9. CASE SettleTheater(r)
    BY <1>1, <2>9 DEF SettleTheater, Summarized, LeaveTheater, RunType, InProgress
  <2>10. CASE SettleAdd(r)
    <3>1. CASE Scraped(r)
      BY <1>1, <2>10, <3>1 DEF SettleAdd, LeaveTheater, RunType, InProgress
    <3>2. CASE ~Scraped(r)
      BY <1>1, <2>2, <2>10, <3>2 DEF SettleAdd, InProgress
    <3> QED BY <3>1, <3>2
  <2>11. CASE CloseBrowser(r) \/ BrowserClosed(r)
    BY <1>1, <2>11 DEF CloseBrowser, BrowserClosed, RunType, InProgress
  <2> QED BY <2>3, <2>4, <2>5, <2>6, <2>7, <2>8, <2>9, <2>10, <2>11, <2>12, <2>13
         DEF RunStep
<1> QED BY <1>2, <1>3, <1>4 DEF Held, Busy

\* Jobs and scheduled runs enter the ledger.
LEMMA LedgerEnters ==
  ASSUME IInv, Reported, NEW r \in Reports, WebStep(r) \/ Claim(r) \/ Tick(r)
  PROVE  Jobs!Next
<1> USE DEF IInv, TypeOK
<1>1. ASSUME NEW sc, NEW th, Enqueue(r, sc, th)
      PROVE  report[r] = "none" /\ Held' = Held
  <2>1. run'[r].pc = "queued" /\ run[r].pc = "idle" /\ \A q \in Reports \ {r} : run'[q] = run[q]
    BY <1>1 DEF Enqueue, Fresh, Reported, NoRun
  <2> QED BY <1>1, <2>1 DEF Held, Busy, InProgress, Enqueue, Fresh
<1>2. ASSUME WebStep(r) PROVE Jobs!Enqueue(r)
  <2>1. PICK sc, th : Enqueue(r, sc, th)
    BY <1>2 DEF WebStep, TriggerAll, TriggerOne, TriggerAdd
  <2>2. UNCHANGED catalog \/ \E x \in Theaters : Jobs!Moves(x, "absent", "provisioning")
    BY <1>2 DEF WebStep, TriggerAll, TriggerOne, TriggerAdd, Jobs!Moves
  <2> QED BY <1>1, <2>1, <2>2 DEF Jobs!Enqueue, Jobs!Opens, Enqueue, Held
<1>3. ASSUME Claim(r) PROVE Jobs!Claim(r)
  <2>1. run'[r].pc \in {"browser", "prepare"} /\ \A q \in Reports \ {r} : run'[q] = run[q]
    BY <1>3 DEF Claim, Move, RunType
  <2>2. Held' = Held \cup {r}
    BY <2>1 DEF Held, Busy, InProgress
  <2> QED BY <1>3, <2>2 DEF Jobs!Claim, Claim, Held
<1>4. ASSUME Tick(r) PROVE Jobs!Schedule(r)
  <2>1. run'[r].pc = "prepare" /\ \A q \in Reports \ {r} : run'[q] = run[q]
    BY <1>4 DEF Tick, NoRun
  <2>2. Held' = Held \cup {r}
    BY <2>1 DEF Held, Busy, InProgress
  <2> QED BY <1>4, <2>2 DEF Jobs!Schedule, Jobs!Opens, Tick, Fresh, Held
<1> QED BY <1>2, <1>3, <1>4 DEF Jobs!Next

\* What a run does between is a scrape, the end of it, or nothing.
LEMMA LedgerRuns ==
  ASSUME IInv, NEW r \in Reports, RunStep(r)
  PROVE  Jobs!Next \/ UNCHANGED Tables
<1> USE DEF IInv, TypeOK
<1>1. CASE Record(r) \/ RecordThrows(r)
  <2>1. /\ Busy(r) /\ run'[r].pc = "ended" /\ \A q \in Reports \ {r} : run'[q] = run[q]
        /\ UNCHANGED <<queue, catalog>>
    BY <1>1 DEF Record, RecordThrows, At, Busy, InProgress, Ended, NoRun
  <2>2. r \in Held /\ Held' = Held \ {r}
    BY <2>1 DEF Held, Busy, InProgress
  <2>3. UNCHANGED report \/ \E o \in {"success", "partial_success", "failed"} :
                              report' = [report EXCEPT ![r] = o]
    BY <1>1 DEF Record, RecordThrows, Outcome
  <2>4. Jobs!Finish(r)
    BY <2>1, <2>2, <2>3 DEF Jobs!Finish, Held
  <2> QED BY <2>4 DEF Jobs!Next
<1>2. CASE ~Record(r) /\ ~RecordThrows(r)
  <2>1. Busy(r) /\ Held' = Held /\ UNCHANGED <<report, queue>> /\ Held # {}
    BY <1>2, StillBusy DEF Held
  <2>2. ASSUME NEW th \in Theaters,
               \/ Jobs!Moves(th, "absent", "provisioning") \/ Jobs!Moves(th, "provisioning", "active")
        PROVE  Jobs!Next
    <3>1. Jobs!Scrape(th)
      BY <2>1, <2>2 DEF Jobs!Scrape, Held
    <3> QED BY <3>1 DEF Jobs!Next
  <2>3. CASE catalog' = catalog
    BY <2>1, <2>3 DEF Tables
  <2>4. CASE PageLoads(r) \/ SettleTheater(r) \/ SettleAdd(r)
    <3>1. run[r].cur \in Theaters
      BY <2>4 DEF PageLoads, SettleTheater, SettleAdd, At, WellFormed
    <3>2. \/ catalog' = catalog
          \/ Jobs!Moves(run[r].cur, "absent", "provisioning")
          \/ Jobs!Moves(run[r].cur, "provisioning", "active")
      BY <2>4, <3>1 DEF PageLoads, SettleTheater, SettleAdd, Settled, Jobs!Moves
    <3> QED BY <2>2, <2>3, <3>1, <3>2
  <2>5. catalog' = catalog \/ PageLoads(r) \/ SettleTheater(r) \/ SettleAdd(r)
    BY <1>2 DEF RunStep, Prepare, RunThrows, NextTheater, GetBrowser, Launched, LoadFails,
         DateSucceeds, DateFails, DateRateLimited, SettleAddThrows, CloseBrowser, BrowserClosed
  <2> QED BY <2>3, <2>4, <2>5
<1> QED BY <1>1, <1>2

\* What happens to the process or to a Theater.
LEMMA LedgerSuffers ==
  ASSUME IInv,
         \/ \E th \in Theaters : DeleteTheater(th)
         \/ \E b \in Chromiums : ChromiumCloses(b) \/ ChromiumCrashes(b)
         \/ Crash
  PROVE  Jobs!Next \/ UNCHANGED Tables
<1>1. CASE \E th \in Theaters : DeleteTheater(th)
  <2>1. PICK th \in Theaters : DeleteTheater(th)
    BY <1>1
  <2>2. Jobs!Remove(th)
    BY <2>1 DEF DeleteTheater, Jobs!Remove, Busy
  <2> QED BY <2>2 DEF Jobs!Next
<1>2. CASE \E b \in Chromiums : ChromiumCloses(b) \/ ChromiumCrashes(b)
  BY <1>2 DEF ChromiumCloses, ChromiumCrashes, Tables, Held, Busy
<1>3. CASE Crash
  <2>1. Held' \subseteq Held
    <3>1. \A q \in Reports : run'[q].pc \notin InProgress
      BY <1>3 DEF Crash, Busy, Ended, NoRun, InProgress
    <3> QED BY <3>1 DEF Held, Busy
  <2>2. Jobs!Die
    BY <1>3, <2>1 DEF Jobs!Die, Crash, Held
  <2> QED BY <2>2 DEF Jobs!Next
<1> QED BY <1>1, <1>2, <1>3

\* The worker implements JobLedger: each of its steps is one of the ledger's or
\* changes nothing there.
THEOREM WorkerKeepsLedger == Spec => ImplementsJobs
<1>1. Init => Jobs!Init
  BY DEF Init, Jobs!Init, Busy, NoRun, InProgress
<1>2. IInv /\ Reported /\ [Next]_vars => [Jobs!Next]_(Jobs!ledgerVars)
  <2> SUFFICES ASSUME IInv, Reported, [Next]_vars PROVE Jobs!Next \/ UNCHANGED Tables
    BY DEF Jobs!ledgerVars, Tables, Held
  <2>1. CASE UNCHANGED vars
    BY <2>1 DEF vars, Tables, Held, Busy
  <2> QED BY <2>1, LedgerEnters, LedgerRuns, LedgerSuffers DEF Next
<1> QED BY <1>1, <1>2, Invariant, ReportedAlways, PTL DEF Spec, ImplementsJobs, Jobs!Spec
=============================================================================
