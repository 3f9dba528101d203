----------------------------- MODULE JobLedger -----------------------------
(***************************************************************************)
(* What the tables of the job queue promise to whoever reads them, without *)
(* workers, browsers and page loads: a job is handed out once and in       *)
(* order, a report is settled by the one who holds it or by the expiry of  *)
(* one that is not queued any more, and a Theater moves forward only while *)
(* somebody scrapes.  Both views of the worker implement this              *)
(* specification: SubmissionPipeline and ScrapeWorker.                     *)
(***************************************************************************)
EXTENDS Naturals

CONSTANTS Reports, Theaters, Outcomes

VARIABLES
  report,    \* scrape_reports.status
  queue,     \* scrape_jobs
  held,      \* the reports whose job or scheduled run somebody executes
  catalog    \* theaters.status

ledgerVars == <<report, queue, held, catalog>>

Init ==
  /\ report = [r \in Reports |-> "none"]
  /\ queue = {} /\ held = {}
  /\ catalog \in [Theaters -> {"absent", "provisioning", "active"}]

-----------------------------------------------------------------------------
Opens(r) == report[r] = "none" /\ report' = [report EXCEPT ![r] = "running"]
Moves(th, from, to) == catalog[th] = from /\ catalog' = [catalog EXCEPT ![th] = to]

\* Report and job appear together, perhaps with a new Theater.
Enqueue(r) ==
  /\ Opens(r)
  /\ queue' = queue \cup {r}
  /\ UNCHANGED catalog \/ \E th \in Theaters : Moves(th, "absent", "provisioning")
  /\ UNCHANGED held

\* A scheduled run passes the queue by.
Schedule(r) == Opens(r) /\ held' = held \cup {r} /\ UNCHANGED <<queue, catalog>>

Claim(r) ==
  /\ r \in queue /\ \A q \in queue : r <= q
  /\ queue' = queue \ {r} /\ held' = held \cup {r}
  /\ UNCHANGED <<report, catalog>>

\* The outcome is written over whatever is there, or is lost.
Finish(r) ==
  /\ r \in held /\ held' = held \ {r}
  /\ UNCHANGED report \/ \E outcome \in Outcomes : report' = [report EXCEPT ![r] = outcome]
  /\ UNCHANGED <<queue, catalog>>

\* A process dies with what it held.
Die == held' \subseteq held /\ UNCHANGED <<report, queue, catalog>>

\* Reports that run for too long; never one that still waits for its turn.
Expire(late) ==
  /\ \A r \in late : report[r] = "running" /\ r \notin queue
  /\ report' = [r \in Reports |-> IF r \in late THEN "failed" ELSE report[r]]
  /\ UNCHANGED <<queue, held, catalog>>

\* A scrape brings a Theater back or makes it active; people remove it.
Scrape(th) ==
  /\ held # {}
  /\ Moves(th, "absent", "provisioning") \/ Moves(th, "provisioning", "active")
  /\ UNCHANGED <<report, queue, held>>

Remove(th) == catalog' = [catalog EXCEPT ![th] = "absent"] /\ UNCHANGED <<report, queue, held>>

Next ==
  \/ Die
  \/ \E r \in Reports : Enqueue(r) \/ Schedule(r) \/ Claim(r) \/ Finish(r)
  \/ \E late \in SUBSET Reports : Expire(late)
  \/ \E th \in Theaters : Scrape(th) \/ Remove(th)

Spec == Init /\ [][Next]_ledgerVars
=============================================================================
