------------------------ MODULE SubmissionInvariants ------------------------
(***************************************************************************)
(* The inductive invariant of SubmissionPipeline: what the tables and the  *)
(* process states say about one another between any two steps.  The safety *)
(* invariants of SubmissionPipeline are conjuncts of it.                   *)
(***************************************************************************)
EXTENDS SubmissionPipeline

(***************************************************************************)
(* The submit transaction.                                                 *)
(***************************************************************************)
HoldsMember(c) == client[c].pc \in {"locked", "insert"}
HoldsTheater(c) == client[c].pc = "insert" /\ client[c].retry

\* Two transactions never hold one row.
LocksExclusive ==
  \A c, d \in Clients :
    /\ HoldsMember(c) /\ HoldsMember(d) /\ client[c].member = client[d].member => c = d
    /\ HoldsTheater(c) /\ HoldsTheater(d) /\ client[c].theater = client[d].theater => c = d

\* What was decided under the locks still holds when the rows are written.
DecisionsHold ==
  \A c \in Clients :
    /\ HoldsMember(c) => member[client[c].member] = "active"
    /\ client[c].pc = "insert" => BelowThrottle(client[c].member)
    /\ HoldsTheater(c) => /\ catalog[client[c].theater] = "provisioning"
                          /\ Pending(client[c].theater) = {}

(***************************************************************************)
(* Foreign keys, and what the queue and the workers may refer to.          *)
(***************************************************************************)
AttemptsRefer ==
  \A r \in Reports : sub[r].status # "none" =>
    /\ report[r].status # "none"
    /\ catalog[sub[r].theater] # "absent"
    /\ member[sub[r].member] # "erased"

UrlsKnown ==
  /\ \A th \in Theaters : catalog[th] # "absent" => storedUrl[th] \in Theaters
  /\ \A r \in Reports : report[r].status # "none" => job[r].target \in Theaters
  /\ \A w \in Workers : worker[w].pc = "load" => worker[w].url \in Theaters

\* A queued or just claimed job has its report still running and unstamped.
JobsRefer ==
  /\ \A r \in queue : report[r] = [status |-> "running", claim |-> "null"]
  /\ \A w \in Workers : worker[w].pc # "idle" => report[worker[w].report].status # "none"
  /\ \A w \in Workers : worker[w].pc = "claimed" =>
       report[worker[w].report] = [status |-> "running", claim |-> "null"]

(***************************************************************************)
(* Resolution.                                                             *)
(***************************************************************************)

\* A run resolves a report that went terminal; a decided success still has its
\* Theater active.
RunsJustified ==
  \A v \in Resolvers : resolver[v].pc # "idle" =>
    /\ report[resolver[v].report].status \in TerminalReport
    /\ resolver[v].pc = "decided" /\ resolver[v].ok /\ sub[resolver[v].report].status = "pending"
         => catalog[sub[resolver[v].report].theater] = "active"

\* One run owns the notice of an attempt, and owes it until it publishes.
NoticesOwed ==
  /\ \A r \in Reports : notices[r] # 0 => report[r].status \in TerminalReport
  /\ \A v \in Resolvers : resolver[v].pc = "publish" =>
       /\ notices[resolver[v].report] = 0
       /\ sub[resolver[v].report].status # "pending"
       /\ \A u \in Resolvers \ {v} :
            resolver[u].pc = "publish" => resolver[u].report # resolver[v].report

(***************************************************************************)
(* The inductive invariant.                                                *)
(***************************************************************************)
IInv ==
  /\ TypeOK
  /\ LocksExclusive /\ DecisionsHold
  /\ AttemptsRefer /\ UrlsKnown /\ JobsRefer
  /\ RunsJustified /\ NoticesOwed
  /\ OnePendingPerTheater /\ ThrottleHolds
  /\ SucceededIsActive /\ SelectionIsCatalogued /\ SelectionWithinQuota
  /\ JobRunsOnce /\ NoticesAreFinal
=============================================================================
