---------------------- MODULE SubmissionPipelineProofs ----------------------
(***************************************************************************)
(* Proofs about SubmissionPipeline, for every finite set of Members and    *)
(* Theaters, any sets of processes and every bound.                        *)
(***************************************************************************)
EXTENDS SubmissionInvariants, FiniteSetTheorems, TLAPS

-----------------------------------------------------------------------------
(***************************************************************************)
(* Type correctness.                                                       *)
(***************************************************************************)

\* The moves of a handler keep the shape of its state.
LEMMA ClientMove ==
  ASSUME NEW x \in ClientType, x.pc # "idle", NEW p \in {"locked", "insert", "add"},
         NEW b \in BOOLEAN
  PROVE  /\ [x EXCEPT !.pc = p] \in ClientType
         /\ [x EXCEPT !.pc = p, !.retry = b] \in ClientType
<1>1. x \in [pc : {"begin", "locked", "insert", "add"}, member : Members,
             theater : Theaters, retry : BOOLEAN]
  BY DEF ClientType, IdleClient
<1>2. [x EXCEPT !.pc = p] \in [pc : {"begin", "locked", "insert", "add"}, member : Members,
             theater : Theaters, retry : BOOLEAN]
  BY <1>1
<1>3. [x EXCEPT !.pc = p, !.retry = b] \in
            [pc : {"begin", "locked", "insert", "add"}, member : Members,
             theater : Theaters, retry : BOOLEAN]
  BY <1>1
<1> QED BY <1>2, <1>3 DEF ClientType

\* The moves of a busy worker keep the shape of its state.
LEMMA WorkerMove ==
  ASSUME NEW x \in WorkerType, x.pc # "idle", NEW u \in Theaters \cup {None},
         NEW p \in {"claimed", "prepare", "load", "scrape", "succeeded", "failed"}
  PROVE  /\ [x EXCEPT !.pc = p] \in WorkerType
         /\ [x EXCEPT !.pc = p, !.url = u] \in WorkerType
<1> DEFINE Busy == [pc : {"claimed", "prepare", "load", "scrape", "succeeded", "failed"},
                    report : Reports, url : Theaters \cup {None}]
<1>1. x \in Busy
  BY DEF WorkerType, IdleWorker
<1>2. [x EXCEPT !.pc = p] \in Busy
  BY <1>1
<1>3. [x EXCEPT !.pc = p, !.url = u] \in Busy
  BY <1>1
<1> QED BY <1>2, <1>3 DEF WorkerType

\* The moves of a resolution run keep the shape of its state.
LEMMA ResolverMove ==
  ASSUME NEW x \in ResolverType, x.pc # "idle", NEW p \in {"read", "decided", "publish"},
         NEW b \in BOOLEAN
  PROVE  /\ [x EXCEPT !.pc = p] \in ResolverType
         /\ [x EXCEPT !.pc = p, !.ok = b] \in ResolverType
<1> DEFINE Busy == [pc : {"read", "decided", "publish"}, report : Reports, ok : BOOLEAN]
<1>1. x \in Busy
  BY DEF ResolverType, IdleResolver
<1>2. [x EXCEPT !.pc = p] \in Busy
  BY <1>1
<1>3. [x EXCEPT !.pc = p, !.ok = b] \in Busy
  BY <1>1
<1> QED BY <1>2, <1>3 DEF ResolverType

\* The idle record of each process has the type of that process.
LEMMA IdleTypes ==
  /\ IdleClient \in ClientType /\ IdleWorker \in WorkerType /\ IdleResolver \in ResolverType
BY DEF ClientType, WorkerType, ResolverType

\* The moves of a report.
LEMMA ReportMove ==
  ASSUME TypeOK, NEW r \in Reports, NEW s \in {"running", "success", "failed"},
         NEW k \in {"null", "fresh", "old"}
  PROVE  /\ [report EXCEPT ![r] = [status |-> s, claim |-> k]] \in
              [Reports -> [status : {"none", "running"} \cup TerminalReport,
                           claim : {"null", "fresh", "old"}]]
         /\ [report EXCEPT ![r].status = s] \in
              [Reports -> [status : {"none", "running"} \cup TerminalReport,
                           claim : {"null", "fresh", "old"}]]
         /\ [report EXCEPT ![r].claim = k] \in
              [Reports -> [status : {"none", "running"} \cup TerminalReport,
                           claim : {"null", "fresh", "old"}]]
BY DEF TypeOK, TerminalReport

\* Creating a report and its job keeps their types.
LEMMA EnqueueType ==
  ASSUME TypeOK, NEW r \in Reports, NEW k \in {"add_theater", "scrape"},
         NEW t \in Theaters \cup {None}, EnqueueJob(r, k, t)
  PROVE  /\ report' \in [Reports -> [status : {"none", "running"} \cup TerminalReport,
                                     claim : {"null", "fresh", "old"}]]
         /\ job' \in [Reports -> [kind : {"none", "add_theater", "scrape"},
                                  target : Theaters \cup {None}]]
         /\ queue' \subseteq Reports
<1>1. report' \in [Reports -> [status : {"none", "running"} \cup TerminalReport,
                               claim : {"null", "fresh", "old"}]]
  BY ReportMove DEF EnqueueJob
<1> QED BY <1>1 DEF EnqueueJob, TypeOK

\* Deleting attempts keeps the type of the table.
LEMMA CascadeType ==
  ASSUME TypeOK, NEW gone
  PROVE  WithoutAttempts(gone) \in [Reports -> {NoAttempt} \cup
            [status : SubStatus \ {"none"}, member : Members, theater : Theaters]]
BY DEF TypeOK, WithoutAttempts

\* A Selection add, policy included, keeps Selections sets of Theaters.
LEMMA AddType ==
  ASSUME TypeOK, NEW m \in Members, NEW th \in Theaters
  PROVE  SelectionAfterAdd(m, th) \in [Members -> SUBSET Theaters]
BY DEF TypeOK, SelectionAfterAdd

\* The fresh database has the declared types.
LEMMA TypeInit == Init => TypeOK
<1> SUFFICES ASSUME Init PROVE TypeOK
  OBVIOUS
<1>1. 0 \in 0..MaxCrashes
  BY ConstantsAssumption
<1> QED BY <1>1, IdleTypes DEF Init, TypeOK, NoReport, NoJob, NoAttempt, TerminalReport

\* A step of a submit or Selection handler keeps the types.
LEMMA TypeClient ==
  ASSUME TypeOK, NEW c \in Clients, ClientStep(c)
  PROVE  TypeOK'
<1> USE DEF catalogVars, jobVars, subVars
<1>1. ASSUME NEW m \in Members, NEW th \in Theaters, SubmitBegin(c, m, th) \/ SelectBegin(c, m, th)
      PROVE  TypeOK'
  <2>1. \E p \in {"begin", "add"} : client' = [client EXCEPT ![c] =
           [pc |-> p, member |-> m, theater |-> th, retry |-> FALSE]]
    BY <1>1 DEF SubmitBegin, SelectBegin
  <2>2. client' \in [Clients -> ClientType]
    BY <2>1 DEF TypeOK, ClientType
  <2> QED BY <1>1, <2>2 DEF SubmitBegin, SelectBegin, TypeOK
<1>2. CASE LockMember(c)
  <2>1. client[c] \in ClientType /\ client[c].pc # "idle"
    BY <1>2 DEF LockMember, TypeOK
  <2>2. [client[c] EXCEPT !.pc = "locked"] \in ClientType
    BY <2>1, ClientMove
  <2>3. client' \in [Clients -> ClientType]
    BY <1>2, <2>2, IdleTypes DEF LockMember, TypeOK
  <2> QED BY <1>2, <2>3 DEF LockMember, TypeOK
<1>3. CASE DecideAttempt(c)
  <2> DEFINE b == catalog[client[c].theater] # "absent"
  <2>1. client[c] \in ClientType /\ client[c].pc # "idle"
    BY <1>3 DEF DecideAttempt, TypeOK
  <2>2. /\ [client[c] EXCEPT !.pc = "add"] \in ClientType
        /\ [client[c] EXCEPT !.pc = "insert", !.retry = b] \in ClientType
    BY <2>1, ClientMove
  <2>3. client' \in [Clients -> ClientType]
    BY <1>3, <2>2, IdleTypes DEF DecideAttempt, TypeOK
  <2> QED BY <1>3, <2>3 DEF DecideAttempt, TypeOK
<1>4. CASE AddToSelection(c)
  <2>1. client[c].member \in Members /\ client[c].theater \in Theaters
    BY <1>4 DEF AddToSelection, TypeOK, ClientType, IdleClient
  <2>2. selection' \in [Members -> SUBSET Theaters]
    BY <1>4, <2>1, AddType DEF AddToSelection, TypeOK
  <2> QED BY <1>4, <2>2, IdleTypes DEF AddToSelection, TypeOK
<1>5. CASE ClientAbort(c)
  BY <1>5, IdleTypes DEF ClientAbort, TypeOK
<1>6. ASSUME NEW r \in Reports, InsertAttempt(c, r) PROVE TypeOK'
  <2> DEFINE m  == client[c].member
             th == client[c].theater
  <2>1. m \in Members /\ th \in Theaters
    BY <1>6 DEF InsertAttempt, TypeOK, ClientType, IdleClient
  <2>2. client' \in [Clients -> ClientType]
    BY <1>6, IdleTypes DEF InsertAttempt, TypeOK
  <2>3. sub' \in [Reports -> {NoAttempt} \cup
           [status : SubStatus \ {"none"}, member : Members, theater : Theaters]]
    BY <1>6, <2>1 DEF InsertAttempt, TypeOK, SubStatus
  <2>4. \E t \in Theaters \cup {None} : EnqueueJob(r, "add_theater", t)
    BY <1>6, <2>1 DEF InsertAttempt, TypeOK
  <2>5. /\ report' \in [Reports -> [status : {"none", "running"} \cup TerminalReport,
                                    claim : {"null", "fresh", "old"}]]
        /\ job' \in [Reports -> [kind : {"none", "add_theater", "scrape"},
                                 target : Theaters \cup {None}]]
        /\ queue' \subseteq Reports
    BY <2>4, EnqueueType
  <2>6. /\ catalog' \in [Theaters -> {"absent", "provisioning", "active"}]
        /\ storedUrl' \in [Theaters -> Theaters \cup {None}]
        /\ placeholder' \subseteq Theaters
    BY <1>6, <2>1 DEF InsertAttempt, InsertTheater, TypeOK
  <2> QED BY <1>6, <2>2, <2>3, <2>5, <2>6 DEF InsertAttempt, TypeOK
<1> QED BY <1>1, <1>2, <1>3, <1>4, <1>5, <1>6 DEF ClientStep

\* Verification, suspension, reinstatement, erasure and a Selection removal keep
\* the types.
LEMMA TypeMember ==
  ASSUME TypeOK, NEW m \in Members, MemberStep(m)
  PROVE  TypeOK'
<1> USE DEF catalogVars, jobVars, subVars, procVars
<1>1. CASE VerifyEmail(m)
  BY <1>1 DEF VerifyEmail, SetMemberStatus, TypeOK
<1>2. CASE Suspend(m)
  BY <1>2 DEF Suspend, SetMemberStatus, TypeOK
<1>3. CASE Reinstate(m)
  BY <1>3 DEF Reinstate, SetMemberStatus, TypeOK
<1>4. CASE Erase(m)
  BY <1>4, CascadeType DEF Erase, SetMemberStatus, TypeOK
<1>5. ASSUME NEW th \in Theaters, RemoveFromSelection(m, th) PROVE TypeOK'
  BY <1>5 DEF RemoveFromSelection, TypeOK
<1> QED BY <1>1, <1>2, <1>3, <1>4, <1>5, MemberStep(m) DEF MemberStep

\* An addition, edit, deletion or scrape by Staff keeps the types.
LEMMA TypeStaff ==
  ASSUME TypeOK, NEW th \in Theaters, StaffStep(th)
  PROVE  TypeOK'
<1> USE DEF catalogVars, jobVars, subVars, procVars
<1>1. ASSUME NEW r \in Reports, NEW url \in Theaters, NEW named \in BOOLEAN,
             StaffAdd(r, th, url, named)
      PROVE  TypeOK'
  <2>1. /\ report' \in [Reports -> [status : {"none", "running"} \cup TerminalReport,
                                    claim : {"null", "fresh", "old"}]]
        /\ job' \in [Reports -> [kind : {"none", "add_theater", "scrape"},
                                 target : Theaters \cup {None}]]
        /\ queue' \subseteq Reports
    BY <1>1, EnqueueType DEF StaffAdd
  <2>2. /\ catalog' \in [Theaters -> {"absent", "provisioning", "active"}]
        /\ storedUrl' \in [Theaters -> Theaters \cup {None}]
        /\ placeholder' \subseteq Theaters
    BY <1>1 DEF StaffAdd, InsertTheater, TypeOK
  <2> QED BY <1>1, <2>1, <2>2 DEF StaffAdd, TypeOK
<1>2. ASSUME NEW url \in Theaters, StaffEdit(th, url) PROVE TypeOK'
  BY <1>2 DEF StaffEdit, TypeOK
<1>3. CASE StaffDelete(th)
  <2>1. selection' \in [Members -> SUBSET Theaters]
    BY <1>3 DEF StaffDelete, TypeOK
  <2> QED BY <1>3, <2>1, CascadeType DEF StaffDelete, TypeOK
<1>4. ASSUME NEW r \in Reports, StaffScrape(r, th) PROVE TypeOK'
  <2>1. /\ report' \in [Reports -> [status : {"none", "running"} \cup TerminalReport,
                                    claim : {"null", "fresh", "old"}]]
        /\ job' \in [Reports -> [kind : {"none", "add_theater", "scrape"},
                                 target : Theaters \cup {None}]]
        /\ queue' \subseteq Reports
    BY <1>4, EnqueueType DEF StaffScrape
  <2> QED BY <1>4, <2>1 DEF StaffScrape, TypeOK
<1> QED BY <1>1, <1>2, <1>3, <1>4, StaffStep(th) DEF StaffStep

\* A step or the crash of a worker keeps the types.
LEMMA TypeWorker ==
  ASSUME TypeOK, UrlsKnown, JobsRefer, NEW w \in Workers, WorkerStep(w) \/ WorkerCrash(w)
  PROVE  TypeOK'
<1> USE DEF catalogVars, jobVars, subVars, procVars
<1> DEFINE t == Target(w)
           r == worker[w].report
<1>1. worker[w] \in WorkerType
  BY DEF TypeOK
<1>2. worker[w].pc # "idle" => r \in Reports /\ t \in Theaters
  BY <1>1 DEF WorkerType, IdleWorker, UrlsKnown, JobsRefer, Target
<1>3. CASE Claim(w)
  <2>1. PICK q \in queue : /\ queue' = queue \ {q}
                           /\ worker' = [worker EXCEPT ![w] =
                                [pc |-> "claimed", report |-> q, url |-> None]]
    BY <1>3 DEF Claim, Dequeued
  <2>2. worker' \in [Workers -> WorkerType]
    BY <2>1 DEF TypeOK, WorkerType
  <2> QED BY <1>3, <2>1, <2>2 DEF Claim, TypeOK
<1>4. CASE MarkRunning(w)
  <2>1. r \in Reports /\ t \in Theaters /\ worker[w].pc # "idle"
    BY <1>2, <1>4 DEF MarkRunning, WorkerAt
  <2>2. worker' \in [Workers -> WorkerType]
    BY <1>1, <1>4, <2>1, WorkerMove DEF MarkRunning, TypeOK
  <2>3. report' \in [Reports -> [status : {"none", "running"} \cup TerminalReport,
                                 claim : {"null", "fresh", "old"}]]
    <3>1. [report EXCEPT ![r] = [status |-> "running", claim |-> "fresh"]] \in
             [Reports -> [status : {"none", "running"} \cup TerminalReport,
                          claim : {"null", "fresh", "old"}]]
      BY <2>1, ReportMove
    <3>2. report' \in {report, [report EXCEPT ![r] = [status |-> "running", claim |-> "fresh"]]}
      BY <1>4 DEF MarkRunning
    <3> QED BY <3>1, <3>2 DEF TypeOK
  <2> QED BY <1>4, <2>2, <2>3 DEF MarkRunning, TypeOK
<1>5. CASE Prepare(w)
  <2>1. t \in Theaters /\ worker[w].pc # "idle"
    BY <1>2, <1>5 DEF Prepare, WorkerAt
  <2>2. storedUrl[t] \in Theaters \cup {None}
    BY <2>1 DEF TypeOK
  <2>3. worker' \in [Workers -> WorkerType]
    BY <1>1, <1>5, <2>1, <2>2, WorkerMove DEF Prepare, TypeOK
  <2> QED BY <1>5, <2>3 DEF Prepare, TypeOK
<1>6. CASE LoadMetadata(w)
  <2>1. t \in Theaters /\ worker[w].pc # "idle" /\ worker[w].url \in Theaters
    BY <1>2, <1>6 DEF LoadMetadata, WorkerAt, UrlsKnown
  <2>2. worker' \in [Workers -> WorkerType]
    BY <1>1, <1>6, <2>1, WorkerMove DEF LoadMetadata, TypeOK
  <2>3. catalog' \in [Theaters -> {"absent", "provisioning", "active"}]
    BY <1>6, <2>1 DEF LoadMetadata, UpsertedStatus, TypeOK
  <2>4. storedUrl' \in [Theaters -> Theaters \cup {None}] /\ placeholder' \subseteq Theaters
    BY <1>6, <2>1 DEF LoadMetadata, TypeOK
  <2> QED BY <1>6, <2>2, <2>3, <2>4 DEF LoadMetadata, TypeOK
<1>7. CASE Activate(w)
  <2>1. t \in Theaters /\ worker[w].pc # "idle"
    BY <1>2, <1>7 DEF Activate, WorkerAt
  <2>2. worker' \in [Workers -> WorkerType]
    BY <1>1, <1>7, <2>1, WorkerMove DEF Activate, MoveWorker, TypeOK
  <2>3. catalog' \in [Theaters -> {"absent", "provisioning", "active"}]
    BY <1>7, <2>1 DEF Activate, TypeOK
  <2> QED BY <1>7, <2>2, <2>3 DEF Activate, TypeOK
<1>8. CASE ResetTheater(w)
  <2>1. t \in Theaters /\ worker[w].pc # "idle"
    BY <1>2, <1>8 DEF ResetTheater, WorkerAt
  <2>2. worker' \in [Workers -> WorkerType]
    BY <1>1, <1>8, <2>1, WorkerMove DEF ResetTheater, MoveWorker, TypeOK
  <2>3. placeholder' \subseteq Theaters
    BY <1>8, <2>1 DEF ResetTheater, TypeOK
  <2> QED BY <1>8, <2>2, <2>3 DEF ResetTheater, TypeOK
<1>9. CASE ScrapeThrows(w)
  <2>1. worker' \in [Workers -> WorkerType]
    BY <1>1, <1>9, WorkerMove DEF ScrapeThrows, TypeOK
  <2> QED BY <1>9, <2>1 DEF ScrapeThrows, TypeOK
<1>10. CASE SuccessNotWritten(w)
  <2>1. worker' \in [Workers -> WorkerType]
    BY <1>1, <1>10, WorkerMove DEF SuccessNotWritten, WorkerAt, MoveWorker, TypeOK
  <2> QED BY <1>10, <2>1 DEF SuccessNotWritten, TypeOK
<1>11. CASE ReportSuccess(w) \/ ReportFailure(w)
  <2>1. r \in Reports
    BY <1>2, <1>11 DEF ReportSuccess, ReportFailure, WorkerAt
  <2>2. PICK s \in {"success", "failed", report[r].status} : Finish(w, s)
    BY <1>11 DEF ReportSuccess, ReportFailure
  <2>3. s \in {"running", "success", "failed"}
    BY <1>11, <2>1 DEF ReportSuccess, ReportFailure, WorkerAt, JobsRefer, TypeOK, TerminalReport
  <2>4. report' \in [Reports -> [status : {"none", "running"} \cup TerminalReport,
                                 claim : {"null", "fresh", "old"}]]
    BY <2>1, <2>2, <2>3, ReportMove DEF Finish, TypeOK
  <2>5. worker' \in [Workers -> WorkerType] /\ events' \subseteq Reports
    BY <2>1, <2>2, IdleTypes DEF Finish, TypeOK
  <2> QED BY <1>11, <2>4, <2>5 DEF ReportSuccess, ReportFailure, TypeOK
<1>12. CASE WorkerCrash(w)
  BY <1>12, IdleTypes, ConstantsAssumption DEF WorkerCrash, TypeOK
<1> QED BY <1>3, <1>4, <1>5, <1>6, <1>7, <1>8, <1>9, <1>10, <1>11, <1>12 DEF WorkerStep

\* A step or the crash of a resolution run keeps the types.
LEMMA TypeResolver ==
  ASSUME TypeOK, NEW v \in Resolvers, ResolverStep(v) \/ ResolverCrash(v)
  PROVE  TypeOK'
<1> USE DEF catalogVars, jobVars, subVars, procVars
<1> DEFINE r == resolver[v].report
<1>1. resolver[v] \in ResolverType
  BY DEF TypeOK
<1>2. resolver[v].pc # "idle" => r \in Reports /\ resolver[v].ok \in BOOLEAN
  BY <1>1 DEF ResolverType, IdleResolver
<1>3. ASSUME NEW q \in Reports, LiveStart(v, q) \/ SweepStart(v, q) PROVE TypeOK'
  <2>1. StartResolving(v, q) => resolver' \in [Resolvers -> ResolverType]
    BY DEF StartResolving, TypeOK, ResolverType
  <2>2. resolver' \in [Resolvers -> ResolverType] /\ events' \subseteq Reports
    BY <1>3, <2>1 DEF LiveStart, SweepStart, TypeOK
  <2> QED BY <1>3, <2>2 DEF LiveStart, SweepStart, TypeOK
<1>4. CASE DecideOutcome(v)
  <2> DEFINE b == resolver[v].ok /\ TheaterReady(r)
  <2>1. b \in BOOLEAN
    OBVIOUS
  <2>2. resolver' = [resolver EXCEPT ![v] = [resolver[v] EXCEPT !.pc = "decided", !.ok = b]]
    BY <1>4 DEF DecideOutcome, TypeOK
  <2>3. resolver' \in [Resolvers -> ResolverType]
    <3>1. [resolver[v] EXCEPT !.pc = "decided", !.ok = b] \in ResolverType
      BY <1>1, <1>4, <2>1, ResolverMove DEF DecideOutcome
    <3> QED BY <2>2, <3>1 DEF TypeOK
  <2> QED BY <1>4, <2>3 DEF DecideOutcome, TypeOK
<1>5. CASE LoseRace(v)
  BY <1>5, IdleTypes DEF LoseRace, TypeOK
<1>6. CASE WriteTerminal(v)
  <2>1. r \in Reports /\ resolver[v].pc # "idle"
    BY <1>2, <1>6 DEF WriteTerminal
  <2>2. sub[r].status # "none"
    BY <1>6 DEF WriteTerminal, StillPending
  <2>3. sub[r].member \in Members /\ sub[r].theater \in Theaters
    BY <2>1, <2>2 DEF TypeOK, NoAttempt
  <2>4. sub' \in [Reports -> {NoAttempt} \cup
           [status : SubStatus \ {"none"}, member : Members, theater : Theaters]]
    <3>1. sub[r] \in [status : SubStatus \ {"none"}, member : Members, theater : Theaters]
      BY <2>1, <2>2 DEF TypeOK, NoAttempt
    <3>2. \A s \in {"succeeded", "failed"} : [sub[r] EXCEPT !.status = s] \in
             [status : SubStatus \ {"none"}, member : Members, theater : Theaters]
      BY <3>1 DEF SubStatus
    <3> QED BY <1>6, <2>1, <3>2 DEF WriteTerminal, TypeOK
  <2>5. selection' \in [Members -> SUBSET Theaters]
    BY <1>6, <2>3, AddType DEF WriteTerminal, TypeOK
  <2>6. resolver' \in [Resolvers -> ResolverType]
    <3>1. [resolver[v] EXCEPT !.pc = "publish"] \in ResolverType
      BY <1>1, <2>1, ResolverMove
    <3> QED BY <1>6, <3>1 DEF WriteTerminal, TypeOK
  <2> QED BY <1>6, <2>4, <2>5, <2>6 DEF WriteTerminal, TypeOK
<1>7. CASE Publish(v)
  <2>1. notices' \in [Reports -> Nat]
    BY <1>2, <1>7 DEF Publish, TypeOK
  <2> QED BY <1>7, <2>1, IdleTypes DEF Publish, TypeOK
<1>8. CASE ResolverCrash(v)
  BY <1>8, IdleTypes, ConstantsAssumption DEF ResolverCrash, TypeOK
<1> QED BY <1>3, <1>4, <1>5, <1>6, <1>7, <1>8 DEF ResolverStep

\* The sweep's expiry, a lost notification and the passing of time keep the types.
LEMMA TypeTime ==
  ASSUME TypeOK,
         SweepExpire \/ \E r \in Reports : EventLost(r) \/ ClaimAges(r) \/ WindowSlides(r)
  PROVE  TypeOK'
<1> USE DEF catalogVars, jobVars, subVars, procVars
<1>1. CASE SweepExpire
  <2>1. report' \in [Reports -> [status : {"none", "running"} \cup TerminalReport,
                                 claim : {"null", "fresh", "old"}]]
    <3>1. \A r \in Reports : [report[r] EXCEPT !.status = "failed"] \in
             [status : {"none", "running"} \cup TerminalReport, claim : {"null", "fresh", "old"}]
      BY DEF TypeOK, TerminalReport
    <3> QED BY <1>1, <3>1 DEF SweepExpire, TypeOK
  <2> QED BY <1>1, <2>1 DEF SweepExpire, TypeOK
<1>2. ASSUME NEW r \in Reports, EventLost(r) PROVE TypeOK'
  BY <1>2 DEF EventLost, TypeOK
<1>3. ASSUME NEW r \in Reports, ClaimAges(r) PROVE TypeOK'
  BY <1>3, ReportMove DEF ClaimAges, TypeOK
<1>4. ASSUME NEW r \in Reports, WindowSlides(r) PROVE TypeOK'
  BY <1>4 DEF WindowSlides, TypeOK
<1> QED BY <1>1, <1>2, <1>3, <1>4

\* Every step keeps the types.
LEMMA TypeNext == IInv /\ [Next]_vars => TypeOK'
<1> SUFFICES ASSUME IInv, [Next]_vars PROVE TypeOK'
  OBVIOUS
<1>1. TypeOK /\ UrlsKnown /\ JobsRefer
  BY DEF IInv
<1>2. CASE UNCHANGED vars
  BY <1>1, <1>2 DEF vars, catalogVars, jobVars, subVars, procVars, TypeOK
<1>3. CASE Next
  BY <1>1, <1>3, TypeClient, TypeMember, TypeStaff, TypeWorker, TypeResolver, TypeTime DEF Next
<1> QED BY <1>2, <1>3

-----------------------------------------------------------------------------
(***************************************************************************)
(* What one step may do to each table and to each kind of process.         *)
(***************************************************************************)

\* Who leaves what alone.
LEMMA ClientFrame ==
  ASSUME NEW c \in Clients, ClientStep(c)
  PROVE  /\ UNCHANGED <<member, worker, resolver, events, notices, crashes>>
         /\ \/ \E r \in Reports : InsertAttempt(c, r)
            \/ UNCHANGED <<catalog, storedUrl, placeholder, report, job, queue, sub, window>>
         /\ \/ AddToSelection(c)
            \/ UNCHANGED selection
BY DEF ClientStep, SubmitBegin, SelectBegin, LockMember, DecideAttempt, InsertAttempt,
       ClientAbort, AddToSelection, catalogVars, jobVars, subVars

\* What the Member lifecycle never touches: catalog, jobs and processes.
LEMMA MemberFrame ==
  ASSUME NEW m \in Members, MemberStep(m)
  PROVE  /\ UNCHANGED <<catalog, storedUrl, placeholder, report, job, queue, window, client,
                        worker, resolver, events, notices, crashes>>
         /\ Erase(m) \/ UNCHANGED sub
BY DEF MemberStep, VerifyEmail, Suspend, Reinstate, Erase, RemoveFromSelection,
       catalogVars, jobVars, subVars, procVars

\* What Staff never touch: Members, the throttle window and the processes.
LEMMA StaffFrame ==
  ASSUME NEW th \in Theaters, StaffStep(th)
  PROVE  /\ UNCHANGED <<member, window, client, worker, resolver, events, notices, crashes>>
         /\ StaffDelete(th) \/ UNCHANGED <<sub, selection>>
BY DEF StaffStep, StaffAdd, StaffEdit, StaffDelete, StaffScrape,
       catalogVars, jobVars, subVars, procVars

\* What a worker never touches: attempts, Selections, handlers and resolutions.
LEMMA WorkerFrame ==
  ASSUME NEW w \in Workers, WorkerStep(w) \/ WorkerCrash(w)
  PROVE  UNCHANGED <<member, job, sub, window, selection, client, resolver, notices>>
BY DEF WorkerStep, WorkerCrash, Claim, MarkRunning, Prepare, LoadMetadata, Activate,
       ResetTheater, ScrapeThrows, ReportSuccess, SuccessNotWritten, ReportFailure,
       catalogVars, jobVars, subVars, procVars

\* What a resolution never touches: catalog, jobs, handlers and workers.
LEMMA ResolverFrame ==
  ASSUME NEW v \in Resolvers, ResolverStep(v) \/ ResolverCrash(v)
  PROVE  /\ UNCHANGED <<member, catalog, storedUrl, placeholder, report, job, queue, window,
                        client, worker>>
         /\ WriteTerminal(v) \/ UNCHANGED <<sub, selection>>
BY DEF ResolverStep, ResolverCrash, LiveStart, SweepStart, DecideOutcome, LoseRace,
       WriteTerminal, Publish, catalogVars, jobVars, subVars, procVars

\* What expiry, loss and time never touch: everything but reports, events and the
\* throttle window.
LEMMA TimeFrame ==
  ASSUME SweepExpire \/ \E r \in Reports : EventLost(r) \/ ClaimAges(r) \/ WindowSlides(r)
  PROVE  /\ UNCHANGED <<member, catalog, storedUrl, placeholder, job, queue, sub, selection,
                        client, worker, resolver, notices, crashes>>
         /\ window' \subseteq window
BY DEF SweepExpire, EventLost, ClaimAges, WindowSlides, catalogVars, jobVars, subVars, procVars

\* A stuttering step changes no variable.
LEMMA StutterFrame ==
  ASSUME UNCHANGED vars
  PROVE  UNCHANGED <<member, catalog, storedUrl, placeholder, report, job, queue, sub, window,
                     selection, client, worker, resolver, events, notices, crashes>>
BY DEF vars, catalogVars, jobVars, subVars, procVars

\* The kinds of step, for the case splits below.
LEMMA StepKinds ==
  ASSUME [Next]_vars
  PROVE  \/ \E c \in Clients : ClientStep(c)
         \/ \E m \in Members : MemberStep(m)
         \/ \E th \in Theaters : StaffStep(th)
         \/ \E w \in Workers : WorkerStep(w) \/ WorkerCrash(w)
         \/ \E v \in Resolvers : ResolverStep(v) \/ ResolverCrash(v)
         \/ SweepExpire \/ \E r \in Reports : EventLost(r) \/ ClaimAges(r) \/ WindowSlides(r)
         \/ UNCHANGED vars
BY DEF Next

\* A step that creates no attempt: it keeps each one, gives a pending one its
\* outcome, or deletes it.
KeepsAttempt(r) ==
  \/ sub'[r] = sub[r]
  \/ sub'[r] = NoAttempt
  \/ /\ sub[r].status = "pending"
     /\ sub'[r].status \in {"succeeded", "failed"}
     /\ sub'[r].member = sub[r].member /\ sub'[r].theater = sub[r].theater

NoNewAttempt == window' \subseteq window /\ \A r \in Reports : KeepsAttempt(r)

\* An attempt is created by the commit of submit only.
LEMMA AttemptChange ==
  ASSUME TypeOK, [Next]_vars
  PROVE  \/ \E c \in Clients, r \in Reports : InsertAttempt(c, r)
         \/ NoNewAttempt
<1> USE DEF NoNewAttempt, KeepsAttempt
<1>1. ASSUME NEW m \in Members, Erase(m)
      PROVE  \A r \in Reports : sub'[r] = sub[r] \/ sub'[r] = NoAttempt
  BY <1>1 DEF Erase, WithoutAttempts
<1>2. ASSUME NEW th \in Theaters, StaffDelete(th)
      PROVE  \A r \in Reports : sub'[r] = sub[r] \/ sub'[r] = NoAttempt
  BY <1>2 DEF StaffDelete, WithoutAttempts
<1>3. ASSUME NEW v \in Resolvers, WriteTerminal(v)
      PROVE  \A r \in Reports :
                 \/ sub'[r] = sub[r]
                 \/ /\ sub[r].status = "pending"
                    /\ sub'[r].status \in {"succeeded", "failed"}
                    /\ sub'[r].member = sub[r].member /\ sub'[r].theater = sub[r].theater
  <2> DEFINE q == resolver[v].report
  <2>1. q \in Reports
    BY <1>3 DEF WriteTerminal, TypeOK, ResolverType, IdleResolver
  <2>2. sub[q].status = "pending"
    BY <1>3 DEF WriteTerminal, StillPending
  <2>3. sub[q] \in [status : SubStatus \ {"none"}, member : Members, theater : Theaters]
    BY <2>1, <2>2 DEF TypeOK, NoAttempt
  <2>4. \E s \in {"succeeded", "failed"} : sub' = [sub EXCEPT ![q].status = s]
    BY <1>3 DEF WriteTerminal
  <2> QED BY <2>1, <2>2, <2>3, <2>4 DEF TypeOK
<1> QED BY <1>1, <1>2, <1>3, StepKinds, ClientFrame, MemberFrame, StaffFrame, WorkerFrame,
           ResolverFrame, TimeFrame, StutterFrame

\* The facts that hold of the rows InsertAttempt writes.
LEMMA InsertChange ==
  ASSUME TypeOK, NEW c \in Clients, NEW r \in Reports, InsertAttempt(c, r)
  PROVE  /\ client[c].pc = "insert"
         /\ client[c].member \in Members /\ client[c].theater \in Theaters
         /\ client[c].retry \in BOOLEAN
         /\ client' = [client EXCEPT ![c] = IdleClient]
         /\ report[r].status = "none"
         /\ report' = [report EXCEPT ![r] = [status |-> "running", claim |-> "null"]]
         /\ sub' = [sub EXCEPT ![r] = [status |-> "pending", member |-> client[c].member,
                                       theater |-> client[c].theater]]
         /\ window' = window \cup {r}
         /\ UNCHANGED <<member, selection, worker, resolver, notices>>
         /\ \/ client[c].retry /\ UNCHANGED <<catalog, storedUrl>>
            \/ /\ ~client[c].retry /\ catalog[client[c].theater] = "absent"
               /\ catalog' = [catalog EXCEPT ![client[c].theater] = "provisioning"]
               /\ storedUrl' = [storedUrl EXCEPT ![client[c].theater] = client[c].theater]
<1>1. client[c] \in ClientType /\ client[c] # IdleClient
  BY DEF InsertAttempt, TypeOK, IdleClient
<1> QED BY <1>1 DEF InsertAttempt, InsertTheater, EnqueueJob, Fresh, catalogVars, ClientType

\* A Theater is created provisioning, becomes active while no retry holds its
\* row, and disappears by a Staff deletion alone.
LEMMA CatalogChange ==
  ASSUME TypeOK, UrlsKnown, JobsRefer, [Next]_vars, NEW th \in Theaters
  PROVE  \/ catalog'[th] = catalog[th]
         \/ catalog[th] = "absent" /\ catalog'[th] = "provisioning"
         \/ catalog[th] = "provisioning" /\ catalog'[th] = "active" /\ ~TheaterLocked(th)
         \/ StaffDelete(th)
<1>1. ASSUME NEW c \in Clients, ClientStep(c)
      PROVE  \/ catalog'[th] = catalog[th]
             \/ catalog[th] = "absent" /\ catalog'[th] = "provisioning"
  <2>1. ASSUME NEW r \in Reports, InsertAttempt(c, r)
        PROVE  \/ catalog'[th] = catalog[th]
               \/ catalog[th] = "absent" /\ catalog'[th] = "provisioning"
    <3>1. \/ catalog' = catalog
          \/ /\ catalog[client[c].theater] = "absent"
             /\ catalog' = [catalog EXCEPT ![client[c].theater] = "provisioning"]
      BY <2>1, InsertChange
    <3> QED BY <3>1 DEF TypeOK
  <2> QED BY <1>1, <2>1, ClientFrame
<1>2. ASSUME NEW t \in Theaters, StaffStep(t)
      PROVE  \/ catalog'[th] = catalog[th]
             \/ catalog[th] = "absent" /\ catalog'[th] = "provisioning"
             \/ StaffDelete(th)
  BY <1>2 DEF StaffStep, StaffAdd, StaffEdit, StaffDelete, StaffScrape, InsertTheater,
              catalogVars, TypeOK
<1>3. ASSUME NEW w \in Workers, WorkerStep(w) \/ WorkerCrash(w)
      PROVE  \/ catalog'[th] = catalog[th]
             \/ catalog[th] = "absent" /\ catalog'[th] = "provisioning"
             \/ catalog[th] = "provisioning" /\ catalog'[th] = "active" /\ ~TheaterLocked(th)
  <2>1. CASE LoadMetadata(w)
    BY <2>1 DEF LoadMetadata, UpsertedStatus, TypeOK
  <2>2. CASE Activate(w)
    BY <2>2 DEF Activate, TypeOK
  <2>3. CASE ~LoadMetadata(w) /\ ~Activate(w)
    BY <1>3, <2>3 DEF WorkerStep, WorkerCrash, Claim, MarkRunning, Prepare, ResetTheater,
       ScrapeThrows, ReportSuccess, SuccessNotWritten, ReportFailure, catalogVars
  <2> QED BY <2>1, <2>2, <2>3
<1> QED BY <1>1, <1>2, <1>3, StepKinds, MemberFrame, ResolverFrame, TimeFrame, StutterFrame

\* A Member's status changes only while no submit transaction holds the row, and
\* an erasure is a step of that Member.
LEMMA MemberChange ==
  ASSUME TypeOK, [Next]_vars, NEW m \in Members
  PROVE  \/ member'[m] = member[m]
         \/ /\ ~MemberLocked(m)
            /\ Erase(m) \/ member'[m] # "erased"
<1>1. ASSUME NEW n \in Members, MemberStep(n)
      PROVE  \/ member'[m] = member[m]
             \/ ~MemberLocked(m) /\ (Erase(m) \/ member'[m] # "erased")
  <2>1. CASE Erase(n)
    <3>1. ~MemberLocked(n) /\ member' = [member EXCEPT ![n] = "erased"]
      BY <2>1 DEF Erase, SetMemberStatus
    <3> QED BY <2>1, <3>1 DEF TypeOK
  <2>2. CASE VerifyEmail(n) \/ Suspend(n) \/ Reinstate(n)
    <3>1. /\ ~MemberLocked(n)
          /\ \E s \in {"active", "suspended"} : member' = [member EXCEPT ![n] = s]
      BY <2>2 DEF VerifyEmail, Suspend, Reinstate, SetMemberStatus
    <3> QED BY <3>1 DEF TypeOK
  <2>3. CASE \E th \in Theaters : RemoveFromSelection(n, th)
    BY <2>3 DEF RemoveFromSelection
  <2> QED BY <1>1, <2>1, <2>2, <2>3 DEF MemberStep
<1> QED BY <1>1, StepKinds, ClientFrame, StaffFrame, WorkerFrame, ResolverFrame, TimeFrame,
           StutterFrame

\* A report is created running and unstamped; afterwards only the worker that
\* holds the job, or the clock and the sweep once it is stamped, change it.
LEMMA ReportChange ==
  ASSUME TypeOK, JobsRefer, [Next]_vars, NEW r \in Reports
  PROVE  \/ report'[r] = report[r]
         \/ report[r].status = "none" /\ report'[r] = [status |-> "running", claim |-> "null"]
         \/ /\ report[r].status # "none" /\ report'[r].status # "none"
            /\ report[r].status \in TerminalReport => report'[r].status \in TerminalReport
            /\ \/ report[r].claim # "null"
               \/ \E w \in Workers : /\ worker[w].pc # "idle" /\ worker[w].report = r
                                     /\ worker'[w].pc # "claimed"
<1>1. ASSUME NEW q \in Reports, NEW k, NEW t, Fresh(q), EnqueueJob(q, k, t)
      PROVE  \/ report'[r] = report[r]
             \/ report[r].status = "none" /\ report'[r] = [status |-> "running", claim |-> "null"]
  BY <1>1 DEF EnqueueJob, Fresh, TypeOK
<1>2. ASSUME NEW c \in Clients, ClientStep(c)
      PROVE  \/ report'[r] = report[r]
             \/ report[r].status = "none" /\ report'[r] = [status |-> "running", claim |-> "null"]
  <2>1. ASSUME NEW q \in Reports, InsertAttempt(c, q)
        PROVE  \/ report'[r] = report[r]
               \/ report[r].status = "none" /\ report'[r] = [status |-> "running", claim |-> "null"]
    BY <2>1, InsertChange DEF TypeOK
  <2> QED BY <1>2, <2>1, ClientFrame
<1>3. ASSUME NEW th \in Theaters, StaffStep(th)
      PROVE  \/ report'[r] = report[r]
             \/ report[r].status = "none" /\ report'[r] = [status |-> "running", claim |-> "null"]
  BY <1>1, <1>3 DEF StaffStep, StaffAdd, StaffEdit, StaffDelete, StaffScrape, jobVars
<1>4. ASSUME NEW w \in Workers, WorkerStep(w) \/ WorkerCrash(w)
      PROVE  \/ report'[r] = report[r]
             \/ /\ report[r].status # "none" /\ report'[r].status # "none"
                /\ report[r].status \in TerminalReport => report'[r].status \in TerminalReport
                /\ worker[w].pc # "idle" /\ worker[w].report = r /\ worker'[w].pc # "claimed"
  <2> DEFINE q == worker[w].report
  <2>1. worker[w].pc # "idle" => q \in Reports /\ report[q].status # "none"
    BY DEF TypeOK, WorkerType, IdleWorker, JobsRefer
  <2>2. CASE MarkRunning(w)
    <3>1. /\ worker[w].pc = "claimed"
          /\ report[q] = [status |-> "running", claim |-> "null"]
      BY <2>2 DEF MarkRunning, WorkerAt, JobsRefer
    <3>2. worker'[w].pc # "claimed"
      BY <2>2 DEF MarkRunning, TypeOK, WorkerType, IdleWorker
    <3>3. report' \in {report, [report EXCEPT ![q] = [status |-> "running", claim |-> "fresh"]]}
      BY <2>2 DEF MarkRunning
    <3> QED BY <2>1, <3>1, <3>2, <3>3 DEF TypeOK, TerminalReport
  <2>3. CASE ReportSuccess(w) \/ ReportFailure(w)
    <3>1. worker[w].pc # "idle"
      BY <2>3 DEF ReportSuccess, ReportFailure, WorkerAt
    <3>2. \E s \in {"success", "failed", report[q].status} : Finish(w, s)
      BY <2>3 DEF ReportSuccess, ReportFailure
    <3>3. worker'[w].pc # "claimed"
      BY <3>2 DEF Finish, TypeOK, IdleWorker
    <3> QED BY <2>1, <3>1, <3>2, <3>3 DEF Finish, TypeOK, TerminalReport
  <2>4. CASE ~MarkRunning(w) /\ ~ReportSuccess(w) /\ ~ReportFailure(w)
    BY <1>4, <2>4 DEF WorkerStep, WorkerCrash, Claim, Prepare, LoadMetadata, Activate,
       ResetTheater, ScrapeThrows, SuccessNotWritten, jobVars
  <2> QED BY <2>2, <2>3, <2>4
<1>5. ASSUME SweepExpire \/ \E q \in Reports : EventLost(q) \/ ClaimAges(q) \/ WindowSlides(q)
      PROVE  \/ report'[r] = report[r]
             \/ /\ report[r].status = "running" /\ report'[r].status \in {"running", "failed"}
                /\ report[r].claim # "null"
  BY <1>5 DEF SweepExpire, Stale, EventLost, ClaimAges, WindowSlides, jobVars, TypeOK
<1> QED BY <1>2, <1>3, <1>4, <1>5, StepKinds, MemberFrame, ResolverFrame, StutterFrame
        DEF TerminalReport

\* The queue grows by a fresh report only.
LEMMA QueueChange ==
  ASSUME TypeOK, [Next]_vars, NEW r \in queue'
  PROVE  \/ r \in queue
         \/ /\ r \in Reports /\ report[r].status = "none"
            /\ report'[r] = [status |-> "running", claim |-> "null"]
<1>1. ASSUME NEW q \in Reports, NEW k, NEW t, Fresh(q), EnqueueJob(q, k, t)
      PROVE  \/ r \in queue
             \/ /\ r \in Reports /\ report[r].status = "none"
                /\ report'[r] = [status |-> "running", claim |-> "null"]
  BY <1>1 DEF EnqueueJob, Fresh, TypeOK
<1>2. ASSUME NEW c \in Clients, NEW q \in Reports, InsertAttempt(c, q)
      PROVE  \E t : EnqueueJob(q, "add_theater", t) /\ Fresh(q)
  BY <1>2 DEF InsertAttempt
<1>3. ASSUME NEW th \in Theaters, StaffStep(th)
      PROVE  \/ queue' = queue
             \/ \E q \in Reports : \E k, t : EnqueueJob(q, k, t) /\ Fresh(q)
  BY <1>3 DEF StaffStep, StaffAdd, StaffEdit, StaffDelete, StaffScrape, jobVars
<1>4. ASSUME NEW w \in Workers, WorkerStep(w) \/ WorkerCrash(w)
      PROVE  queue' \subseteq queue
  BY <1>4 DEF WorkerStep, WorkerCrash, Claim, Dequeued, MarkRunning, Prepare, LoadMetadata,
     Activate, ResetTheater, ScrapeThrows, ReportSuccess, SuccessNotWritten, ReportFailure,
     Finish, jobVars
<1> QED BY <1>1, <1>2, <1>3, <1>4, StepKinds, ClientFrame, MemberFrame, ResolverFrame,
           TimeFrame, StutterFrame

\* A worker stays, finishes, claims the oldest job, or moves on with its job.
LEMMA WorkerChange ==
  ASSUME TypeOK, [Next]_vars, NEW w \in Workers
  PROVE  \/ worker'[w] = worker[w]
         \/ worker'[w] = IdleWorker
         \/ /\ worker'[w].pc = "claimed" /\ worker'[w].report \in queue
            /\ queue' = queue \ {worker'[w].report} /\ UNCHANGED report
            /\ \A x \in Workers \ {w} : worker'[x] = worker[x]
         \/ /\ worker[w].pc # "idle" /\ worker'[w].report = worker[w].report
            /\ worker'[w].pc # "claimed"
<1>1. ASSUME NEW x \in Workers, WorkerStep(x) \/ WorkerCrash(x)
      PROVE  \/ worker'[w] = worker[w]
             \/ worker'[w] = IdleWorker
             \/ /\ worker'[w].pc = "claimed" /\ worker'[w].report \in queue
                /\ queue' = queue \ {worker'[w].report} /\ UNCHANGED report
                /\ \A y \in Workers \ {w} : worker'[y] = worker[y]
             \/ /\ worker[w].pc # "idle" /\ worker'[w].report = worker[w].report
                /\ worker'[w].pc # "claimed"
  <2>1. CASE Claim(x)
    BY <2>1 DEF Claim, Dequeued, TypeOK
  <2>2. CASE \/ MarkRunning(x) \/ Prepare(x) \/ LoadMetadata(x) \/ Activate(x)
             \/ ResetTheater(x) \/ ScrapeThrows(x) \/ SuccessNotWritten(x)
    <3>1. worker[x].pc # "idle"
      BY <2>2 DEF MarkRunning, Prepare, LoadMetadata, Activate, ResetTheater, ScrapeThrows,
                  SuccessNotWritten, WorkerAt
    <3>2. worker[x] \in [pc : {"claimed", "prepare", "load", "scrape", "succeeded", "failed"},
                         report : Reports, url : Theaters \cup {None}]
      BY <3>1 DEF TypeOK, WorkerType, IdleWorker
    <3>3. \E p \in {"prepare", "load", "scrape", "succeeded", "failed"} :
             \/ worker' = [worker EXCEPT ![x] = [worker[x] EXCEPT !.pc = p]]
             \/ \E u : worker' = [worker EXCEPT ![x] = [worker[x] EXCEPT !.pc = p, !.url = u]]
      <4>1. CASE MarkRunning(x)
        BY <4>1 DEF MarkRunning, TypeOK
      <4>2. CASE Prepare(x)
        BY <4>2 DEF Prepare, TypeOK
      <4>3. CASE LoadMetadata(x)
        BY <4>3 DEF LoadMetadata, TypeOK
      <4>4. CASE Activate(x) \/ ResetTheater(x) \/ SuccessNotWritten(x)
        BY <4>4 DEF Activate, ResetTheater, SuccessNotWritten, MoveWorker, TypeOK
      <4>5. CASE ScrapeThrows(x)
        BY <4>5 DEF ScrapeThrows, TypeOK
      <4> QED BY <2>2, <4>1, <4>2, <4>3, <4>4, <4>5
    <3>4. PICK p \in {"prepare", "load", "scrape", "succeeded", "failed"} :
             \/ worker' = [worker EXCEPT ![x] = [worker[x] EXCEPT !.pc = p]]
             \/ \E u : worker' = [worker EXCEPT ![x] = [worker[x] EXCEPT !.pc = p, !.url = u]]
      BY <3>3
    <3>5. worker'[x].report = worker[x].report /\ worker'[x].pc = p
      <4>1. CASE worker' = [worker EXCEPT ![x] = [worker[x] EXCEPT !.pc = p]]
        BY <3>2, <4>1 DEF TypeOK
      <4>2. ASSUME NEW u, worker' = [worker EXCEPT ![x] = [worker[x] EXCEPT !.pc = p, !.url = u]]
            PROVE  worker'[x].report = worker[x].report /\ worker'[x].pc = p
        BY <3>2, <4>2 DEF TypeOK
      <4> QED BY <3>4, <4>1, <4>2
    <3>6. w # x => worker'[w] = worker[w]
      BY <3>4 DEF TypeOK
    <3> QED BY <3>1, <3>5, <3>6
  <2>3. CASE ReportSuccess(x) \/ ReportFailure(x) \/ WorkerCrash(x)
    <3>1. worker' = [worker EXCEPT ![x] = IdleWorker]
      BY <2>3 DEF ReportSuccess, ReportFailure, WorkerCrash, Finish
    <3> QED BY <3>1 DEF TypeOK
  <2> QED BY <1>1, <2>1, <2>2, <2>3 DEF WorkerStep
<1> QED BY <1>1, StepKinds, ClientFrame, MemberFrame, StaffFrame, ResolverFrame, TimeFrame,
           StutterFrame

\* A handler comes to hold the Member lock, and then decides, one at a time and
\* from what the tables say at that step.
LEMMA ClientChange ==
  ASSUME TypeOK, [Next]_vars, NEW c \in Clients, HoldsMember(c)'
  PROVE  \/ client'[c] = client[c]
         \/ /\ client'[c].pc = "locked" /\ client'[c].member = client[c].member
            /\ client[c].member \in Members
            /\ ~MemberLocked(client[c].member) /\ member[client[c].member] = "active"
            /\ UNCHANGED <<member, catalog, sub, window>>
            /\ \A d \in Clients \ {c} : client'[d] = client[d]
         \/ /\ client[c].pc = "locked" /\ client'[c].pc = "insert"
            /\ client'[c].member = client[c].member /\ client'[c].theater = client[c].theater
            /\ BelowThrottle(client[c].member) /\ ~TheaterLocked(client[c].theater)
            /\ client'[c].retry => /\ Retryable(client[c].theater)
                                   /\ catalog[client[c].theater] = "provisioning"
            /\ UNCHANGED <<member, catalog, sub, window>>
            /\ \A d \in Clients \ {c} : client'[d] = client[d]
<1>1. ASSUME NEW d \in Clients, ClientStep(d), d # c
      PROVE  client'[c] = client[c]
  BY <1>1 DEF ClientStep, SubmitBegin, SelectBegin, LockMember, DecideAttempt, InsertAttempt,
              ClientAbort, AddToSelection, TypeOK
<1>2. CASE LockMember(c)
  <2>1. client[c] \in [pc : {"begin", "locked", "insert", "add"}, member : Members,
                       theater : Theaters, retry : BOOLEAN]
    BY <1>2 DEF LockMember, TypeOK, ClientType, IdleClient
  <2>2. client'[c] = [client[c] EXCEPT !.pc = "locked"] /\ member[client[c].member] = "active"
    BY <1>2 DEF LockMember, HoldsMember, TypeOK, IdleClient, MaySubmit
  <2> QED BY <1>2, <2>1, <2>2 DEF LockMember, TypeOK, catalogVars, subVars
<1>3. CASE DecideAttempt(c)
  <2> DEFINE th == client[c].theater
  <2>1. client[c] \in [pc : {"begin", "locked", "insert", "add"}, member : Members,
                       theater : Theaters, retry : BOOLEAN]
    BY <1>3 DEF DecideAttempt, TypeOK, ClientType, IdleClient
  <2>2. /\ client'[c] = [client[c] EXCEPT !.pc = "insert", !.retry = (catalog[th] # "absent")]
        /\ BelowThrottle(client[c].member) /\ catalog[th] # "active"
        /\ catalog[th] = "absent" \/ Retryable(th)
    <3>1. client[c].pc = "locked" /\ client'[c].pc \in {"locked", "insert"}
      BY <1>3 DEF DecideAttempt, HoldsMember
    <3>2. client'[c] =
           IF catalog[th] = "active" THEN [client[c] EXCEPT !.pc = "add"]
           ELSE IF BelowThrottle(client[c].member) /\ (catalog[th] = "absent" \/ Retryable(th))
                THEN [client[c] EXCEPT !.pc = "insert", !.retry = (catalog[th] # "absent")]
                ELSE IdleClient
      BY <1>3 DEF DecideAttempt, TypeOK
    <3>3. IdleClient.pc = "idle" /\ [client[c] EXCEPT !.pc = "add"].pc = "add"
      BY <2>1 DEF IdleClient
    <3> QED BY <3>1, <3>2, <3>3
  <2>3. catalog[th] \in {"absent", "provisioning", "active"}
    BY <2>1 DEF TypeOK
  <2> QED BY <1>3, <2>1, <2>2, <2>3 DEF DecideAttempt, TypeOK, catalogVars, subVars
<1>4. ASSUME ClientStep(c), ~LockMember(c), ~DecideAttempt(c)
      PROVE  FALSE
  <2>1. client'[c].pc \in {"begin", "add", "idle"}
    <3>1. ASSUME NEW m \in Members, NEW th \in Theaters,
                 SubmitBegin(c, m, th) \/ SelectBegin(c, m, th)
          PROVE  client'[c].pc \in {"begin", "add"}
      <4>1. \E p \in {"begin", "add"} : client' = [client EXCEPT ![c] =
               [pc |-> p, member |-> m, theater |-> th, retry |-> FALSE]]
        BY <3>1 DEF SubmitBegin, SelectBegin
      <4> QED BY <4>1 DEF TypeOK
    <3>2. CASE AddToSelection(c) \/ ClientAbort(c) \/ \E r \in Reports : InsertAttempt(c, r)
      <4>1. client' = [client EXCEPT ![c] = IdleClient]
        BY <3>2 DEF AddToSelection, ClientAbort, InsertAttempt
      <4> QED BY <4>1 DEF TypeOK, IdleClient
    <3> QED BY <1>4, <3>1, <3>2 DEF ClientStep
  <2> QED BY <2>1 DEF HoldsMember
<1> QED BY <1>1, <1>2, <1>3, <1>4, StepKinds, MemberFrame, StaffFrame, WorkerFrame,
           ResolverFrame, TimeFrame, StutterFrame

\* A run stays, ends, starts on a resolvable attempt, decides, or writes.
LEMMA ResolverChange ==
  ASSUME TypeOK, [Next]_vars, NEW v \in Resolvers, resolver'[v].pc # "idle"
  PROVE  \/ resolver'[v] = resolver[v]
         \/ /\ resolver'[v].pc = "read" /\ report[resolver'[v].report].status \in TerminalReport
            /\ resolver'[v].report \in Reports
         \/ /\ resolver[v].pc = "read" /\ resolver'[v].pc = "decided"
            /\ resolver'[v].report = resolver[v].report
            /\ resolver'[v].ok => TheaterReady(resolver[v].report)
            /\ UNCHANGED <<catalog, sub>>
         \/ /\ resolver[v].pc = "decided" /\ resolver'[v].pc = "publish"
            /\ resolver'[v].report = resolver[v].report
            /\ WriteTerminal(v)
            /\ \A u \in Resolvers \ {v} : resolver'[u] = resolver[u]
<1>1. ASSUME NEW u \in Resolvers, ResolverStep(u) \/ ResolverCrash(u), u # v
      PROVE  resolver'[v] = resolver[v]
  BY <1>1 DEF ResolverStep, ResolverCrash, LiveStart, SweepStart, StartResolving,
              DecideOutcome, LoseRace, WriteTerminal, Publish, TypeOK
<1>2. ASSUME NEW r \in Reports, LiveStart(v, r) \/ SweepStart(v, r)
      PROVE  \/ resolver'[v] = resolver[v]
             \/ /\ resolver'[v].pc = "read" /\ resolver'[v].report \in Reports
                /\ report[resolver'[v].report].status \in TerminalReport
  BY <1>2 DEF LiveStart, SweepStart, StartResolving, Resolvable, TypeOK
<1>3. resolver[v].pc # "idle" =>
        resolver[v] \in [pc : {"read", "decided", "publish"}, report : Reports, ok : BOOLEAN]
  BY DEF TypeOK, ResolverType, IdleResolver
<1>4. CASE DecideOutcome(v)
  <2> DEFINE b == resolver[v].ok /\ TheaterReady(resolver[v].report)
  <2>1. resolver[v].pc = "read"
    BY <1>4 DEF DecideOutcome
  <2>2. resolver'[v] = [resolver[v] EXCEPT !.pc = "decided", !.ok = b]
    BY <1>4 DEF DecideOutcome, TypeOK
  <2>3. /\ resolver'[v].pc = "decided" /\ resolver'[v].report = resolver[v].report
        /\ resolver'[v].ok = b
    BY <1>3, <2>1, <2>2
  <2> QED BY <1>4, <2>1, <2>3 DEF DecideOutcome, catalogVars, subVars
<1>5. CASE WriteTerminal(v)
  <2>1. resolver[v].pc = "decided" /\ resolver' = [resolver EXCEPT ![v].pc = "publish"]
    BY <1>5 DEF WriteTerminal
  <2>2. /\ resolver'[v].pc = "publish" /\ resolver'[v].report = resolver[v].report
        /\ \A u \in Resolvers \ {v} : resolver'[u] = resolver[u]
    BY <1>3, <2>1 DEF TypeOK
  <2> QED BY <1>5, <2>1, <2>2
<1>6. CASE LoseRace(v) \/ Publish(v) \/ ResolverCrash(v)
  <2>1. resolver' = [resolver EXCEPT ![v] = IdleResolver]
    BY <1>6 DEF LoseRace, Publish, ResolverCrash
  <2> QED BY <2>1 DEF TypeOK, IdleResolver
<1>7. ASSUME ResolverStep(v) \/ ResolverCrash(v)
      PROVE  \/ \E r \in Reports : LiveStart(v, r) \/ SweepStart(v, r)
             \/ DecideOutcome(v) \/ WriteTerminal(v)
             \/ LoseRace(v) \/ Publish(v) \/ ResolverCrash(v)
  BY <1>7 DEF ResolverStep
<1>8. ASSUME ~\E u \in Resolvers : ResolverStep(u) \/ ResolverCrash(u)
      PROVE  resolver'[v] = resolver[v]
  BY <1>8, StepKinds, ClientFrame, MemberFrame, StaffFrame, WorkerFrame, TimeFrame, StutterFrame
<1> QED BY <1>1, <1>2, <1>4, <1>5, <1>6, <1>7, <1>8

\* A success is written by a run that decided it.
LEMMA OutcomeChange ==
  ASSUME TypeOK, [Next]_vars, NEW r \in Reports,
         sub[r].status # "succeeded", sub'[r].status = "succeeded"
  PROVE  \E v \in Resolvers :
           /\ resolver[v].pc = "decided" /\ resolver[v].report = r /\ resolver[v].ok
           /\ sub[r].status = "pending" /\ sub'[r].theater = sub[r].theater
           /\ UNCHANGED catalog
<1>1. sub'[r] # sub[r] /\ sub'[r] # NoAttempt
  BY DEF NoAttempt
<1>2. ASSUME NEW c \in Clients, NEW q \in Reports, InsertAttempt(c, q) PROVE FALSE
  <2>1. sub' = [sub EXCEPT ![q] = [status |-> "pending", member |-> client[c].member,
                                   theater |-> client[c].theater]]
    BY <1>2, InsertChange
  <2> QED BY <1>1, <2>1 DEF TypeOK
<1>3. ~\E m \in Members : Erase(m)
  BY <1>1 DEF Erase, WithoutAttempts
<1>4. ~\E th \in Theaters : StaffDelete(th)
  BY <1>1 DEF StaffDelete, WithoutAttempts
<1>5. \E v \in Resolvers : WriteTerminal(v)
  BY <1>1, <1>2, <1>3, <1>4, StepKinds, ClientFrame, MemberFrame, StaffFrame, WorkerFrame,
     ResolverFrame, TimeFrame, StutterFrame
<1>6. PICK v \in Resolvers : WriteTerminal(v)
  BY <1>5
<1> DEFINE q == resolver[v].report
<1>7. /\ resolver[v].pc = "decided" /\ sub[q].status = "pending"
      /\ sub' = [sub EXCEPT ![q].status = IF resolver[v].ok THEN "succeeded" ELSE "failed"]
      /\ UNCHANGED catalog
  BY <1>6 DEF WriteTerminal, StillPending, catalogVars
<1>8. q = r
  BY <1>1, <1>7 DEF TypeOK
<1>9. sub[r] \in [status : SubStatus \ {"none"}, member : Members, theater : Theaters]
  BY <1>7, <1>8 DEF TypeOK, NoAttempt
<1>10. /\ sub'[r].status = IF resolver[v].ok THEN "succeeded" ELSE "failed"
       /\ sub'[r].theater = sub[r].theater
  BY <1>7, <1>8, <1>9 DEF TypeOK
<1> QED BY <1>7, <1>8, <1>10

\* A Selection shrinks, or takes one active Theater while below the quota.
LEMMA SelectionChange ==
  ASSUME IInv, [Next]_vars, NEW m \in Members
  PROVE  \/ selection'[m] \subseteq selection[m]
         \/ \E th \in Theaters :
              /\ selection'[m] = selection[m] \cup {th}
              /\ Cardinality(selection[m]) < SelectionQuota
              /\ catalog[th] = "active" /\ member[m] # "erased"
              /\ UNCHANGED <<catalog, member>>
<1> USE DEF catalogVars, jobVars, subVars, procVars
<1>1. TypeOK /\ RunsJustified /\ AttemptsRefer
  BY DEF IInv
<1>2. Cardinality(selection[m]) \in Nat
  BY <1>1, ConstantsAssumption, FS_Subset, FS_CardinalityType DEF TypeOK
<1>3. ASSUME NEW n \in Members, NEW th \in Theaters, selection' = SelectionAfterAdd(n, th),
             catalog[th] = "active", member[n] # "erased", UNCHANGED <<catalog, member>>
      PROVE  \/ selection'[m] \subseteq selection[m]
             \/ \E t \in Theaters :
                  /\ selection'[m] = selection[m] \cup {t}
                  /\ Cardinality(selection[m]) < SelectionQuota
                  /\ catalog[t] = "active" /\ member[m] # "erased"
                  /\ UNCHANGED <<catalog, member>>
  <2>1. CASE m = n /\ ~(Cardinality(selection[m]) >= SelectionQuota)
    <3>1. Cardinality(selection[m]) < SelectionQuota
      BY <1>2, <2>1, ConstantsAssumption
    <3>2. selection'[m] \in {selection[m], selection[m] \cup {th}}
      BY <1>1, <1>3, <2>1 DEF SelectionAfterAdd, TypeOK
    <3> QED BY <1>3, <2>1, <3>1, <3>2
  <2>2. CASE m # n \/ Cardinality(selection[m]) >= SelectionQuota
    <3>1. selection'[m] = selection[m]
      BY <1>1, <1>3, <2>2 DEF SelectionAfterAdd, TypeOK
    <3> QED BY <3>1
  <2> QED BY <2>1, <2>2
<1>4. ASSUME NEW c \in Clients, AddToSelection(c)
      PROVE  \/ UNCHANGED selection
             \/ \E n \in Members, th \in Theaters :
                  /\ selection' = SelectionAfterAdd(n, th)
                  /\ catalog[th] = "active" /\ member[n] # "erased"
                  /\ UNCHANGED <<catalog, member>>
  <2>1. client[c].member \in Members /\ client[c].theater \in Theaters
    BY <1>1, <1>4 DEF AddToSelection, TypeOK, ClientType, IdleClient
  <2> QED BY <1>4, <2>1 DEF AddToSelection, MayChoose
<1>5. ASSUME NEW v \in Resolvers, WriteTerminal(v)
      PROVE  \/ UNCHANGED selection
             \/ \E n \in Members, th \in Theaters :
                  /\ selection' = SelectionAfterAdd(n, th)
                  /\ catalog[th] = "active" /\ member[n] # "erased"
                  /\ UNCHANGED <<catalog, member>>
  <2> DEFINE r == resolver[v].report
  <2>1. r \in Reports /\ resolver[v].pc = "decided" /\ sub[r].status = "pending"
    BY <1>1, <1>5 DEF WriteTerminal, StillPending, TypeOK, ResolverType, IdleResolver
  <2>2. sub[r].member \in Members /\ sub[r].theater \in Theaters
    BY <1>1, <2>1 DEF TypeOK, NoAttempt
  <2>3. member[sub[r].member] # "erased"
    BY <1>1, <2>1 DEF AttemptsRefer
  <2>4. resolver[v].ok => catalog[sub[r].theater] = "active"
    BY <1>1, <2>1 DEF RunsJustified
  <2> QED BY <1>5, <2>2, <2>3, <2>4 DEF WriteTerminal
<1>6. ASSUME NEW n \in Members, MemberStep(n) PROVE selection'[m] \subseteq selection[m]
  BY <1>1, <1>6 DEF MemberStep, VerifyEmail, Suspend, Reinstate, Erase, RemoveFromSelection,
                    TypeOK
<1>7. ASSUME NEW th \in Theaters, StaffDelete(th) PROVE selection'[m] \subseteq selection[m]
  BY <1>7 DEF StaffDelete
<1>8. ASSUME UNCHANGED selection PROVE selection'[m] \subseteq selection[m]
  BY <1>8
<1> QED BY <1>3, <1>4, <1>5, <1>6, <1>7, <1>8, StepKinds, ClientFrame, StaffFrame, WorkerFrame,
           ResolverFrame, TimeFrame, StutterFrame

-----------------------------------------------------------------------------
(***************************************************************************)
(* Each conjunct of the inductive invariant is preserved.                  *)
(***************************************************************************)

\* A Member's recent attempts are finitely many.
LEMMA RecentFinite ==
  ASSUME TypeOK, NEW m
  PROVE  IsFiniteSet(Recent(m)) /\ Cardinality(Recent(m)) \in Nat
<1>1. IsFiniteSet(Reports)
  BY ConstantsAssumption, FS_Interval DEF Reports
<1>2. Recent(m) \subseteq Reports
  BY DEF Recent, TypeOK
<1> QED BY <1>1, <1>2, FS_Subset, FS_CardinalityType

\* A step keeps the row locks of the submit transactions exclusive.
LEMMA LocksNext == IInv /\ [Next]_vars => LocksExclusive'
<1> SUFFICES ASSUME IInv, [Next]_vars PROVE LocksExclusive'
  OBVIOUS
<1>1. TypeOK /\ LocksExclusive
  BY DEF IInv
<1> SUFFICES ASSUME NEW c \in Clients, NEW d \in Clients, c # d, HoldsMember(c)', HoldsMember(d)'
             PROVE  /\ client'[c].member # client'[d].member
                    /\ HoldsTheater(c)' /\ HoldsTheater(d)' =>
                         client'[c].theater # client'[d].theater
  BY DEF LocksExclusive, HoldsMember, HoldsTheater
<1>2. CASE client'[c] = client[c] /\ client'[d] = client[d]
  BY <1>1, <1>2 DEF LocksExclusive, HoldsMember, HoldsTheater
<1>3. ASSUME NEW e \in Clients, NEW g \in Clients, e # g, HoldsMember(e)', HoldsMember(g)',
             client'[e] # client[e]
      PROVE  /\ client'[e].member # client'[g].member
             /\ HoldsTheater(e)' /\ HoldsTheater(g)' => client'[e].theater # client'[g].theater
  <2>1. client'[g] = client[g] /\ HoldsMember(g)
    BY <1>1, <1>3, ClientChange DEF HoldsMember
  <2>2. CASE client'[e].pc = "locked" /\ client'[e].member = client[e].member
             /\ ~MemberLocked(client[e].member)
    BY <2>1, <2>2 DEF MemberLocked, HoldsMember, HoldsTheater
  <2>3. CASE /\ client[e].pc = "locked" /\ client'[e].pc = "insert"
             /\ client'[e].member = client[e].member /\ client'[e].theater = client[e].theater
             /\ ~TheaterLocked(client[e].theater)
    BY <1>1, <1>3, <2>1, <2>3 DEF LocksExclusive, HoldsMember, HoldsTheater, TheaterLocked
  <2> QED BY <1>1, <1>3, <2>2, <2>3, ClientChange
<1> QED BY <1>2, <1>3

\* A commit by another handler inserts another Member's attempt.
LEMMA OtherInsert ==
  ASSUME TypeOK, LocksExclusive, NEW c \in Clients, HoldsMember(c), client'[c] = client[c],
         NEW d \in Clients, NEW r \in Reports, InsertAttempt(d, r)
  PROVE  d # c /\ client[d].member # client[c].member
<1>1. client[d].pc = "insert" /\ client' = [client EXCEPT ![d] = IdleClient]
  BY InsertChange
<1>2. client'[d].pc = "idle"
  BY <1>1 DEF TypeOK, IdleClient
<1> QED BY <1>1, <1>2 DEF LocksExclusive, HoldsMember

\* Between the throttle test and the insert nobody adds to the Member's count.
LEMMA ThrottleKept ==
  ASSUME IInv, [Next]_vars, NEW c \in Clients, client[c].pc = "insert",
         client'[c] = client[c], NEW m, m = client[c].member
  PROVE  BelowThrottle(m)'
<1>1. TypeOK /\ LocksExclusive /\ DecisionsHold /\ TypeOK'
  BY TypeNext DEF IInv
<1>2. BelowThrottle(m)
  BY <1>1 DEF DecisionsHold
<1>3. ASSUME NEW d \in Clients, NEW r \in Reports, InsertAttempt(d, r)
      PROVE  Recent(m)' \subseteq Recent(m)
  <2>1. client[d].member # m
    BY <1>1, <1>3, OtherInsert DEF HoldsMember
  <2>2. /\ sub' = [sub EXCEPT ![r] = [status |-> "pending", member |-> client[d].member,
                                      theater |-> client[d].theater]]
        /\ window' = window \cup {r}
    BY <1>1, <1>3, InsertChange
  <2>3. sub'[r].member # m /\ \A q \in Reports \ {r} : sub'[q] = sub[q]
    BY <1>1, <2>1, <2>2 DEF TypeOK
  <2> QED BY <1>1, <2>2, <2>3 DEF Recent, TypeOK
<1>4. ASSUME NoNewAttempt PROVE Recent(m)' \subseteq Recent(m)
  <2> SUFFICES ASSUME NEW r \in Reports, r \in Recent(m)' PROVE r \in Recent(m)
    BY <1>1 DEF Recent, TypeOK
  <2>1. r \in window /\ sub'[r].status # "none" /\ sub'[r].member = m
    BY <1>4 DEF Recent, NoNewAttempt
  <2>2. sub'[r] # NoAttempt
    BY <2>1 DEF NoAttempt
  <2> QED BY <1>4, <2>1, <2>2 DEF Recent, NoNewAttempt, KeepsAttempt
<1>5. Recent(m)' \subseteq Recent(m)
  BY <1>1, <1>3, <1>4, AttemptChange
<1>6. /\ Cardinality(Recent(m)') <= Cardinality(Recent(m))
      /\ Cardinality(Recent(m)') \in Nat /\ Cardinality(Recent(m)) \in Nat
  BY <1>1, <1>5, RecentFinite, FS_Subset, FS_CardinalityType
<1> QED BY <1>2, <1>6, ConstantsAssumption DEF BelowThrottle

\* Between the retry rule and the insert nobody else retries the Theater, and the
\* row stays provisioning.
LEMMA RetryKept ==
  ASSUME IInv, [Next]_vars, NEW c \in Clients, HoldsTheater(c),
         client'[c] = client[c], NEW th, th = client[c].theater
  PROVE  catalog'[th] = "provisioning" /\ Pending(th)' = {}
<1>1. TypeOK /\ LocksExclusive /\ DecisionsHold /\ UrlsKnown /\ JobsRefer
  BY DEF IInv
<1>2. th \in Theaters
  BY <1>1 DEF TypeOK, ClientType, IdleClient, HoldsTheater
<1>3. TheaterLocked(th) /\ catalog[th] = "provisioning" /\ Pending(th) = {}
  BY <1>1 DEF DecisionsHold, HoldsTheater, TheaterLocked
<1>4. catalog'[th] = "provisioning"
  <2>1. ~StaffDelete(th)
    BY <1>3 DEF StaffDelete
  <2> QED BY <1>1, <1>2, <1>3, <2>1, CatalogChange
<1>5. ASSUME NEW d \in Clients, NEW r \in Reports, InsertAttempt(d, r)
      PROVE  Pending(th)' = {}
  <2>1. /\ client[d].pc = "insert" /\ client[d].retry \in BOOLEAN
        /\ ~client[d].retry => catalog[client[d].theater] = "absent"
        /\ sub' = [sub EXCEPT ![r] = [status |-> "pending", member |-> client[d].member,
                                      theater |-> client[d].theater]]
    BY <1>1, <1>5, InsertChange
  <2>2. d # c
    BY <1>1, <1>5, OtherInsert DEF HoldsMember, HoldsTheater
  <2>3. client[d].theater # th
    BY <1>1, <1>3, <2>1, <2>2 DEF LocksExclusive, HoldsTheater
  <2>4. sub'[r].theater # th /\ \A q \in Reports \ {r} : sub'[q] = sub[q]
    BY <1>1, <2>1, <2>3 DEF TypeOK
  <2> QED BY <1>3, <2>4 DEF Pending, Attempts
<1>6. ASSUME NoNewAttempt PROVE Pending(th)' = {}
  <2> SUFFICES ASSUME NEW r \in Reports, r \in Pending(th)' PROVE FALSE
    BY DEF Pending, Attempts
  <2>1. sub'[r].status = "pending" /\ sub'[r].theater = th
    BY DEF Pending, Attempts
  <2>2. sub'[r] # NoAttempt
    BY <2>1 DEF NoAttempt
  <2>3. sub'[r] = sub[r]
    BY <1>6, <2>1, <2>2 DEF NoNewAttempt, KeepsAttempt
  <2> QED BY <1>3, <2>1, <2>3 DEF Pending, Attempts
<1> QED BY <1>1, <1>4, <1>5, <1>6, AttemptChange

\* What a submit transaction decided under its locks still holds when it writes.
LEMMA DecisionsNext == IInv /\ [Next]_vars => DecisionsHold'
<1> SUFFICES ASSUME IInv, [Next]_vars, NEW c \in Clients
             PROVE  /\ (HoldsMember(c) => member[client[c].member] = "active")'
                    /\ (client[c].pc = "insert" => BelowThrottle(client[c].member))'
                    /\ (HoldsTheater(c) => /\ catalog[client[c].theater] = "provisioning"
                                           /\ Pending(client[c].theater) = {})'
  BY DEF DecisionsHold
<1> SUFFICES ASSUME HoldsMember(c)'
             PROVE  /\ (member[client[c].member] = "active")'
                    /\ (client[c].pc = "insert" => BelowThrottle(client[c].member))'
                    /\ (HoldsTheater(c) => /\ catalog[client[c].theater] = "provisioning"
                                           /\ Pending(client[c].theater) = {})'
  BY DEF HoldsMember, HoldsTheater
<1>1. /\ TypeOK /\ LocksExclusive /\ DecisionsHold /\ UrlsKnown /\ JobsRefer
  BY DEF IInv
<1>2. CASE client'[c] = client[c]
  <2>1. HoldsMember(c) /\ client[c].pc \in {"locked", "insert"}
    BY <1>2 DEF HoldsMember
  <2>2. PICK m \in Members, th \in Theaters : m = client[c].member /\ th = client[c].theater
    BY <1>1, <2>1 DEF TypeOK, ClientType, IdleClient
  <2>3. MemberLocked(m) /\ member[m] = "active"
    BY <1>1, <2>1, <2>2 DEF MemberLocked, DecisionsHold, HoldsMember
  <2>4. member'[m] = "active"
    BY <1>1, <2>3, MemberChange
  <2>5. client[c].pc = "insert" => BelowThrottle(m)'
    BY <1>2, <2>2, ThrottleKept
  <2>6. HoldsTheater(c) => catalog'[th] = "provisioning" /\ Pending(th)' = {}
    BY <1>2, <2>2, RetryKept
  <2>7. (client[c].pc = "insert" => BelowThrottle(client[c].member))'
    BY <1>2, <2>2, <2>5 DEF BelowThrottle, Recent
  <2>8. (HoldsTheater(c) => /\ catalog[client[c].theater] = "provisioning"
                            /\ Pending(client[c].theater) = {})'
    BY <1>2, <2>2, <2>6 DEF HoldsTheater, Pending, Attempts
  <2> QED BY <1>2, <2>2, <2>4, <2>7, <2>8
<1>3. CASE /\ client'[c].pc = "locked" /\ client'[c].member = client[c].member
           /\ member[client[c].member] = "active" /\ UNCHANGED member
  BY <1>3 DEF HoldsTheater
<1>4. CASE /\ client[c].pc = "locked" /\ client'[c].pc = "insert"
           /\ client'[c].member = client[c].member /\ client'[c].theater = client[c].theater
           /\ BelowThrottle(client[c].member)
           /\ client'[c].retry => /\ Retryable(client[c].theater)
                                  /\ catalog[client[c].theater] = "provisioning"
           /\ UNCHANGED <<member, catalog, sub, window>>
  <2>1. member[client[c].member] = "active"
    BY <1>1, <1>4 DEF DecisionsHold, HoldsMember
  <2>2. (client[c].pc = "insert" => BelowThrottle(client[c].member))'
    BY <1>4 DEF BelowThrottle, Recent
  <2>3. (HoldsTheater(c) => /\ catalog[client[c].theater] = "provisioning"
                            /\ Pending(client[c].theater) = {})'
    BY <1>4 DEF HoldsTheater, Retryable, Pending, Attempts
  <2> QED BY <1>4, <2>1, <2>2, <2>3
<1> QED BY <1>1, <1>2, <1>3, <1>4, ClientChange

\* A commit of submit finds no other attempt of its Theater pending.
LEMMA InsertAlone ==
  ASSUME IInv, NEW c \in Clients, NEW r \in Reports, InsertAttempt(c, r)
  PROVE  Pending(client[c].theater) = {}
<1>1. TypeOK /\ DecisionsHold /\ AttemptsRefer
  BY DEF IInv
<1>2. CASE client[c].retry
  BY <1>1, <1>2, InsertChange DEF DecisionsHold, HoldsTheater
<1>3. CASE ~client[c].retry
  <2>1. catalog[client[c].theater] = "absent"
    BY <1>1, <1>3, InsertChange
  <2> QED BY <1>1, <2>1 DEF AttemptsRefer, Pending, Attempts
<1> QED BY <1>2, <1>3

\* A step leaves at most one pending attempt per Theater.
LEMMA OnePendingNext == IInv /\ [Next]_vars => OnePendingPerTheater'
<1> SUFFICES ASSUME IInv, [Next]_vars PROVE OnePendingPerTheater'
  OBVIOUS
<1>1. TypeOK /\ OnePendingPerTheater
  BY DEF IInv
<1>2. ASSUME NEW c \in Clients, NEW r \in Reports, InsertAttempt(c, r)
      PROVE  OnePendingPerTheater'
  <2>1. PICK th \in Theaters : th = client[c].theater
    BY <1>1, <1>2, InsertChange
  <2>2. sub'[r].theater = th /\ \A q \in Reports \ {r} : sub'[q] = sub[q]
    BY <1>1, <1>2, <2>1, InsertChange DEF TypeOK
  <2>3. Pending(th) = {}
    BY <1>2, <2>1, InsertAlone
  <2> QED BY <1>1, <2>2, <2>3 DEF OnePendingPerTheater, Pending, Attempts
<1>3. ASSUME NoNewAttempt PROVE OnePendingPerTheater'
  <2>1. \A r \in Reports : sub'[r].status = "pending" => sub'[r] = sub[r]
    BY <1>3 DEF NoNewAttempt, KeepsAttempt, NoAttempt
  <2> QED BY <1>1, <2>1 DEF OnePendingPerTheater, Pending, Attempts
<1> QED BY <1>1, <1>2, <1>3, AttemptChange

\* A step leaves every Member within the throttle.
LEMMA ThrottleNext == IInv /\ [Next]_vars => ThrottleHolds'
<1> SUFFICES ASSUME IInv, [Next]_vars, NEW m \in Members
             PROVE  (Cardinality(Recent(m)) <= ThrottleMax)'
  BY DEF ThrottleHolds
<1>1. TypeOK /\ ThrottleHolds /\ DecisionsHold /\ TypeOK'
  BY TypeNext DEF IInv
<1>2. /\ IsFiniteSet(Recent(m)) /\ Cardinality(Recent(m)) \in Nat
      /\ Cardinality(Recent(m)) <= ThrottleMax
  BY <1>1, RecentFinite DEF ThrottleHolds
<1>3. ASSUME Recent(m)' \subseteq Recent(m) PROVE Cardinality(Recent(m)') <= ThrottleMax
  BY <1>2, <1>3, FS_Subset, FS_CardinalityType, ConstantsAssumption
<1>4. ASSUME NEW c \in Clients, NEW r \in Reports, InsertAttempt(c, r)
      PROVE  Cardinality(Recent(m)') <= ThrottleMax
  <2>1. /\ sub'[r].member = client[c].member
        /\ \A q \in Reports \ {r} : sub'[q] = sub[q]
        /\ window' = window \cup {r} /\ client[c].pc = "insert"
    BY <1>1, <1>4, InsertChange DEF TypeOK
  <2>2. CASE client[c].member # m
    <3>1. Recent(m)' \subseteq Recent(m)
      BY <1>1, <2>1, <2>2 DEF Recent, TypeOK
    <3> QED BY <1>3, <3>1
  <2>3. CASE client[c].member = m
    <3>1. Cardinality(Recent(m)) < ThrottleMax
      BY <1>1, <2>1, <2>3 DEF DecisionsHold, BelowThrottle
    <3>2. Recent(m)' \subseteq Recent(m) \cup {r}
      BY <1>1, <2>1 DEF Recent, TypeOK
    <3>3. IsFiniteSet(Recent(m) \cup {r}) /\ Cardinality(Recent(m) \cup {r}) <= ThrottleMax
      <4>1. /\ IsFiniteSet(Recent(m) \cup {r})
            /\ \/ Cardinality(Recent(m) \cup {r}) = Cardinality(Recent(m))
               \/ Cardinality(Recent(m) \cup {r}) = Cardinality(Recent(m)) + 1
        BY <1>2, FS_AddElement
      <4> QED BY <1>2, <3>1, <4>1, ConstantsAssumption
    <3>4. /\ Cardinality(Recent(m)') <= Cardinality(Recent(m) \cup {r})
          /\ Cardinality(Recent(m)') \in Nat /\ Cardinality(Recent(m) \cup {r}) \in Nat
      BY <3>2, <3>3, FS_Subset, FS_CardinalityType
    <3> QED BY <3>3, <3>4, ConstantsAssumption
  <2> QED BY <2>2, <2>3
<1>5. ASSUME NoNewAttempt PROVE Recent(m)' \subseteq Recent(m)
  <2> SUFFICES ASSUME NEW r \in Reports, r \in Recent(m)' PROVE r \in Recent(m)
    BY <1>1 DEF Recent, TypeOK
  <2>1. r \in window /\ sub'[r].status # "none" /\ sub'[r].member = m
    BY <1>5 DEF Recent, NoNewAttempt
  <2>2. sub'[r] # NoAttempt
    BY <2>1 DEF NoAttempt
  <2> QED BY <1>5, <2>1, <2>2 DEF Recent, NoNewAttempt, KeepsAttempt
<1> QED BY <1>1, <1>3, <1>4, <1>5, AttemptChange

\* A step keeps every attempt on an existing report and Theater and a live Member.
LEMMA AttemptsReferNext == IInv /\ [Next]_vars => AttemptsRefer'
<1> SUFFICES ASSUME IInv, [Next]_vars, NEW r \in Reports, sub'[r].status # "none"
             PROVE  /\ report'[r].status # "none"
                    /\ catalog'[sub'[r].theater] # "absent"
                    /\ member'[sub'[r].member] # "erased"
  BY DEF AttemptsRefer
<1>1. TypeOK /\ AttemptsRefer /\ UrlsKnown /\ JobsRefer /\ DecisionsHold
  BY DEF IInv
<1>2. ASSUME sub[r].status # "none", NEW m \in Members, NEW th \in Theaters,
             sub[r].member = m, sub[r].theater = th, sub'[r].member = m, sub'[r].theater = th
      PROVE  /\ report'[r].status # "none"
             /\ catalog'[sub'[r].theater] # "absent"
             /\ member'[sub'[r].member] # "erased"
  <2>1. report[r].status # "none" /\ catalog[th] # "absent" /\ member[m] # "erased"
    BY <1>1, <1>2 DEF AttemptsRefer
  <2>2. report'[r].status # "none"
    BY <1>1, <2>1, ReportChange
  <2>3. ~StaffDelete(th) /\ ~Erase(m)
    BY <1>2 DEF StaffDelete, Erase, WithoutAttempts, Attempts, NoAttempt
  <2>4. catalog'[th] # "absent"
    BY <1>1, <2>1, <2>3, CatalogChange
  <2>5. member'[m] # "erased"
    BY <1>1, <2>1, <2>3, MemberChange
  <2> QED BY <1>2, <2>2, <2>4, <2>5
<1>3. ASSUME KeepsAttempt(r)
      PROVE  /\ sub[r].status # "none"
             /\ \E m \in Members, th \in Theaters :
                  sub[r].member = m /\ sub[r].theater = th /\ sub'[r].member = m /\ sub'[r].theater = th
  <2>1. sub[r].status # "none" /\ sub'[r].member = sub[r].member /\ sub'[r].theater = sub[r].theater
    BY <1>3 DEF KeepsAttempt, NoAttempt
  <2>2. sub[r].member \in Members /\ sub[r].theater \in Theaters
    BY <1>1, <2>1 DEF TypeOK, NoAttempt
  <2> QED BY <2>1, <2>2
<1>4. ASSUME NEW c \in Clients, NEW q \in Reports, InsertAttempt(c, q), q = r
      PROVE  /\ report'[r].status # "none"
             /\ catalog'[sub'[r].theater] # "absent"
             /\ member'[sub'[r].member] # "erased"
  <2> DEFINE m  == client[c].member
             th == client[c].theater
  <2>1. /\ m \in Members /\ th \in Theaters /\ client[c].pc = "insert"
        /\ report' = [report EXCEPT ![r] = [status |-> "running", claim |-> "null"]]
        /\ sub'[r].member = m /\ sub'[r].theater = th
        /\ UNCHANGED member
    BY <1>1, <1>4, InsertChange DEF TypeOK
  <2>2. member[m] = "active" /\ (client[c].retry => catalog[th] = "provisioning")
    BY <1>1, <2>1 DEF DecisionsHold, HoldsMember, HoldsTheater
  <2>3. catalog'[th] = "provisioning"
    BY <1>1, <1>4, <2>1, <2>2, InsertChange DEF TypeOK
  <2>4. report'[r].status = "running"
    BY <1>1, <2>1 DEF TypeOK
  <2> QED BY <2>1, <2>2, <2>3, <2>4
<1>5. ASSUME NEW c \in Clients, NEW q \in Reports, InsertAttempt(c, q), q # r
      PROVE  KeepsAttempt(r)
  BY <1>1, <1>5, InsertChange DEF KeepsAttempt, TypeOK
<1> QED BY <1>1, <1>2, <1>3, <1>4, <1>5, AttemptChange DEF NoNewAttempt

\* A report and its job are created together, with a target of the catalog's ids.
LEMMA EnqueueKnown ==
  ASSUME TypeOK, UrlsKnown, NEW r \in Reports, NEW k, NEW t \in Theaters, EnqueueJob(r, k, t)
  PROVE  \A q \in Reports : report'[q].status # "none" => job'[q].target \in Theaters
BY DEF EnqueueJob, TypeOK, UrlsKnown

\* A step keeps a URL on every Theater row and in every busy worker.
LEMMA UrlsKnownNext == IInv /\ [Next]_vars => UrlsKnown'
<1> SUFFICES ASSUME IInv, [Next]_vars PROVE UrlsKnown'
  OBVIOUS
<1> USE DEF catalogVars, jobVars
<1>1. TypeOK /\ UrlsKnown /\ JobsRefer /\ DecisionsHold
  BY DEF IInv
<1>2. ASSUME UNCHANGED <<catalog, storedUrl, job, worker>>,
             \A r \in Reports : report'[r].status # "none" => report[r].status # "none"
      PROVE  UrlsKnown'
  BY <1>1, <1>2 DEF UrlsKnown
<1>3. ASSUME NEW c \in Clients, NEW r \in Reports, InsertAttempt(c, r) PROVE UrlsKnown'
  <2> DEFINE th == client[c].theater
  <2>1. th \in Theaters /\ UNCHANGED worker /\ client[c].pc = "insert"
    BY <1>1, <1>3, InsertChange
  <2>2. client[c].retry => storedUrl[th] \in Theaters
    BY <1>1, <2>1 DEF DecisionsHold, HoldsTheater, UrlsKnown
  <2>3. \E t \in Theaters : EnqueueJob(r, "add_theater", t)
    BY <1>3, <2>1, <2>2 DEF InsertAttempt
  <2>4. \A q \in Reports : report'[q].status # "none" => job'[q].target \in Theaters
    BY <1>1, <2>3, EnqueueKnown
  <2>5. \A t \in Theaters : catalog'[t] # "absent" => storedUrl'[t] \in Theaters
    <3>1. CASE UNCHANGED <<catalog, storedUrl>>
      BY <1>1, <3>1 DEF UrlsKnown
    <3>2. CASE /\ catalog' = [catalog EXCEPT ![th] = "provisioning"]
               /\ storedUrl' = [storedUrl EXCEPT ![th] = th]
      BY <1>1, <2>1, <3>2 DEF UrlsKnown, TypeOK
    <3> QED BY <1>1, <1>3, <3>1, <3>2, InsertChange
  <2> QED BY <1>1, <2>1, <2>4, <2>5 DEF UrlsKnown
<1>4. ASSUME NEW th \in Theaters, StaffStep(th) PROVE UrlsKnown'
  <2>1. ASSUME NEW r \in Reports, NEW url \in Theaters, NEW named \in BOOLEAN,
               StaffAdd(r, th, url, named)
        PROVE  UrlsKnown'
    <3>1. \A q \in Reports : report'[q].status # "none" => job'[q].target \in Theaters
      BY <1>1, <2>1, EnqueueKnown DEF StaffAdd
    <3>2. UNCHANGED worker
      BY <2>1 DEF StaffAdd, procVars
    <3> QED BY <1>1, <2>1, <3>1, <3>2 DEF StaffAdd, InsertTheater, UrlsKnown, TypeOK
  <2>2. ASSUME NEW url \in Theaters, StaffEdit(th, url) PROVE UrlsKnown'
    BY <1>1, <2>2 DEF StaffEdit, UrlsKnown, TypeOK, procVars
  <2>3. CASE StaffDelete(th)
    BY <1>1, <2>3 DEF StaffDelete, UrlsKnown, TypeOK, procVars
  <2>4. ASSUME NEW r \in Reports, StaffScrape(r, th) PROVE UrlsKnown'
    <3>1. \A q \in Reports : report'[q].status # "none" => job'[q].target \in Theaters
      BY <1>1, <2>4, EnqueueKnown DEF StaffScrape
    <3> QED BY <1>1, <2>4, <3>1 DEF StaffScrape, UrlsKnown, procVars
  <2> QED BY <1>4, <2>1, <2>2, <2>3, <2>4 DEF StaffStep
<1>5. ASSUME NEW w \in Workers, WorkerStep(w) \/ WorkerCrash(w) PROVE UrlsKnown'
  <2> DEFINE t == Target(w)
             r == worker[w].report
  <2>1. UNCHANGED job
    BY <1>5, WorkerFrame
  <2>2. \A q \in Reports : report'[q].status # "none" => job'[q].target \in Theaters
    <3>1. \A q \in Reports : report'[q].status # "none" => report[q].status # "none"
      <4> SUFFICES ASSUME NEW q \in Reports, report[q].status = "none", report'[q].status # "none"
                   PROVE  FALSE
        OBVIOUS
      <4>1. worker[w].pc # "idle" => r # q
        BY <1>1 DEF JobsRefer
      <4> QED BY <1>1, <1>5, <4>1 DEF WorkerStep, WorkerCrash, Claim, MarkRunning, Prepare,
                LoadMetadata, Activate, ResetTheater, ScrapeThrows, ReportSuccess,
                SuccessNotWritten, ReportFailure, Finish, WorkerAt, TypeOK
    <3> QED BY <1>1, <2>1, <3>1 DEF UrlsKnown
  <2>3. worker[w].pc # "idle" => r \in Reports /\ t \in Theaters
    BY <1>1 DEF TypeOK, WorkerType, IdleWorker, UrlsKnown, JobsRefer, Target
  <2>4. \A th \in Theaters : catalog'[th] # "absent" => storedUrl'[th] \in Theaters
    <3>1. CASE LoadMetadata(w)
      <4>1. t \in Theaters /\ worker[w].url \in Theaters
        BY <1>1, <2>3, <3>1 DEF LoadMetadata, WorkerAt, UrlsKnown
      <4> QED BY <1>1, <3>1, <4>1 DEF LoadMetadata, UpsertedStatus, UrlsKnown, TypeOK
    <3>2. CASE Activate(w)
      BY <1>1, <3>2 DEF Activate, UrlsKnown, TypeOK
    <3>3. CASE ~LoadMetadata(w) /\ ~Activate(w)
      BY <1>1, <1>5, <3>3 DEF WorkerStep, WorkerCrash, Claim, MarkRunning, Prepare,
         ResetTheater, ScrapeThrows, ReportSuccess, SuccessNotWritten, ReportFailure, UrlsKnown
    <3> QED BY <3>1, <3>2, <3>3
  <2>5. \A x \in Workers : worker'[x].pc = "load" => worker'[x].url \in Theaters
    <3>1. \A x \in Workers \ {w} : worker'[x] = worker[x]
      BY <1>1, <1>5 DEF WorkerStep, WorkerCrash, Claim, MarkRunning, Prepare,
         LoadMetadata, Activate, ResetTheater, ScrapeThrows, ReportSuccess,
         SuccessNotWritten, ReportFailure, Finish, MoveWorker, TypeOK
    <3>2. worker[w].pc # "idle" => worker[w] \in
            [pc : {"claimed", "prepare", "load", "scrape", "succeeded", "failed"},
             report : Reports, url : Theaters \cup {None}]
      BY <1>1 DEF TypeOK, WorkerType, IdleWorker
    <3>3. worker'[w].pc = "load" => worker'[w].url \in Theaters
      <4>1. CASE MarkRunning(w)
        <5>1. /\ worker'[w] = IF IsScrape(w) THEN [worker[w] EXCEPT !.pc = "prepare"]
                                ELSE [worker[w] EXCEPT !.pc = "load", !.url = t]
              /\ worker[w].pc # "idle"
          BY <1>1, <4>1 DEF MarkRunning, WorkerAt, TypeOK
        <5> QED BY <2>3, <3>2, <5>1
      <4>2. CASE Prepare(w)
        <5>1. /\ worker'[w] = [worker[w] EXCEPT !.pc = "load", !.url = storedUrl[t]]
              /\ worker[w].pc # "idle" /\ catalog[t] # "absent"
          BY <1>1, <4>2 DEF Prepare, WorkerAt, TypeOK
        <5>2. storedUrl[t] \in Theaters
          BY <1>1, <2>3, <5>1 DEF UrlsKnown
        <5> QED BY <3>2, <5>1, <5>2
      <4>3. CASE ~MarkRunning(w) /\ ~Prepare(w)
        <5>1. CASE Claim(w)
          BY <1>1, <5>1 DEF Claim, TypeOK
        <5>2. CASE LoadMetadata(w) \/ ScrapeThrows(w)
          <6>1. /\ worker[w].pc # "idle"
                /\ \E p \in {"scrape", "failed"} :
                     worker'[w] = [worker[w] EXCEPT !.pc = p, !.url = None]
            BY <1>1, <5>2 DEF LoadMetadata, ScrapeThrows, WorkerAt, TypeOK
          <6> QED BY <3>2, <6>1
        <5>3. CASE Activate(w) \/ ResetTheater(w) \/ SuccessNotWritten(w)
          <6>1. /\ worker[w].pc # "idle"
                /\ \E p \in {"succeeded", "failed"} : worker'[w] = [worker[w] EXCEPT !.pc = p]
            BY <1>1, <5>3 DEF Activate, ResetTheater, SuccessNotWritten, MoveWorker, WorkerAt,
                              TypeOK
          <6> QED BY <3>2, <6>1
        <5>4. CASE ReportSuccess(w) \/ ReportFailure(w) \/ WorkerCrash(w)
          <6>1. worker'[w] = IdleWorker
            BY <1>1, <5>4 DEF ReportSuccess, ReportFailure, WorkerCrash, Finish, TypeOK
          <6> QED BY <6>1 DEF IdleWorker
        <5> QED BY <1>5, <4>3, <5>1, <5>2, <5>3, <5>4 DEF WorkerStep
      <4> QED BY <4>1, <4>2, <4>3
    <3> QED BY <1>1, <3>1, <3>3 DEF UrlsKnown
  <2> QED BY <2>2, <2>4, <2>5 DEF UrlsKnown
<1>6. ASSUME UNCHANGED <<catalog, storedUrl, job, worker, report>> PROVE UrlsKnown'
  BY <1>2, <1>6
<1>7. ASSUME SweepExpire \/ \E r \in Reports : EventLost(r) \/ ClaimAges(r) \/ WindowSlides(r)
      PROVE  UrlsKnown'
  <2>1. \A r \in Reports : report'[r].status # "none" => report[r].status # "none"
    BY <1>1, <1>7 DEF SweepExpire, Stale, EventLost, ClaimAges, WindowSlides, TypeOK
  <2> QED BY <1>2, <1>7, <2>1, TimeFrame
<1> QED BY <1>3, <1>4, <1>5, <1>6, <1>7, StepKinds, ClientFrame, MemberFrame, ResolverFrame,
           StutterFrame

\* Only a busy worker's report is a report.
LEMMA WorkerReport ==
  ASSUME TypeOK, NEW w \in Workers
  PROVE  /\ worker[w].pc # "idle" => worker[w].report \in Reports
         /\ worker[w].pc = "idle" => worker[w].report = 0
         /\ 0 \notin Reports
BY ConstantsAssumption DEF TypeOK, WorkerType, IdleWorker, Reports

\* A step keeps every queued or held job a job that was queued.
LEMMA JobsReferNext == IInv /\ [Next]_vars => JobsRefer'
<1> SUFFICES ASSUME IInv, [Next]_vars PROVE JobsRefer'
  OBVIOUS
<1>1. TypeOK /\ JobsRefer /\ JobRunsOnce
  BY DEF IInv
<1>2. ASSUME NEW r \in queue'
      PROVE  report'[r] = [status |-> "running", claim |-> "null"]
  <2>1. CASE r \in queue
    <3>1. r \in Reports /\ report[r] = [status |-> "running", claim |-> "null"]
      BY <1>1, <2>1 DEF TypeOK, JobsRefer
    <3>2. ~\E w \in Workers : worker[w].pc # "idle" /\ worker[w].report = r
      BY <1>1, <2>1 DEF JobRunsOnce
    <3> QED BY <1>1, <3>1, <3>2, ReportChange
  <2>2. CASE r \notin queue
    BY <1>1, <2>2, QueueChange
  <2> QED BY <2>1, <2>2
<1>3. ASSUME NEW w \in Workers, worker'[w].pc # "idle"
      PROVE  report'[worker'[w].report].status # "none"
  <2>1. CASE worker[w].pc # "idle" /\ worker'[w].report = worker[w].report
    <3>1. worker[w].report \in Reports /\ report[worker[w].report].status # "none"
      BY <1>1, <2>1, WorkerReport DEF JobsRefer
    <3> QED BY <1>1, <2>1, <3>1, ReportChange
  <2>2. CASE worker'[w].report \in queue /\ UNCHANGED report
    BY <1>1, <2>2 DEF JobsRefer
  <2> QED BY <1>1, <1>3, <2>1, <2>2, WorkerChange DEF IdleWorker
<1>4. ASSUME NEW w \in Workers, worker'[w].pc = "claimed"
      PROVE  report'[worker'[w].report] = [status |-> "running", claim |-> "null"]
  <2>1. CASE worker'[w] = worker[w]
    <3> DEFINE r == worker[w].report
    <3>1. r \in Reports /\ report[r] = [status |-> "running", claim |-> "null"]
      BY <1>1, <1>4, <2>1, WorkerReport DEF JobsRefer
    <3>2. \A x \in Workers : worker[x].pc # "idle" /\ worker[x].report = r => x = w
      BY <1>1, <1>4, <2>1 DEF JobRunsOnce
    <3> QED BY <1>1, <1>4, <2>1, <3>1, <3>2, ReportChange
  <2>2. CASE worker'[w].report \in queue /\ UNCHANGED report
    BY <1>1, <2>2 DEF JobsRefer
  <2> QED BY <1>1, <1>4, <2>1, <2>2, WorkerChange DEF IdleWorker
<1> QED BY <1>2, <1>3, <1>4 DEF JobsRefer

\* A step leaves every job with at most one worker.
LEMMA JobRunsOnceNext == IInv /\ [Next]_vars => JobRunsOnce'
<1> SUFFICES ASSUME IInv, [Next]_vars, NEW w \in Workers, worker'[w].pc # "idle"
             PROVE  /\ worker'[w].report \notin queue'
                    /\ \A x \in Workers \ {w} : worker'[x].report # worker'[w].report
  BY DEF JobRunsOnce
<1>1. TypeOK /\ JobsRefer /\ JobRunsOnce
  BY DEF IInv
<1>2. CASE worker[w].pc # "idle" /\ worker'[w].report = worker[w].report
  <2> DEFINE r == worker[w].report
  <2>1. r \in Reports /\ report[r].status # "none" /\ r \notin queue
    BY <1>1, <1>2, WorkerReport DEF JobsRefer, JobRunsOnce
  <2>2. r \notin queue'
    BY <1>1, <2>1, QueueChange
  <2>3. ASSUME NEW x \in Workers \ {w} PROVE worker'[x].report # r
    <3>1. worker[x].report # r
      BY <1>1, <1>2, <2>3 DEF JobRunsOnce
    <3>2. 0 # r
      BY <1>1, <2>1, WorkerReport
    <3> QED BY <1>1, <2>1, <3>1, <3>2, WorkerChange DEF IdleWorker
  <2> QED BY <1>2, <2>2, <2>3
<1>3. CASE /\ worker'[w].report \in queue /\ queue' = queue \ {worker'[w].report}
           /\ \A x \in Workers \ {w} : worker'[x] = worker[x]
  <2>1. ASSUME NEW x \in Workers \ {w} PROVE worker[x].report # worker'[w].report
    <3>1. CASE worker[x].pc # "idle"
      BY <1>1, <1>3, <3>1 DEF JobRunsOnce
    <3>2. CASE worker[x].pc = "idle"
      BY <1>1, <1>3, <3>2, WorkerReport DEF TypeOK
    <3> QED BY <3>1, <3>2
  <2> QED BY <1>3, <2>1
<1> QED BY <1>1, <1>2, <1>3, WorkerChange DEF IdleWorker

\* Once its report exists, an attempt that is pending was pending before.
LEMMA PendingBefore ==
  ASSUME TypeOK, [Next]_vars, NEW r \in Reports, report[r].status # "none",
         sub'[r].status = "pending"
  PROVE  sub'[r] = sub[r]
<1>1. ASSUME NEW c \in Clients, NEW q \in Reports, InsertAttempt(c, q)
      PROVE  sub'[r] = sub[r]
  <2>1. report[q].status = "none"
    BY <1>1, InsertChange
  <2> QED BY <1>1, <2>1, InsertChange DEF TypeOK
<1>2. ASSUME NoNewAttempt PROVE sub'[r] = sub[r]
  BY <1>2 DEF NoNewAttempt, KeepsAttempt, NoAttempt
<1> QED BY <1>1, <1>2, AttemptChange

\* An active Theater that an attempt refers to after the step stays active.
LEMMA StaysActive ==
  ASSUME IInv, [Next]_vars, NEW r \in Reports, sub[r].status # "none", sub'[r] = sub[r],
         catalog[sub[r].theater] = "active"
  PROVE  catalog'[sub[r].theater] = "active"
<1>1. TypeOK /\ UrlsKnown /\ JobsRefer
  BY DEF IInv
<1>2. PICK th \in Theaters : th = sub[r].theater
  BY <1>1 DEF TypeOK, NoAttempt
<1>3. ~StaffDelete(th)
  BY <1>2 DEF StaffDelete, WithoutAttempts, Attempts, NoAttempt
<1> QED BY <1>1, <1>2, <1>3, CatalogChange

\* A resolution run still stands on a terminal report and, if it decided success,
\* on an active Theater.
LEMMA RunsJustifiedNext == IInv /\ [Next]_vars => RunsJustified'
<1> SUFFICES ASSUME IInv, [Next]_vars, NEW v \in Resolvers, resolver'[v].pc # "idle"
             PROVE  /\ report'[resolver'[v].report].status \in TerminalReport
                    /\ resolver'[v].pc = "decided" /\ resolver'[v].ok
                         /\ sub'[resolver'[v].report].status = "pending"
                         => catalog'[sub'[resolver'[v].report].theater] = "active"
  BY DEF RunsJustified
<1>1. TypeOK /\ JobsRefer /\ RunsJustified
  BY DEF IInv
<1>2. PICK r \in Reports : r = resolver'[v].report /\ report[r].status \in TerminalReport
  <2>1. resolver[v].pc # "idle" => resolver[v].report \in Reports
    BY <1>1 DEF TypeOK, ResolverType, IdleResolver
  <2>2. resolver[v].pc # "idle" => report[resolver[v].report].status \in TerminalReport
    BY <1>1 DEF RunsJustified
  <2> QED BY <1>1, <2>1, <2>2, ResolverChange
<1>3. report[r].status # "none"
  BY <1>2 DEF TerminalReport
<1>4. report'[r].status \in TerminalReport
  BY <1>1, <1>2, <1>3, ReportChange
<1>5. ASSUME resolver'[v].pc = "decided", resolver'[v].ok, sub'[r].status = "pending"
      PROVE  catalog'[sub'[r].theater] = "active"
  <2>1. sub'[r] = sub[r]
    BY <1>1, <1>3, <1>5, PendingBefore
  <2>2. CASE resolver'[v] = resolver[v]
    <3>1. catalog[sub[r].theater] = "active"
      BY <1>1, <1>2, <1>5, <2>1, <2>2 DEF RunsJustified
    <3> QED BY <1>5, <2>1, <3>1, StaysActive
  <2>3. CASE resolver'[v].report = resolver[v].report /\ TheaterReady(resolver[v].report)
             /\ UNCHANGED <<catalog, sub>>
    BY <1>2, <2>3 DEF TheaterReady
  <2> QED BY <1>1, <1>5, <2>2, <2>3, ResolverChange
<1> QED BY <1>2, <1>4, <1>5

\* A step keeps the Theater of a succeeded attempt active.
LEMMA SucceededNext == IInv /\ [Next]_vars => SucceededIsActive'
<1> SUFFICES ASSUME IInv, [Next]_vars, NEW r \in Reports, sub'[r].status = "succeeded"
             PROVE  catalog'[sub'[r].theater] = "active"
  BY DEF SucceededIsActive
<1>1. TypeOK /\ RunsJustified /\ SucceededIsActive
  BY DEF IInv
<1>2. CASE sub[r].status = "succeeded"
  <2>1. ASSUME NEW c \in Clients, NEW q \in Reports, InsertAttempt(c, q)
        PROVE  sub'[r] = sub[r]
    BY <1>1, <2>1, InsertChange DEF TypeOK
  <2>2. ASSUME NoNewAttempt PROVE sub'[r] = sub[r]
    BY <1>2, <2>2 DEF NoNewAttempt, KeepsAttempt, NoAttempt
  <2>3. sub'[r] = sub[r]
    BY <1>1, <2>1, <2>2, AttemptChange
  <2>4. catalog[sub[r].theater] = "active"
    BY <1>1, <1>2 DEF SucceededIsActive
  <2> QED BY <1>2, <2>3, <2>4, StaysActive
<1>3. CASE sub[r].status # "succeeded"
  <2>1. PICK v \in Resolvers :
           /\ resolver[v].pc = "decided" /\ resolver[v].report = r /\ resolver[v].ok
           /\ sub[r].status = "pending" /\ sub'[r].theater = sub[r].theater
           /\ UNCHANGED catalog
    BY <1>1, <1>3, OutcomeChange
  <2> QED BY <1>1, <2>1 DEF RunsJustified
<1> QED BY <1>2, <1>3

\* A notice is published by the run that owes it, which then ends.
LEMMA NoticesChange ==
  ASSUME TypeOK, [Next]_vars, NEW r \in Reports
  PROVE  \/ notices'[r] = notices[r]
         \/ \E v \in Resolvers :
              /\ resolver[v].pc = "publish" /\ resolver[v].report = r
              /\ notices'[r] = notices[r] + 1
              /\ resolver'[v].pc = "idle" /\ UNCHANGED sub
<1>1. ASSUME NEW v \in Resolvers, Publish(v)
      PROVE  \/ notices'[r] = notices[r]
             \/ /\ resolver[v].pc = "publish" /\ resolver[v].report = r
                /\ notices'[r] = notices[r] + 1
                /\ resolver'[v].pc = "idle" /\ UNCHANGED sub
  BY <1>1 DEF Publish, TypeOK, IdleResolver, subVars
<1>2. ASSUME NEW v \in Resolvers, ResolverStep(v) \/ ResolverCrash(v), ~Publish(v)
      PROVE  UNCHANGED notices
  BY <1>2 DEF ResolverStep, ResolverCrash, LiveStart, SweepStart, DecideOutcome, LoseRace,
              WriteTerminal
<1> QED BY <1>1, <1>2, StepKinds, ClientFrame, MemberFrame, StaffFrame, WorkerFrame, TimeFrame,
           StutterFrame

\* A run that owes a notice, or comes to owe it, has its report's attempt over.
LEMMA PublishChange ==
  ASSUME IInv, [Next]_vars, NEW v \in Resolvers, resolver'[v].pc = "publish"
  PROVE  /\ resolver'[v].report = resolver[v].report
         /\ resolver[v].report \in Reports /\ report[resolver[v].report].status # "none"
         /\ \/ resolver'[v] = resolver[v]
            \/ /\ WriteTerminal(v) /\ sub[resolver[v].report].status = "pending"
               /\ \A u \in Resolvers \ {v} : resolver'[u] = resolver[u]
<1>1. TypeOK /\ RunsJustified
  BY DEF IInv
<1>2. /\ resolver'[v].report = resolver[v].report /\ resolver[v].pc # "idle"
      /\ \/ resolver'[v] = resolver[v]
         \/ WriteTerminal(v) /\ \A u \in Resolvers \ {v} : resolver'[u] = resolver[u]
  BY <1>1, ResolverChange
<1>3. resolver[v].report \in Reports
  BY <1>1, <1>2 DEF TypeOK, ResolverType, IdleResolver
<1>4. report[resolver[v].report].status # "none"
  BY <1>1, <1>2 DEF RunsJustified, TerminalReport
<1> QED BY <1>2, <1>3, <1>4 DEF WriteTerminal, StillPending

\* A run about to publish has resolved its attempt and is alone to publish for it.
LEMMA NoticesOwedNext == IInv /\ [Next]_vars => NoticesOwed'
<1> SUFFICES ASSUME IInv, [Next]_vars PROVE NoticesOwed'
  OBVIOUS
<1>1. TypeOK /\ JobsRefer /\ RunsJustified /\ NoticesOwed /\ NoticesAreFinal
  BY DEF IInv
<1>2. ASSUME NEW r \in Reports, notices'[r] # 0
      PROVE  report'[r].status \in TerminalReport
  <2>1. report[r].status \in TerminalReport
    <3>1. CASE notices'[r] = notices[r]
      BY <1>1, <1>2, <3>1 DEF NoticesOwed
    <3>2. CASE \E v \in Resolvers : resolver[v].pc = "publish" /\ resolver[v].report = r
      BY <1>1, <3>2 DEF RunsJustified
    <3> QED BY <1>1, <3>1, <3>2, NoticesChange
  <2> QED BY <1>1, <2>1, ReportChange DEF TerminalReport
<1>3. ASSUME NEW v \in Resolvers, resolver'[v].pc = "publish"
      PROVE  /\ notices'[resolver'[v].report] = 0
             /\ sub'[resolver'[v].report].status # "pending"
             /\ \A u \in Resolvers \ {v} :
                  resolver'[u].pc = "publish" => resolver'[u].report # resolver'[v].report
  <2>1. PICK r \in Reports : r = resolver[v].report
    BY <1>3, PublishChange
  <2>2. /\ resolver'[v].report = r /\ report[r].status # "none"
        /\ \/ resolver'[v] = resolver[v]
           \/ /\ WriteTerminal(v) /\ sub[r].status = "pending"
              /\ \A u \in Resolvers \ {v} : resolver'[u] = resolver[u]
    BY <1>3, <2>1, PublishChange
  <2>3. CASE resolver'[v] = resolver[v]
    <3>1. /\ notices[r] = 0 /\ sub[r].status # "pending"
          /\ \A u \in Resolvers \ {v} : resolver[u].pc = "publish" => resolver[u].report # r
      BY <1>1, <1>3, <2>1, <2>3 DEF NoticesOwed
    <3>2. notices'[r] = 0
      BY <1>1, <1>3, <3>1, NoticesChange
    <3>3. sub'[r].status # "pending"
      BY <1>1, <2>2, <3>1, PendingBefore
    <3>4. ASSUME NEW u \in Resolvers \ {v}, resolver'[u].pc = "publish"
          PROVE  resolver'[u].report # r
      <4>1. CASE resolver'[u] = resolver[u]
        BY <3>1, <3>4, <4>1
      <4>2. CASE sub[resolver[u].report].status = "pending" /\ resolver'[u].report = resolver[u].report
        BY <3>1, <4>2
      <4> QED BY <3>4, <4>1, <4>2, PublishChange
    <3> QED BY <2>2, <3>2, <3>3, <3>4
  <2>4. CASE /\ WriteTerminal(v) /\ sub[r].status = "pending"
             /\ \A u \in Resolvers \ {v} : resolver'[u] = resolver[u]
    <3>1. notices[r] = 0
      <4>1. notices[r] \in Nat /\ notices[r] <= 1 /\ notices[r] # 1
        BY <1>1, <2>4 DEF NoticesAreFinal, TypeOK
      <4> QED BY <4>1
    <3>2. UNCHANGED notices /\ \E s \in {"succeeded", "failed"} : sub' = [sub EXCEPT ![r].status = s]
      BY <2>1, <2>4 DEF WriteTerminal
    <3>3. sub[r] \in [status : SubStatus \ {"none"}, member : Members, theater : Theaters]
      BY <1>1, <2>4 DEF TypeOK, NoAttempt
    <3>4. sub'[r].status # "pending"
      BY <1>1, <3>2, <3>3 DEF TypeOK
    <3>5. ASSUME NEW u \in Resolvers \ {v}, resolver'[u].pc = "publish"
          PROVE  resolver'[u].report # r
      BY <1>1, <2>4, <3>5 DEF NoticesOwed
    <3> QED BY <2>2, <3>1, <3>2, <3>4, <3>5
  <2> QED BY <2>2, <2>3, <2>4
<1> QED BY <1>2, <1>3 DEF NoticesOwed

\* A step leaves at most one notice per attempt, none before its outcome.
LEMMA NoticesFinalNext == IInv /\ [Next]_vars => NoticesAreFinal'
<1> SUFFICES ASSUME IInv, [Next]_vars, NEW r \in Reports
             PROVE  notices'[r] <= 1 /\ (notices'[r] = 1 => sub'[r].status # "pending")
  BY DEF NoticesAreFinal
<1>1. TypeOK /\ NoticesOwed /\ NoticesAreFinal
  BY DEF IInv
<1>2. CASE notices'[r] = notices[r]
  <2>1. notices'[r] = 1 => report[r].status # "none" /\ sub[r].status # "pending"
    <3> SUFFICES ASSUME notices[r] = 1
                 PROVE  report[r].status # "none" /\ sub[r].status # "pending"
      BY <1>2
    <3>1. report[r].status \in TerminalReport
      <4>1. notices[r] # 0
        OBVIOUS
      <4> QED BY <1>1, <4>1 DEF NoticesOwed
    <3>2. sub[r].status # "pending"
      BY <1>1 DEF NoticesAreFinal
    <3> QED BY <3>1, <3>2 DEF TerminalReport
  <2> QED BY <1>1, <1>2, <2>1, PendingBefore DEF NoticesAreFinal
<1>3. ASSUME NEW v \in Resolvers, resolver[v].pc = "publish", resolver[v].report = r,
             notices'[r] = notices[r] + 1, UNCHANGED sub
      PROVE  notices'[r] <= 1 /\ (notices'[r] = 1 => sub'[r].status # "pending")
  BY <1>1, <1>3 DEF NoticesOwed
<1> QED BY <1>1, <1>2, <1>3, NoticesChange

\* A step keeps every Selection inside the active catalog.
LEMMA CataloguedNext == IInv /\ [Next]_vars => SelectionIsCatalogued'
<1> SUFFICES ASSUME IInv, [Next]_vars, NEW m \in Members, NEW th \in selection'[m]
             PROVE  catalog'[th] = "active" /\ member'[m] # "erased"
  BY DEF SelectionIsCatalogued
<1>1. TypeOK /\ TypeOK' /\ UrlsKnown /\ JobsRefer /\ SelectionIsCatalogued
  BY TypeNext DEF IInv
<1>2. th \in Theaters
  BY <1>1 DEF TypeOK
<1>3. CASE th \in selection[m]
  <2>1. catalog[th] = "active" /\ member[m] # "erased"
    BY <1>1, <1>3 DEF SelectionIsCatalogued
  <2>2. ~StaffDelete(th) /\ ~Erase(m)
    BY <1>1 DEF StaffDelete, Erase, TypeOK
  <2> QED BY <1>1, <1>2, <2>1, <2>2, CatalogChange, MemberChange
<1>4. CASE th \notin selection[m]
  BY <1>4, SelectionChange
<1> QED BY <1>3, <1>4

\* A step keeps every Selection within the quota.
LEMMA QuotaNext == IInv /\ [Next]_vars => SelectionWithinQuota'
<1> SUFFICES ASSUME IInv, [Next]_vars, NEW m \in Members
             PROVE  Cardinality(selection'[m]) <= SelectionQuota
  BY DEF SelectionWithinQuota
<1>1. TypeOK /\ SelectionWithinQuota
  BY DEF IInv
<1>2. IsFiniteSet(selection[m]) /\ Cardinality(selection[m]) \in Nat
  BY <1>1, ConstantsAssumption, FS_Subset, FS_CardinalityType DEF TypeOK
<1>3. CASE selection'[m] \subseteq selection[m]
  <2>1. /\ Cardinality(selection'[m]) <= Cardinality(selection[m])
        /\ Cardinality(selection'[m]) \in Nat
    BY <1>2, <1>3, FS_Subset, FS_CardinalityType
  <2> QED BY <1>1, <1>2, <2>1, ConstantsAssumption DEF SelectionWithinQuota
<1>4. ASSUME NEW th \in Theaters, selection'[m] = selection[m] \cup {th},
             Cardinality(selection[m]) < SelectionQuota
      PROVE  Cardinality(selection'[m]) <= SelectionQuota
  <2>1. \/ Cardinality(selection'[m]) = Cardinality(selection[m])
        \/ Cardinality(selection'[m]) = Cardinality(selection[m]) + 1
    BY <1>2, <1>4, FS_AddElement
  <2> QED BY <1>2, <1>4, <2>1, ConstantsAssumption
<1> QED BY <1>3, <1>4, SelectionChange

-----------------------------------------------------------------------------
(***************************************************************************)
(* The inductive invariant.                                                *)
(***************************************************************************)

\* A fresh database and idle processes satisfy it: nothing refers to anything.
LEMMA InvInit == Init => IInv
<1> SUFFICES ASSUME Init PROVE IInv
  OBVIOUS
<1>1. /\ \A c \in Clients : client[c].pc = "idle"
      /\ \A w \in Workers : worker[w].pc = "idle"
      /\ \A v \in Resolvers : resolver[v].pc = "idle"
  BY DEF Init, IdleClient, IdleWorker, IdleResolver
<1>2. \A r \in Reports : sub[r].status = "none" /\ report[r].status = "none" /\ notices[r] = 0
  BY DEF Init, NoAttempt, NoReport
<1>3. LocksExclusive /\ DecisionsHold
  BY <1>1 DEF LocksExclusive, DecisionsHold, HoldsMember, HoldsTheater
<1>4. AttemptsRefer /\ UrlsKnown /\ JobsRefer /\ JobRunsOnce
  BY <1>1, <1>2 DEF Init, AttemptsRefer, UrlsKnown, JobsRefer, JobRunsOnce
<1>5. RunsJustified /\ NoticesOwed /\ NoticesAreFinal
  BY <1>1, <1>2 DEF RunsJustified, NoticesOwed, NoticesAreFinal
<1>6. OnePendingPerTheater /\ SucceededIsActive
  BY <1>2 DEF OnePendingPerTheater, SucceededIsActive, Pending, Attempts
<1>7. ThrottleHolds
  <2> SUFFICES ASSUME NEW m \in Members PROVE Cardinality(Recent(m)) <= ThrottleMax
    BY DEF ThrottleHolds
  <2>1. Recent(m) = {}
    BY DEF Init, Recent
  <2> QED BY <2>1, FS_EmptySet, ConstantsAssumption
<1>8. SelectionIsCatalogued
  BY DEF Init, SelectionIsCatalogued
<1>9. SelectionWithinQuota
  <2>1. \A m \in Members : selection[m] = {}
    BY DEF Init
  <2> QED BY <2>1, FS_EmptySet, ConstantsAssumption DEF SelectionWithinQuota
<1> QED BY <1>3, <1>4, <1>5, <1>6, <1>7, <1>8, <1>9, TypeInit DEF IInv

\* Every step keeps the inductive invariant.
LEMMA InvNext == IInv /\ [Next]_vars => IInv'
<1> SUFFICES ASSUME IInv, [Next]_vars PROVE IInv'
  OBVIOUS
<1>1. TypeOK' /\ LocksExclusive' /\ DecisionsHold'
  BY TypeNext, LocksNext, DecisionsNext
<1>2. AttemptsRefer' /\ UrlsKnown' /\ JobsRefer' /\ JobRunsOnce'
  BY AttemptsReferNext, UrlsKnownNext, JobsReferNext, JobRunsOnceNext
<1>3. RunsJustified' /\ NoticesOwed' /\ NoticesAreFinal'
  BY RunsJustifiedNext, NoticesOwedNext, NoticesFinalNext
<1>4. OnePendingPerTheater' /\ ThrottleHolds' /\ SucceededIsActive'
  BY OnePendingNext, ThrottleNext, SucceededNext
<1>5. SelectionIsCatalogued' /\ SelectionWithinQuota'
  BY CataloguedNext, QuotaNext
<1> QED BY <1>1, <1>2, <1>3, <1>4, <1>5 DEF IInv

\* In every reachable state the tables, the locks held, the decisions taken under
\* them, the jobs and the resolution runs agree as IInv says.
THEOREM Invariant == Spec => []IInv
BY InvInit, InvNext, PTL DEF Spec

\* The tables and the process states keep their types, and an existing attempt
\* names its Member and Theater.
THEOREM TypeCorrect == Spec => []TypeOK
BY Invariant, PTL DEF IInv

\* However many submissions and retries of one URL interleave, at most one
\* attempt per Theater is pending (submit's FOR UPDATE and the primary key).
THEOREM OnePending == Spec => []OnePendingPerTheater
BY Invariant, PTL DEF IInv

\* The per-Member submission throttle is never exceeded, for any limit and any
\* number of concurrent submissions of one Member.
THEOREM Throttled == Spec => []ThrottleHolds
BY Invariant, PTL DEF IInv

\* The Theater of a succeeded attempt is active as long as the attempt exists.
THEOREM SuccessMeansActive == Spec => []SucceededIsActive
BY Invariant, PTL DEF IInv

\* Selections hold active Theaters only, an erased Member's nothing, and never
\* more than the quota: route adds, auto-adds, deletions and erasures included.
THEOREM Selections == Spec => [](SelectionIsCatalogued /\ SelectionWithinQuota)
BY Invariant, PTL DEF IInv

\* A Member hears once about an attempt, and only when its outcome is durable.
THEOREM OneFinalNotice == Spec => []NoticesAreFinal
BY Invariant, PTL DEF IInv

\* A claimed job is in no other worker's hands and no longer queued.
THEOREM ClaimedOnce == Spec => []JobRunsOnce
BY Invariant, PTL DEF IInv

-----------------------------------------------------------------------------
(***************************************************************************)
(* Action properties.                                                      *)
(***************************************************************************)

\* The first terminal status of an attempt is its last, whoever resolves it next:
\* only a deletion of its Theater or its Member removes the row.
THEOREM ResolvesOnce == Spec => AttemptResolvesOnce
<1>1. ASSUME IInv, [Next]_vars, NEW r \in Reports, sub[r].status \in {"succeeded", "failed"}
      PROVE  sub'[r] \in {sub[r], NoAttempt}
  <2>1. TypeOK /\ report[r].status # "none"
    BY <1>1 DEF IInv, AttemptsRefer
  <2>2. ASSUME NEW c \in Clients, NEW q \in Reports, InsertAttempt(c, q)
        PROVE  sub'[r] = sub[r]
    <3>1. q # r
      BY <2>1, <2>2, InsertChange
    <3> QED BY <2>1, <2>2, <3>1, InsertChange DEF TypeOK
  <2>3. ASSUME NoNewAttempt PROVE sub'[r] \in {sub[r], NoAttempt}
    BY <1>1, <2>3 DEF NoNewAttempt, KeepsAttempt
  <2> QED BY <1>1, <2>1, <2>2, <2>3, AttemptChange
<1>2. IInv /\ [Next]_vars =>
        [\A r \in Reports : sub[r].status \in {"succeeded", "failed"}
                              => sub'[r] \in {sub[r], NoAttempt}]_vars
  BY <1>1
<1> QED BY <1>2, Invariant, PTL DEF Spec, AttemptResolvesOnce

\* A terminal report never runs again: a claim stamp meets a running report only,
\* because nothing expires a job that is queued or just claimed.
THEOREM TerminalStays == Spec => TerminalReportStays
<1>1. ASSUME IInv, [Next]_vars, NEW r \in Reports, report[r].status \in TerminalReport
      PROVE  report'[r].status \in TerminalReport
  BY <1>1, ReportChange DEF IInv, TerminalReport
<1>2. IInv /\ [Next]_vars =>
        [\A r \in Reports : report[r].status \in TerminalReport
                              => report'[r].status \in TerminalReport]_vars
  BY <1>1
<1> QED BY <1>2, Invariant, PTL DEF Spec, TerminalReportStays

\* Nobody gains an attempt while unverified, suspended or erased: the status read
\* under the Member lock still holds at the commit.
THEOREM OnlyVerifiedSubmit == Spec => NewAttemptNeedsVerifiedMember
<1>1. ASSUME IInv, [Next]_vars, NEW r \in Reports, sub[r].status = "none", sub'[r].status # "none"
      PROVE  member[sub'[r].member] = "active"
  <2>1. TypeOK /\ DecisionsHold
    BY <1>1 DEF IInv
  <2>2. ASSUME NEW c \in Clients, NEW q \in Reports, InsertAttempt(c, q)
        PROVE  member[sub'[r].member] = "active"
    <3>1. member[client[c].member] = "active"
      BY <2>1, <2>2, InsertChange DEF DecisionsHold, HoldsMember
    <3>2. q = r /\ sub'[r].member = client[c].member
      BY <1>1, <2>1, <2>2, InsertChange DEF TypeOK
    <3> QED BY <3>1, <3>2
  <2>3. ASSUME NoNewAttempt PROVE FALSE
    BY <1>1, <2>3 DEF NoNewAttempt, KeepsAttempt, NoAttempt
  <2> QED BY <1>1, <2>1, <2>2, <2>3, AttemptChange
<1>2. IInv /\ [Next]_vars =>
        [\A r \in Reports : sub[r].status = "none" /\ sub'[r].status # "none"
                              => member[sub'[r].member] = "active"]_vars
  BY <1>1
<1> QED BY <1>2, Invariant, PTL DEF Spec, NewAttemptNeedsVerifiedMember

-----------------------------------------------------------------------------
(***************************************************************************)
(* Refinement: each step of the pipeline is a step of the lifecycle, or    *)
(* leaves the catalog, the attempts and the Selections alone.              *)
(***************************************************************************)

\* A commit of submit is Submit.
LEMMA InsertRefines ==
  ASSUME IInv, NEW c \in Clients, NEW r \in Reports, InsertAttempt(c, r)
  PROVE  Lifecycle!Next
<1>1. TypeOK /\ DecisionsHold /\ AttemptsRefer
  BY DEF IInv
<1> DEFINE m  == client[c].member
           th == client[c].theater
<1>2. m \in Members /\ th \in Theaters /\ client[c].pc = "insert"
  BY <1>1, InsertChange
<1>3. sub[r] = NoAttempt
  <2>1. report[r].status = "none"
    BY <1>1, InsertChange
  <2> QED BY <1>1, <2>1 DEF AttemptsRefer, TypeOK, SubStatus
<1>4. client[c].retry => catalog[th] = "provisioning"
  BY <1>1, <1>2 DEF DecisionsHold, HoldsTheater
<1>5. catalog[th] \in {"absent", "provisioning"}
  BY <1>1, <1>4, InsertChange
<1>6. \A q \in Reports : sub[q].status = "pending" => sub[q].theater # th
  BY InsertAlone DEF Pending, Attempts
<1>7. catalog' = [catalog EXCEPT ![th] = "provisioning"]
  BY <1>1, <1>2, <1>4, InsertChange DEF TypeOK
<1>8. /\ sub' = [sub EXCEPT ![r] = [status |-> "pending", member |-> m, theater |-> th]]
      /\ UNCHANGED selection
  BY <1>1, InsertChange
<1>9. Lifecycle!Submit(r, m, th)
  BY <1>3, <1>5, <1>6, <1>7, <1>8 DEF Lifecycle!Submit, Lifecycle!NoAttempt, NoAttempt
<1> QED BY <1>2, <1>9 DEF Lifecycle!Next

\* A successful add is Choose, whoever adds.
LEMMA AddRefines ==
  ASSUME TypeOK, NEW m \in Members, NEW th \in Theaters
  PROVE  SelectionAfterAdd(m, th) \in {selection, [selection EXCEPT ![m] = @ \cup {th}]}
BY DEF SelectionAfterAdd

\* The resolution transaction is Succeed or Fail.
LEMMA ResolveRefines ==
  ASSUME IInv, NEW v \in Resolvers, WriteTerminal(v)
  PROVE  Lifecycle!Next
<1>1. TypeOK /\ RunsJustified
  BY DEF IInv
<1> DEFINE r == resolver[v].report
<1>2. r \in Reports /\ sub[r].status = "pending" /\ resolver[v].pc = "decided"
  BY <1>1 DEF WriteTerminal, StillPending, TypeOK, ResolverType, IdleResolver
<1>3. sub[r].member \in Members /\ sub[r].theater \in Theaters
  BY <1>1, <1>2 DEF TypeOK, NoAttempt
<1>4. CASE resolver[v].ok
  <2>1. catalog[sub[r].theater] = "active"
    BY <1>1, <1>2, <1>4 DEF RunsJustified
  <2>2. /\ sub' = [sub EXCEPT ![r].status = "succeeded"]
        /\ selection' = SelectionAfterAdd(sub[r].member, sub[r].theater)
        /\ UNCHANGED catalog
    BY <1>4 DEF WriteTerminal, catalogVars
  <2>3. Lifecycle!Succeed(r)
    BY <1>1, <1>2, <1>3, <2>1, <2>2, AddRefines DEF Lifecycle!Succeed
  <2> QED BY <1>2, <2>3 DEF Lifecycle!Next
<1>5. CASE ~resolver[v].ok
  <2>1. /\ sub' = [sub EXCEPT ![r].status = "failed"]
        /\ UNCHANGED <<catalog, selection>>
    BY <1>5 DEF WriteTerminal, catalogVars
  <2>2. Lifecycle!Fail(r)
    BY <1>2, <2>1 DEF Lifecycle!Fail
  <2> QED BY <1>2, <2>2 DEF Lifecycle!Next
<1> QED BY <1>4, <1>5

\* Staff introduce and remove Theaters.
LEMMA StaffRefines ==
  ASSUME IInv, NEW th \in Theaters, StaffStep(th)
  PROVE  Lifecycle!Next \/ UNCHANGED <<catalog, sub, selection>>
<1> USE DEF catalogVars, subVars
<1>1. TypeOK
  BY DEF IInv
<1>2. ASSUME NEW r \in Reports, NEW url \in Theaters, NEW named \in BOOLEAN,
             StaffAdd(r, th, url, named)
      PROVE  Lifecycle!Next
  BY <1>2 DEF StaffAdd, InsertTheater, Lifecycle!Next, Lifecycle!Introduce
<1>3. CASE StaffDelete(th)
  <2>1. {r \in Reports : sub[r].theater = th} = Attempts(th)
    <3>1. \A r \in Reports : sub[r].status = "none" => sub[r].theater # th
      BY <1>1, ConstantsAssumption DEF TypeOK, NoAttempt, SubStatus
    <3> QED BY <3>1 DEF Attempts
  <2>2. sub' = Lifecycle!Without({r \in Reports : sub[r].theater = th})
    BY <1>3, <2>1 DEF StaffDelete, WithoutAttempts, Lifecycle!Without, Lifecycle!NoAttempt, NoAttempt
  <2>3. Lifecycle!RemoveTheater(th)
    BY <1>3, <2>2 DEF StaffDelete, Lifecycle!RemoveTheater
  <2> QED BY <2>3 DEF Lifecycle!Next
<1>4. ASSUME (\E url \in Theaters : StaffEdit(th, url)) \/ (\E r \in Reports : StaffScrape(r, th))
      PROVE  UNCHANGED <<catalog, sub, selection>>
  BY <1>4 DEF StaffEdit, StaffScrape
<1> QED BY <1>2, <1>3, <1>4 DEF StaffStep

\* A Member erases their attempts and choices, or takes a choice back.
LEMMA MemberRefines ==
  ASSUME IInv, NEW m \in Members, MemberStep(m)
  PROVE  Lifecycle!Next \/ UNCHANGED <<catalog, sub, selection>>
<1> USE DEF catalogVars, subVars
<1>1. CASE Erase(m)
  <2>1. Lifecycle!EraseMember(m)
    BY <1>1 DEF Erase, WithoutAttempts, Lifecycle!EraseMember, Lifecycle!Without,
                Lifecycle!NoAttempt, NoAttempt
  <2> QED BY <2>1 DEF Lifecycle!Next
<1>2. ASSUME NEW th \in Theaters, RemoveFromSelection(m, th)
      PROVE  Lifecycle!Next
  BY <1>2 DEF RemoveFromSelection, Lifecycle!Next, Lifecycle!Unchoose
<1>3. CASE VerifyEmail(m) \/ Suspend(m) \/ Reinstate(m)
  BY <1>3 DEF VerifyEmail, Suspend, Reinstate
<1> QED BY <1>1, <1>2, <1>3 DEF MemberStep

\* A worker brings a Theater back, activates it, or works unseen.
LEMMA WorkerRefines ==
  ASSUME IInv, NEW w \in Workers, WorkerStep(w) \/ WorkerCrash(w)
  PROVE  Lifecycle!Next \/ UNCHANGED <<catalog, sub, selection>>
<1> DEFINE t == Target(w)
<1>1. TypeOK /\ UrlsKnown /\ JobsRefer
  BY DEF IInv
<1>2. UNCHANGED <<sub, selection>>
  BY WorkerFrame
<1>3. worker[w].pc # "idle" => t \in Theaters
  BY <1>1 DEF TypeOK, WorkerType, IdleWorker, UrlsKnown, JobsRefer, Target
<1>4. CASE LoadMetadata(w)
  <2>1. t \in Theaters /\ catalog' = [catalog EXCEPT ![t] = UpsertedStatus(t)]
    BY <1>3, <1>4 DEF LoadMetadata, WorkerAt
  <2>2. CASE catalog[t] = "absent"
    BY <1>2, <2>1, <2>2 DEF UpsertedStatus, Lifecycle!Introduce, Lifecycle!Next
  <2>3. CASE catalog[t] # "absent"
    BY <1>1, <1>2, <2>1, <2>3 DEF UpsertedStatus, TypeOK
  <2> QED BY <2>2, <2>3
<1>5. CASE Activate(w)
  <2>1. /\ t \in Theaters
        /\ catalog' = [catalog EXCEPT ![t] = IF @ = "provisioning" THEN "active" ELSE @]
    BY <1>3, <1>5 DEF Activate, WorkerAt
  <2>2. CASE catalog[t] = "provisioning"
    BY <1>2, <2>1, <2>2 DEF Lifecycle!Activate, Lifecycle!Next
  <2>3. CASE catalog[t] # "provisioning"
    BY <1>1, <1>2, <2>1, <2>3 DEF TypeOK
  <2> QED BY <2>2, <2>3
<1>6. CASE ~LoadMetadata(w) /\ ~Activate(w)
  BY <1>2, <1>6 DEF WorkerStep, WorkerCrash, Claim, MarkRunning, Prepare, ResetTheater,
     ScrapeThrows, ReportSuccess, SuccessNotWritten, ReportFailure, catalogVars
<1> QED BY <1>4, <1>5, <1>6

\* A handler's step is Submit, Choose or unseen.
LEMMA ClientRefines ==
  ASSUME IInv, NEW c \in Clients, ClientStep(c)
  PROVE  Lifecycle!Next \/ UNCHANGED <<catalog, sub, selection>>
<1>1. TypeOK
  BY DEF IInv
<1>2. CASE AddToSelection(c)
  <2> DEFINE m  == client[c].member
             th == client[c].theater
  <2>1. m \in Members /\ th \in Theaters
    BY <1>1, <1>2 DEF AddToSelection, TypeOK, ClientType, IdleClient
  <2>2. UNCHANGED <<catalog, sub>>
    BY <1>2 DEF AddToSelection, catalogVars, subVars
  <2>3. CASE UNCHANGED selection
    BY <2>2, <2>3
  <2>4. CASE MayChoose(m, th) /\ selection' = [selection EXCEPT ![m] = @ \cup {th}]
    BY <2>1, <2>2, <2>4 DEF MayChoose, Lifecycle!Choose, Lifecycle!Next
  <2> QED BY <1>1, <1>2, <2>1, <2>3, <2>4, AddRefines DEF AddToSelection
<1> QED BY <1>2, ClientFrame, InsertRefines

\* The pipeline, with its locks, jobs, crashes and lost notifications, implements
\* the lifecycle of Theaters, attempts and Selections: what SubmissionLifecycle
\* rules out, no interleaving of the pipeline does.
THEOREM Refinement == Spec => ImplementsLifecycle
<1>1. Init => Lifecycle!Init
  BY DEF Init, Lifecycle!Init, NoAttempt, Lifecycle!NoAttempt
<1>2. IInv /\ [Next]_vars => [Lifecycle!Next]_(Lifecycle!vars)
  <2> SUFFICES ASSUME IInv, [Next]_vars
               PROVE  Lifecycle!Next \/ UNCHANGED <<catalog, sub, selection>>
    BY DEF Lifecycle!vars
  <2>1. ASSUME NEW v \in Resolvers, ResolverStep(v) \/ ResolverCrash(v)
        PROVE  Lifecycle!Next \/ UNCHANGED <<catalog, sub, selection>>
    BY <2>1, ResolverFrame, ResolveRefines
  <2> QED BY <2>1, StepKinds, ClientRefines, MemberRefines, StaffRefines, WorkerRefines,
             TimeFrame, StutterFrame
<1> QED BY <1>1, <1>2, Invariant, PTL DEF Spec, ImplementsLifecycle, Lifecycle!Spec

-----------------------------------------------------------------------------
(***************************************************************************)
(* Refinement: seen from the tables of the queue, each step is a step of   *)
(* JobLedger or none.                                                      *)
(***************************************************************************)
Statuses == [r \in Reports |-> report[r].status]
Held == {worker[w].report : w \in {x \in Workers : worker[x].pc # "idle"}}
Tables == <<Statuses, queue, Held, catalog>>

\* A worker holds its report alone.
LEMMA HeldAlone ==
  ASSUME IInv, NEW w \in Workers, worker[w].pc # "idle"
  PROVE  /\ worker[w].report \in Reports \cap Held
         /\ worker' = [worker EXCEPT ![w] = IdleWorker] => Held' = Held \ {worker[w].report}
<1>1. TypeOK /\ JobRunsOnce
  BY DEF IInv
<1>2. worker[w].report \in Reports \cap Held
  BY <1>1 DEF TypeOK, WorkerType, IdleWorker, Held
<1>3. ASSUME worker' = [worker EXCEPT ![w] = IdleWorker]
      PROVE  Held' = Held \ {worker[w].report}
  <2>1. worker'[w].pc = "idle" /\ \A x \in Workers \ {w} : worker'[x] = worker[x]
    BY <1>1, <1>3 DEF TypeOK, IdleWorker
  <2>2. \A x \in Workers \ {w} : worker[x].pc # "idle" => worker[x].report # worker[w].report
    BY <1>1 DEF JobRunsOnce
  <2> QED BY <2>1, <2>2 DEF Held
<1> QED BY <1>2, <1>3

\* A report and its job are written together.
LEMMA EnqueueJobs ==
  ASSUME TypeOK, NEW r \in Reports, NEW kind, NEW target, Fresh(r), EnqueueJob(r, kind, target),
         UNCHANGED worker,
         \/ UNCHANGED catalog
         \/ \E th \in Theaters : /\ catalog[th] = "absent"
                                 /\ catalog' = [catalog EXCEPT ![th] = "provisioning"]
  PROVE  Jobs!Next
<1>1. Statuses[r] = "none" /\ Statuses' = [Statuses EXCEPT ![r] = "running"]
  BY DEF Fresh, EnqueueJob, Statuses, TypeOK
<1>2. Jobs!Enqueue(r)
  BY <1>1 DEF Jobs!Enqueue, Jobs!Opens, Jobs!Moves, EnqueueJob, Statuses
<1> QED BY <1>2 DEF Jobs!Next

\* Submitters and Staff enqueue jobs and remove Theaters.
LEMMA PeopleJobs ==
  ASSUME IInv, (\E c \in Clients : ClientStep(c)) \/ (\E th \in Theaters : StaffStep(th))
  PROVE  Jobs!Next \/ UNCHANGED Tables
<1>1. TypeOK /\ DecisionsHold
  BY DEF IInv
<1> USE DEF catalogVars, jobVars, procVars
<1>2. ASSUME NEW c \in Clients, ClientStep(c)
      PROVE  Jobs!Next \/ UNCHANGED Tables
  <2>1. ASSUME NEW r \in Reports, InsertAttempt(c, r) PROVE Jobs!Next
    <3>1. client[c].theater \in Theaters /\ UNCHANGED worker
      BY <1>1, <2>1, InsertChange DEF InsertAttempt
    <3> QED BY <1>1, <2>1, <3>1, EnqueueJobs DEF InsertAttempt, InsertTheater
  <2>2. CASE UNCHANGED <<report, queue, catalog>>
    BY <1>2, <2>2, ClientFrame DEF Tables, Statuses, Held
  <2> QED BY <1>2, <2>1, <2>2, ClientFrame
<1>3. ASSUME NEW th \in Theaters, StaffStep(th)
      PROVE  Jobs!Next \/ UNCHANGED Tables
  <2>1. ASSUME NEW r \in Reports, NEW url \in Theaters, NEW named \in BOOLEAN,
               StaffAdd(r, th, url, named)
        PROVE  Jobs!Next
    BY <1>1, <2>1, EnqueueJobs DEF StaffAdd, InsertTheater
  <2>2. ASSUME NEW r \in Reports, StaffScrape(r, th) PROVE Jobs!Next
    BY <1>1, <2>2, EnqueueJobs DEF StaffScrape
  <2>3. CASE StaffDelete(th)
    <3>1. Jobs!Remove(th)
      BY <2>3 DEF StaffDelete, Jobs!Remove
    <3> QED BY <3>1 DEF Jobs!Next
  <2>4. ASSUME NEW url \in Theaters, StaffEdit(th, url) PROVE UNCHANGED Tables
    BY <2>4 DEF StaffEdit, Tables, Statuses, Held
  <2> QED BY <1>3, <2>1, <2>2, <2>3, <2>4 DEF StaffStep
<1> QED BY <1>2, <1>3

\* A worker claims, scrapes, finishes or dies.
LEMMA WorkerJobs ==
  ASSUME IInv, NEW w \in Workers, WorkerStep(w) \/ WorkerCrash(w)
  PROVE  Jobs!Next \/ UNCHANGED Tables
<1>1. TypeOK /\ JobRunsOnce /\ JobsRefer /\ UrlsKnown
  BY DEF IInv
<1> DEFINE r == worker[w].report
           t == Target(w)
<1> USE DEF catalogVars, jobVars, WorkerAt
<1>2. CASE Claim(w)
  <2>1. PICK q \in queue : /\ \A p \in queue : q <= p
                           /\ queue' = queue \ {q}
                           /\ worker' = [worker EXCEPT ![w] = [pc |-> "claimed", report |-> q, url |-> None]]
    BY <1>2 DEF Claim, Dequeued
  <2>2. worker[w].pc = "idle" /\ UNCHANGED <<report, catalog>> /\ q \in Reports
    BY <1>1, <1>2 DEF Claim, TypeOK
  <2>3. Held' = Held \cup {q}
    <3>1. /\ worker'[w].pc = "claimed" /\ worker'[w].report = q
          /\ \A x \in Workers \ {w} : worker'[x] = worker[x]
      BY <1>1, <2>1 DEF TypeOK
    <3> QED BY <2>2, <3>1 DEF Held
  <2>4. Jobs!Claim(q)
    BY <2>1, <2>2, <2>3 DEF Jobs!Claim, Held
  <2> QED BY <2>2, <2>4 DEF Jobs!Next
<1>3. ASSUME ~Claim(w) PROVE worker[w].pc # "idle" /\ r \in Reports \cap Held
  <2>1. worker[w].pc # "idle"
    BY <1>3 DEF WorkerStep, WorkerCrash, MarkRunning, Prepare, LoadMetadata, Activate, ResetTheater,
                ScrapeThrows, ReportSuccess, SuccessNotWritten, ReportFailure
  <2> QED BY <2>1, HeldAlone
<1>4. ASSUME NEW s, worker' = [worker EXCEPT ![w] = s], s.report = r, s.pc # "idle", worker[w].pc # "idle"
      PROVE  Held' = Held
  <2>1. worker'[w] = s /\ \A x \in Workers \ {w} : worker'[x] = worker[x]
    BY <1>1, <1>4 DEF TypeOK
  <2> QED BY <1>4, <2>1 DEF Held
<1>10. ASSUME NEW p \in {"prepare", "load", "scrape", "succeeded", "failed"}, NEW url, worker[w].pc # "idle"
       PROVE  /\ [worker[w] EXCEPT !.pc = p].pc # "idle" /\ [worker[w] EXCEPT !.pc = p].report = r
              /\ [worker[w] EXCEPT !.pc = p, !.url = url].pc # "idle"
              /\ [worker[w] EXCEPT !.pc = p, !.url = url].report = r
  BY <1>1, <1>10 DEF TypeOK, WorkerType
<1>11. ASSUME NEW p \in {"prepare", "load", "scrape", "succeeded", "failed"}, worker[w].pc # "idle",
              \/ MoveWorker(w, p)
              \/ \E url : worker' = [worker EXCEPT ![w] = [@ EXCEPT !.pc = p, !.url = url]]
       PROVE  Held' = Held
  <2>1. CASE MoveWorker(w, p)
    BY <1>4, <1>10, <1>11, <2>1 DEF MoveWorker
  <2>2. ASSUME NEW url, worker' = [worker EXCEPT ![w] = [worker[w] EXCEPT !.pc = p, !.url = url]]
        PROVE  Held' = Held
    <3> DEFINE s == [worker[w] EXCEPT !.pc = p, !.url = url]
    <3>1. s.pc # "idle" /\ s.report = r /\ worker' = [worker EXCEPT ![w] = s]
      BY <1>10, <1>11, <2>2
    <3> HIDE DEF s
    <3> QED BY <1>4, <1>11, <3>1
  <2> QED BY <1>11, <2>1, <2>2
<1>5. CASE MarkRunning(w)
  <2>1. Held' = Held
    BY <1>1, <1>5 DEF MarkRunning, TypeOK, WorkerType, IdleWorker, Held
  <2>2. Statuses' = Statuses
    BY <1>1, <1>5 DEF MarkRunning, Statuses, TypeOK, JobsRefer
  <2> QED BY <1>5, <2>1, <2>2 DEF MarkRunning, Tables
<1>6. CASE LoadMetadata(w) \/ Activate(w)
  <2>1. Held' = Held
    <3>1. \/ \E url : worker' = [worker EXCEPT ![w] = [@ EXCEPT !.pc = "scrape", !.url = url]]
          \/ MoveWorker(w, "succeeded")
      BY <1>6 DEF LoadMetadata, Activate
    <3>2. worker[w].pc # "idle"
      BY <1>6 DEF LoadMetadata, Activate
    <3> QED BY <1>11, <3>1, <3>2
  <2>2. t \in Theaters /\ Held # {}
    BY <1>1, <1>3, <1>6 DEF TypeOK, WorkerType, IdleWorker, UrlsKnown, JobsRefer, Target,
                            LoadMetadata, Activate, Claim
  <2>3. UNCHANGED <<report, queue>>
    BY <1>6 DEF LoadMetadata, Activate
  <2>4. \/ UNCHANGED catalog
        \/ Jobs!Moves(t, "absent", "provisioning") \/ Jobs!Moves(t, "provisioning", "active")
    BY <1>1, <1>6, <2>2 DEF LoadMetadata, Activate, UpsertedStatus, TypeOK, Jobs!Moves
  <2>5. CASE UNCHANGED catalog
    BY <2>1, <2>3, <2>5 DEF Tables, Statuses
  <2>6. CASE Jobs!Moves(t, "absent", "provisioning") \/ Jobs!Moves(t, "provisioning", "active")
    <3>1. Jobs!Scrape(t)
      BY <2>1, <2>2, <2>3, <2>6 DEF Jobs!Scrape, Held
    <3> QED BY <2>2, <3>1 DEF Jobs!Next
  <2> QED BY <2>4, <2>5, <2>6
<1>7. CASE Prepare(w) \/ ResetTheater(w) \/ ScrapeThrows(w) \/ SuccessNotWritten(w)
  <2>1. Held' = Held
    <3>1. \/ \E p \in {"load", "failed"} : \E url :
               worker' = [worker EXCEPT ![w] = [@ EXCEPT !.pc = p, !.url = url]]
          \/ \E p \in {"succeeded", "failed"} : MoveWorker(w, p)
      BY <1>7 DEF Prepare, ResetTheater, ScrapeThrows, SuccessNotWritten
    <3>2. worker[w].pc # "idle"
      BY <1>7 DEF Prepare, ResetTheater, ScrapeThrows, SuccessNotWritten
    <3> QED BY <1>11, <3>1, <3>2
  <2> QED BY <1>7, <2>1 DEF Prepare, ResetTheater, ScrapeThrows, SuccessNotWritten, Tables, Statuses
<1>8. CASE ReportSuccess(w) \/ ReportFailure(w)
  <2>1. worker[w].pc # "idle" /\ worker' = [worker EXCEPT ![w] = IdleWorker] /\ UNCHANGED <<queue, catalog>>
    BY <1>8 DEF ReportSuccess, ReportFailure, Finish
  <2>2. PICK q : q = worker[w].report
    OBVIOUS
  <2>3. q \in Reports \cap Held /\ Held' = Held \ {q}
    BY <2>1, <2>2, HeldAlone
  <2>4. \/ report' = [report EXCEPT ![q].status = report[q].status]
        \/ \E o \in TerminalReport : report' = [report EXCEPT ![q].status = o]
    BY <1>8, <2>2 DEF ReportSuccess, ReportFailure, Finish, TerminalReport
  <2>5. \/ UNCHANGED Statuses
        \/ \E o \in TerminalReport : Statuses' = [Statuses EXCEPT ![q] = o]
    <3>1. ASSUME NEW o, report' = [report EXCEPT ![q].status = o]
          PROVE  Statuses' = [Statuses EXCEPT ![q] = o]
      <4>1. \A x \in Reports : report[x] \in [status : {"none", "running"} \cup TerminalReport,
                                             claim : {"null", "fresh", "old"}]
        BY <1>1 DEF TypeOK
      <4>2. report'[q].status = o /\ \A x \in Reports \ {q} : report'[x] = report[x]
        BY <1>1, <2>3, <3>1, <4>1 DEF TypeOK
      <4> QED BY <2>3, <4>2 DEF Statuses
    <3>2. [Statuses EXCEPT ![q] = report[q].status] = Statuses
      BY <2>3 DEF Statuses
    <3> QED BY <2>4, <3>1, <3>2
  <2>6. Jobs!Finish(q)
    BY <2>1, <2>3, <2>5 DEF Jobs!Finish, Held, Statuses
  <2> QED BY <2>3, <2>6 DEF Jobs!Next
<1>9. CASE WorkerCrash(w)
  <2>1. worker[w].pc # "idle" /\ worker' = [worker EXCEPT ![w] = IdleWorker]
        /\ UNCHANGED <<report, queue, catalog>>
    BY <1>9 DEF WorkerCrash
  <2>2. PICK q : q = worker[w].report
    OBVIOUS
  <2>3. Held' = Held \ {q}
    BY <2>1, <2>2, HeldAlone
  <2>4. Jobs!Die
    BY <2>1, <2>3 DEF Jobs!Die, Held
  <2> QED BY <2>4 DEF Jobs!Next
<1> QED BY <1>2, <1>5, <1>6, <1>7, <1>8, <1>9 DEF WorkerStep

\* Nobody expires a report whose job still waits for a worker.
LEMMA ExpiryJobs ==
  ASSUME IInv, SweepExpire
  PROVE  Jobs!Next
<1>1. PICK late \in SUBSET Reports : \A r \in Reports : r \in late <=> Stale(r)
  <2>1. {r \in Reports : Stale(r)} \in SUBSET Reports
    OBVIOUS
  <2> QED BY <2>1
<1>2. \A r \in late : Statuses[r] = "running" /\ r \notin queue
  BY <1>1 DEF IInv, JobsRefer, Stale, Statuses
<1>3. Statuses' = [r \in Reports |-> IF r \in late THEN "failed" ELSE Statuses[r]]
  BY <1>1 DEF SweepExpire, Statuses, IInv, TypeOK
<1>4. UNCHANGED <<queue, Held, catalog>>
  BY DEF SweepExpire, catalogVars, procVars, Held
<1>5. Jobs!Expire(late)
  BY <1>2, <1>3, <1>4 DEF Jobs!Expire, Statuses, Held
<1> QED BY <1>5 DEF Jobs!Next

\* Whatever submitters, workers, expiries and crashes do, the tables of the queue
\* change as JobLedger says.
THEOREM PipelineKeepsLedger == Spec => ImplementsJobs
<1>1. Init => Jobs!Init
  <2> SUFFICES ASSUME Init PROVE Jobs!Init
    OBVIOUS
  <2>1. Statuses = [r \in Reports |-> "none"] /\ Held = {}
    BY DEF Init, Statuses, Held, NoReport, IdleWorker
  <2>2. catalog \in [Theaters -> {"absent", "provisioning", "active"}] /\ queue = {}
    BY DEF Init
  <2> QED BY <2>1, <2>2 DEF Jobs!Init, Statuses, Held
<1>2. IInv /\ [Next]_vars => [Jobs!Next]_(Jobs!ledgerVars)
  <2> SUFFICES ASSUME IInv, [Next]_vars PROVE Jobs!Next \/ UNCHANGED Tables
    BY DEF Jobs!ledgerVars, Tables, Statuses, Held
  <2>1. ASSUME NEW m \in Members, MemberStep(m) PROVE UNCHANGED Tables
    BY <2>1, MemberFrame DEF Tables, Statuses, Held
  <2>2. ASSUME NEW v \in Resolvers, ResolverStep(v) \/ ResolverCrash(v) PROVE UNCHANGED Tables
    BY <2>2, ResolverFrame DEF Tables, Statuses, Held
  <2>3. ASSUME NEW r \in Reports, EventLost(r) \/ ClaimAges(r) \/ WindowSlides(r)
        PROVE  UNCHANGED Tables
    <3>1. Statuses' = Statuses
      BY <2>3 DEF EventLost, ClaimAges, WindowSlides, jobVars, Statuses, IInv, TypeOK
    <3> QED BY <2>3, <3>1, TimeFrame DEF Tables, Held
  <2>4. CASE UNCHANGED vars
    BY <2>4, StutterFrame DEF Tables, Statuses, Held
  <2> QED BY <2>1, <2>2, <2>3, <2>4, StepKinds, PeopleJobs, WorkerJobs, ExpiryJobs
<1> QED BY <1>1, <1>2, Invariant, PTL DEF Spec, ImplementsJobs, Jobs!Spec
=============================================================================
