------------------------ MODULE SubmissionLifecycle ------------------------
(***************************************************************************)
(* What the submission pipeline promises, without locks, jobs, workers or  *)
(* notifications: Theaters are absent, provisioning or active; an attempt  *)
(* to introduce one is pending, then succeeded or failed; a Selection      *)
(* holds active Theaters.  SubmissionPipeline implements this              *)
(* specification.                                                          *)
(***************************************************************************)
EXTENDS FiniteSets

CONSTANTS Members, Theaters, AttemptIds, None

VARIABLES catalog, sub, selection

vars == <<catalog, sub, selection>>

NoAttempt == [status |-> "none", member |-> None, theater |-> None]

Without(gone) == [a \in AttemptIds |-> IF a \in gone THEN NoAttempt ELSE sub[a]]

Init ==
  /\ catalog   = [th \in Theaters |-> "absent"]
  /\ sub       = [a \in AttemptIds |-> NoAttempt]
  /\ selection = [m \in Members |-> {}]

\* A Member introduces a Theater, or retries one with no attempt in flight.
Submit(a, m, th) ==
  /\ sub[a] = NoAttempt
  /\ catalog[th] \in {"absent", "provisioning"}
  /\ \A b \in AttemptIds : sub[b].status = "pending" => sub[b].theater # th
  /\ sub' = [sub EXCEPT ![a] = [status |-> "pending", member |-> m, theater |-> th]]
  /\ catalog' = [catalog EXCEPT ![th] = "provisioning"]
  /\ UNCHANGED selection

\* Staff, or the scrape of another row's URL, introduces a Theater.
Introduce(th) ==
  /\ catalog[th] = "absent"
  /\ catalog' = [catalog EXCEPT ![th] = "provisioning"]
  /\ UNCHANGED <<sub, selection>>

\* A scrape found showtimes.
Activate(th) ==
  /\ catalog[th] = "provisioning"
  /\ catalog' = [catalog EXCEPT ![th] = "active"]
  /\ UNCHANGED <<sub, selection>>

\* One gesture, one outcome: success and the auto-add are one step; a full
\* Selection skips the add.
Succeed(a) ==
  LET m  == sub[a].member
      th == sub[a].theater
  IN
  /\ sub[a].status = "pending" /\ catalog[th] = "active"
  /\ sub' = [sub EXCEPT ![a].status = "succeeded"]
  /\ selection' \in {selection, [selection EXCEPT ![m] = @ \cup {th}]}
  /\ UNCHANGED catalog

\* A failed attempt never reaches the Selection.
Fail(a) ==
  /\ sub[a].status = "pending"
  /\ sub' = [sub EXCEPT ![a].status = "failed"]
  /\ UNCHANGED <<catalog, selection>>

Choose(m, th) ==
  /\ catalog[th] = "active"
  /\ selection' = [selection EXCEPT ![m] = @ \cup {th}]
  /\ UNCHANGED <<catalog, sub>>

Unchoose(m, th) ==
  /\ selection' = [selection EXCEPT ![m] = @ \ {th}]
  /\ UNCHANGED <<catalog, sub>>

\* Hard deletion of a Theater, with its attempts and choices.
RemoveTheater(th) ==
  /\ catalog[th] # "absent"
  /\ catalog' = [catalog EXCEPT ![th] = "absent"]
  /\ sub' = Without({a \in AttemptIds : sub[a].theater = th})
  /\ selection' = [m \in Members |-> selection[m] \ {th}]

\* Erasure of a Member, with their attempts and choices; Theaters stay.
EraseMember(m) ==
  /\ sub' = Without({a \in AttemptIds : sub[a].member = m})
  /\ selection' = [selection EXCEPT ![m] = {}]
  /\ UNCHANGED catalog

Next ==
  \/ \E a \in AttemptIds : \/ Succeed(a) \/ Fail(a)
                           \/ \E m \in Members, th \in Theaters : Submit(a, m, th)
  \/ \E th \in Theaters : \/ Introduce(th) \/ Activate(th) \/ RemoveTheater(th)
                          \/ \E m \in Members : Choose(m, th) \/ Unchoose(m, th)
  \/ \E m \in Members : EraseMember(m)

Spec == Init /\ [][Next]_vars
=============================================================================
