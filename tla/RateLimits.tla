----------------------------- MODULE RateLimits -----------------------------
(***************************************************************************)
(* The HTTP rate limits: one limiter stands for the ten of the table, its  *)
(* maximum for the whole configuration row.  An administrator's change     *)
(* runs statement by statement; `db.query' takes ANY idle connection of    *)
(* the pool for each statement, BEGIN and COMMIT included.  The server     *)
(* keeps a copy of the row (`inMemory'), reloaded after a change and by a   *)
(* poll every minute; each reload makes new limiters, with empty counters. *)
(***************************************************************************)
EXTENDS Naturals, FiniteSets

CONSTANTS Administrators,       \* one request at a time of each administrator
          Connections,  \* pool connections
          Maxima,       \* the values a maximum may be set to
          Unset,        \* no buffered value, no request's value
          Minutes,      \* the limiter's window, in minutes
          MaxChanges,   \* bound: changes asked for
          MaxRequests   \* bound: requests of one client let through in a window

ASSUME MaximaAssumption == Maxima \subseteq Nat \ {0} /\ Maxima # {} /\ Unset \notin Maxima \union Connections
ASSUME MinutesAssumption == Minutes \in Nat \ {0}

VARIABLES limitRow,       \* the committed maximum
          audits,    \* committed entries of rate_limit_audit_log
          session,   \* connection -> [tx, row, audits]: its transaction and what it buffers
          rowLock,   \* the connection that holds the row's lock, or Unset
          change,    \* administrator -> [at, value, old]: the request's next statement
          asked,     \* changes asked for so far
          inMemory,   \* the maximum in memory
          polls,     \* in-flight poll: the value read, or Unset
          counter,   \* [hits, age] of the limiter's store
          window,    \* [hits, age, allowed, starts]: what the same client was let through,
                     \* and the fresh starts of the counter meanwhile (history)
          due        \* a poll is due this minute

rateVars == <<limitRow, audits, session, rowLock, change, asked, inMemory, polls, counter, window, due>>
poolVars == <<limitRow, audits, session, rowLock>>
limiterVars == <<inMemory, polls, counter, window, due>>

Autocommit == [tx |-> "none", row |-> Unset, audits |-> 0]
NoChange == [at |-> "idle", value |-> Unset, old |-> Unset]
Empty == [hits |-> 0, age |-> 0]
NoWindow == [hits |-> 0, age |-> 0, allowed |-> 0, starts |-> 0]

RateInit == /\ limitRow \in Maxima
            /\ audits = 0
            /\ session = [k \in Connections |-> Autocommit]
            /\ rowLock = Unset
            /\ change = [a \in Administrators |-> NoChange]
            /\ asked = 0
            /\ inMemory = limitRow          \* index.ts awaits loadFromDb before it listens
            /\ polls = Unset
            /\ counter = Empty
            /\ window = NoWindow
            /\ due = TRUE

------------------------------------------------------------------------------
(* Statements, each on some connection k of the pool.                       *)

Visible(k) == IF session[k].row # Unset THEN session[k].row ELSE limitRow
MayLock(k) == rowLock \in {Unset, k}
Works(k) == session[k].tx # "aborted"
GoOn(a, at) == change' = [change EXCEPT ![a].at = at]

Ask(a, v) == /\ change[a].at = "idle"
             /\ asked < MaxChanges
             /\ asked' = asked + 1
             /\ change' = [change EXCEPT ![a] = [at |-> "begin", value |-> v, old |-> Unset]]
             /\ UNCHANGED <<poolVars, limiterVars>>

\* BEGIN inside a transaction only warns.
BeginTx(a, k) == /\ change[a].at = "begin"
                 /\ GoOn(a, "select")
                 /\ session' = IF session[k].tx = "none" THEN [session EXCEPT ![k].tx = "open"] ELSE session
                 /\ UNCHANGED <<limitRow, audits, rowLock, asked, limiterVars>>

\* SELECT ... FOR UPDATE: the lock lasts as long as k's transaction, if any.
\* Unchanged values lead to ROLLBACK.
SelectRow(a, k) == /\ change[a].at = "select"
                   /\ Works(k) /\ MayLock(k)
                   /\ rowLock' = IF session[k].tx = "open" THEN k ELSE rowLock
                   /\ change' = [change EXCEPT ![a].old = Visible(k),
                                     ![a].at = IF Visible(k) = change[a].value THEN "unchanged" ELSE "update"]
                   /\ UNCHANGED <<limitRow, audits, session, asked, limiterVars>>

UpdateRow(a, k) == /\ change[a].at = "update"
                   /\ Works(k) /\ MayLock(k)
                   /\ \/ /\ session[k].tx = "open"
                         /\ session' = [session EXCEPT ![k].row = change[a].value]
                         /\ rowLock' = k
                         /\ UNCHANGED limitRow
                      \/ /\ session[k].tx = "none"
                         /\ limitRow' = change[a].value
                         /\ UNCHANGED <<session, rowLock>>
                   /\ GoOn(a, "audit")
                   /\ UNCHANGED <<audits, asked, limiterVars>>

InsertAudit(a, k) == /\ change[a].at = "audit"
                     /\ Works(k)
                     /\ \/ /\ session[k].tx = "open"
                           /\ session' = [session EXCEPT ![k].audits = @ + 1]
                           /\ UNCHANGED audits
                        \/ /\ session[k].tx = "none"
                           /\ audits' = audits + 1
                           /\ UNCHANGED session
                     /\ GoOn(a, "commit")
                     /\ UNCHANGED <<limitRow, rowLock, asked, limiterVars>>

\* The end of k's transaction, if it has one; COMMIT of an aborted one rolls back.
Ended(k) == /\ session' = [session EXCEPT ![k] = Autocommit]
            /\ rowLock' = IF rowLock = k THEN Unset ELSE rowLock

Commit(a, k) == /\ change[a].at = "commit"
                /\ limitRow' = IF Works(k) THEN Visible(k) ELSE limitRow
                /\ audits' = IF Works(k) THEN audits + session[k].audits ELSE audits
                /\ Ended(k)
                /\ GoOn(a, "load")
                /\ UNCHANGED <<asked, limiterVars>>

\* ROLLBACK on the way out: without changes the route still reloads and answers.
Rollback(a, k) == /\ change[a].at \in {"unchanged", "failed"}
                  /\ Ended(k)
                  /\ change' = [change EXCEPT ![a] = IF @.at = "failed" THEN NoChange ELSE [@ EXCEPT !.at = "load"]]
                  /\ UNCHANGED <<limitRow, audits, asked, limiterVars>>

\* A statement fails: a transaction that k is in is aborted.
StatementFails(a, k) == /\ change[a].at \in {"select", "update", "audit", "commit"}
                        /\ session' = [session EXCEPT ![k] =
                               IF @.tx = "none" THEN @ ELSE [tx |-> "aborted", row |-> Unset, audits |-> 0]]
                        /\ GoOn(a, "failed")
                        /\ UNCHANGED <<limitRow, audits, rowLock, asked, limiterVars>>

------------------------------------------------------------------------------
(* The copy in memory and the limiters built from it.                       *)

\* loadFromDb: assigns the copy, then notifies: every limiter is created
\* again, with a new store.
Reloaded(v) == /\ inMemory' = v
               /\ counter' = Empty
               /\ window' = [window EXCEPT !.starts = IF window.hits = 0 THEN 0 ELSE @ + 1]

\* The read and the assignment are apart, so a poll may store an older value
\* than a change's own reload.
Reload(a, k) == /\ change[a].at = "load"
                /\ \/ Works(k) /\ Reloaded(Visible(k))
                   \/ UNCHANGED <<inMemory, counter, window>>   \* loadFromDb swallows its error
                /\ change' = [change EXCEPT ![a] = NoChange]
                /\ UNCHANGED <<poolVars, asked, polls, due>>

PollReads(k) == /\ due /\ polls = Unset /\ Works(k)
                /\ due' = FALSE
                /\ polls' = Visible(k)
                /\ UNCHANGED <<poolVars, change, asked, inMemory, counter, window>>

PollStores == /\ polls # Unset
              /\ Reloaded(polls)
              /\ polls' = Unset
              /\ UNCHANGED <<poolVars, change, asked, due>>

\* One client's requests: express-rate-limit counts from the first one of a
\* window and refuses above the maximum.
Request == /\ counter.hits < inMemory
           /\ window.hits < MaxRequests
           /\ counter' = [counter EXCEPT !.hits = @ + 1]
           /\ window' = [window EXCEPT !.hits = @ + 1, !.allowed = IF @ > inMemory THEN @ ELSE inMemory]
           /\ UNCHANGED <<poolVars, change, asked, inMemory, polls, due>>

\* A minute passes: windows that have lasted Minutes start afresh.
Over(w) == w.hits = 0 \/ w.age + 1 >= Minutes
Older(w, fresh) == IF Over(w) THEN fresh ELSE [w EXCEPT !.age = @ + 1]

MinutePasses == /\ counter' = Older(counter, Empty)
                /\ window' = IF Over(counter) /\ ~Over(window)
                             THEN [window EXCEPT !.age = @ + 1, !.starts = @ + 1]
                             ELSE Older(window, NoWindow)
                /\ due' = TRUE
                /\ UNCHANGED <<poolVars, change, asked, inMemory, polls>>

RateNext == \/ \E a \in Administrators, v \in Maxima : Ask(a, v)
            \/ \E a \in Administrators, k \in Connections :
                  \/ BeginTx(a, k) \/ SelectRow(a, k) \/ UpdateRow(a, k) \/ InsertAudit(a, k)
                  \/ Commit(a, k) \/ Rollback(a, k) \/ StatementFails(a, k) \/ Reload(a, k)
            \/ \E k \in Connections : PollReads(k)
            \/ PollStores
            \/ Request
            \/ MinutePasses

RateSpec == RateInit /\ [][RateNext]_rateVars

------------------------------------------------------------------------------
(* Properties.                                                              *)

\* rate-limiting.md promises a client the maximum per window, counted from its
\* first request.  Every reload, the poll of each minute included, makes the
\* limiters anew, so that this is left of it: the maximum once per counter that
\* was begun within the window (rate-limit-source.ts:160, middleware/rate-limit.ts:56-58).
WindowBounded == window.hits <= window.allowed * (1 + window.starts)

\* The shape of the pool: only a connection inside a transaction buffers
\* anything or keeps the row's lock, and what it buffers for the row is
\* under that lock (rate-limit-queries.ts:61-150).
RateInv == /\ WindowBounded
           /\ limitRow \in Maxima /\ inMemory \in Maxima /\ polls \in Maxima \union {Unset}
           /\ \A k \in Connections :
                 /\ session[k].tx # "open" => session[k] = [Autocommit EXCEPT !.tx = session[k].tx]
                 /\ session[k].row # Unset => rowLock = k
                 /\ rowLock = k => session[k].tx # "none"
           /\ \A a \in Administrators : change[a].at \in {"update", "audit", "commit"} => change[a].old \in Maxima
=============================================================================
