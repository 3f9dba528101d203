---------------------------- MODULE MemberCache ----------------------------
(***************************************************************************)
(* What a signed-in Member sees of the own Selection, profile and          *)
(* submissions: the queries of the pages, cached in the browser, against   *)
(* the Selection on the server.                                            *)
(*                                                                         *)
(* The queries share their triggers and nothing else, so that the entry of *)
(* one of them, `watched`, stands for each.  Of its data the model keeps   *)
(* whether the server would still answer the same; of the profile it also  *)
(* keeps the Appearance, which the browser writes before the server does.  *)
(* The Homepage's day is left out: its queries are all refetched together. *)
(***************************************************************************)
EXTENDS Naturals, FiniteSets, Sequences

CONSTANTS
  Theaters,       \* Theaters a Member may choose
  Proposed,       \* the one that is not in the catalog at first
  FreeQuota,      \* active choices of the free offer
  PremiumQuota,   \* active choices of the premium offer
  MaxCalls        \* bound on the writes a browser has in flight

ASSUME MemberCacheAssumption ==
  /\ Proposed \in Theaters
  /\ FreeQuota \in Nat /\ PremiumQuota \in Nat /\ FreeQuota <= PremiumQuota
  /\ MaxCalls \in Nat

VARIABLES
  catalog,      \* the active Theaters
  selection,    \* member_selections of the Member: every stored choice is active
  attempt,      \* theater_submissions: the latest attempt for Proposed
  paid,         \* a Subscription is paid through now
  appearance,   \* member_preferences
  watched,      \* the query whose entry is followed, chosen once
  page,         \* the page shown
  data,         \* the entry: "absent", "fresh" or "old"
  fetch,        \* its fetch: none, asked, or read by the server and "fresh" or "old"
  fetched,      \* the Appearance that fetch carries, "light" if none
  shown,        \* the Appearance in the profile's entry
  wanted,       \* the Appearance the toggle in flight asks for, "light" if none
  calls,        \* the writes in flight, by kind
  notice,       \* the notice of a resolution is on its way
  excused       \* nothing told the browser, or a fetch it could not restart (history)

cacheServer == <<catalog, selection, attempt, paid, appearance>>
cacheVars == <<cacheServer, watched, page, data, fetch, fetched, shown, wanted, calls,
               notice, excused>>

\* Query keys; a key stands for every key it is a prefix of.
Me == <<"me">>
MySubmissions == <<"me", "submissions">>
MySelection == <<"selection">>
SelectionMovies == <<"selection-movies">>
Queries == {Me, MySubmissions, MySelection, SelectionMovies}

Matches(key, query) == Len(key) <= Len(query) /\ SubSeq(query, 1, Len(key)) = key

\* The profile is observed everywhere, for the Appearance of the document.
HomeQueries == {Me, MySelection, SelectionMovies}
CinemasQueries == {Me, MySelection}
SubmissionsQueries == {Me, MySubmissions}
AccountQueries == {Me}

PageQueries == [home |-> HomeQueries, cinemas |-> CinemasQueries,
                submissions |-> SubmissionsQueries, account |-> AccountQueries]

Pages == DOMAIN PageQueries
Mounted == watched \in PageQueries[page]

Looks == {"light", "dark"}
Other(look) == IF look = "light" THEN "dark" ELSE "light"

Kinds == {"add", "remove", "submit", "rowAdd", "retry", "appearance"}
CinemasControls == {"add", "remove", "submit"}
RowControls == {"rowAdd", "retry"}
KindsOf == [home |-> {"appearance"}, cinemas |-> CinemasControls,
            submissions |-> RowControls, account |-> {}]

\* Writes that disable the control of a kind while they are in flight.
DisabledBy(kind) == IF kind = "add" THEN {"add", "remove"} ELSE {kind}

CacheTypeOK ==
  /\ catalog \subseteq Theaters
  /\ selection \subseteq Theaters
  /\ attempt \in {"none", "pending", "succeeded", "failed"}
  /\ paid \in BOOLEAN
  /\ appearance \in Looks
  /\ watched \in Queries
  /\ page \in Pages
  /\ data \in {"absent", "fresh", "old"}
  /\ fetch \in {"none", "asked", "fresh", "old"}
  /\ fetched \in Looks
  /\ shown \in Looks
  /\ wanted \in Looks
  /\ calls \in [Kinds -> {"none", "sent", "changed", "queued", "conflict", "refused"}]
  /\ notice \in BOOLEAN
  /\ excused \in BOOLEAN

\* A browser that just opened the Homepage of a Member without choices.
CacheInit ==
  /\ catalog = Theaters \ {Proposed}
  /\ selection = {}
  /\ attempt = "none"
  /\ paid \in BOOLEAN
  /\ appearance = "light"
  /\ watched \in Queries
  /\ page = "home"
  /\ data = "absent"
  /\ fetch = IF Mounted THEN "asked" ELSE "none"
  /\ fetched = "light"
  /\ shown = "light"
  /\ wanted = "light"
  /\ calls = [k \in Kinds |-> "none"]
  /\ notice = FALSE
  /\ excused = FALSE

-----------------------------------------------------------------------------
(* What the server answers.                                                *)

Quota == IF paid THEN PremiumQuota ELSE FreeQuota
ActiveCount == Cardinality(selection)
OverQuota == ActiveCount > Quota

\* GET /api/me, less the Appearance.
Profile == <<ActiveCount, Quota>>

\* GET /api/me/selection.
MyChoices == selection \intersect catalog

\* GET /api/me/selection/movies: nothing personal while over quota.
Projection == [overQuota |-> OverQuota, theaters |-> IF OverQuota THEN {} ELSE MyChoices]

\* GET /api/me/submissions: the latest attempt, the catalog and the Selection joined.
SubmissionRow ==
  IF attempt = "none" THEN <<>>
  ELSE <<attempt, Proposed \in catalog, Proposed \in selection>>

\* Whether a step changes what the server answers to the watched query.
Outdates ==
  CASE watched = Me -> Profile' # Profile
    [] watched = MySelection -> MyChoices' # MyChoices
    [] watched = SelectionMovies -> Projection' # Projection
    [] watched = MySubmissions -> SubmissionRow' # SubmissionRow

Aged(answer) == IF Outdates /\ answer = "fresh" THEN "old" ELSE answer
EntryAges == data' = Aged(data) /\ fetch' = Aged(fetch)

\* A change the browser learns nothing of: only the next fetch shows it.
Untold == excused' = (excused \/ Outdates)

\* The one add policy: an active choice again, the quota, or a new choice.
AddTo(t) == IF t \in selection \/ ActiveCount < Quota THEN selection \union {t}
            ELSE selection
AddAnswer(t) == IF t \in AddTo(t) THEN "changed" ELSE "conflict"

-----------------------------------------------------------------------------
(* The query cache.                                                        *)

\* A query that just got an observer is fetched, unless a fetch is in flight.
Navigate(p) ==
  /\ p # page
  /\ page' = p
  /\ fetch' = IF watched \in PageQueries[p] /\ fetch = "none" THEN "asked" ELSE fetch
  /\ UNCHANGED <<cacheServer, watched, data, fetched, shown, wanted, calls, notice, excused>>

WindowFocus ==
  /\ Mounted
  /\ fetch = "none"
  /\ fetch' = "asked"
  /\ UNCHANGED <<cacheServer, watched, page, data, fetched, shown, wanted, calls, notice, excused>>

\* The server reads what it answers.
FetchReads ==
  /\ fetch = "asked"
  /\ fetch' = "fresh"
  /\ fetched' = IF watched = Me THEN appearance ELSE fetched
  /\ UNCHANGED <<cacheServer, watched, page, data, shown, wanted, calls, notice, excused>>

FetchEnds ==
  /\ fetch \in {"fresh", "old"}
  /\ data' = fetch
  /\ shown' = IF watched = Me THEN fetched ELSE shown
  /\ excused' = (excused /\ (fetch = "old" \/ (watched = Me /\ fetched # appearance)))
  /\ fetch' = "none"
  /\ fetched' = "light"
  /\ UNCHANGED <<cacheServer, watched, page, wanted, calls, notice>>

\* After its retries the query shows an error, or what it had.
FetchFails ==
  /\ fetch # "none"
  /\ fetch' = "none"
  /\ fetched' = "light"
  /\ excused' = TRUE
  /\ UNCHANGED <<cacheServer, watched, page, data, shown, wanted, calls, notice>>

\* An entry without observers is dropped after five minutes.
Collect ==
  /\ ~Mounted
  /\ fetch = "none"
  /\ data' = "absent"
  /\ UNCHANGED <<cacheServer, watched, page, fetch, fetched, shown, wanted, calls, notice, excused>>

\* invalidateQueries: an observed entry is fetched again, from the start if it has
\* data; a first fetch, or one without observers, goes on as it is.
Invalidate(keys) ==
  IF \E key \in keys : Matches(key, watched)
    THEN LET restarts == Mounted /\ (fetch = "none" \/ data # "absent") IN
         /\ fetch' = IF restarts THEN "asked" ELSE fetch
         /\ fetched' = IF restarts THEN "light" ELSE fetched
         /\ excused' = (excused \/ (~restarts /\ fetch # "none"))
    ELSE UNCHANGED <<fetch, fetched, excused>>

\* A refresh that leaves the Homepage's movies out.
SelectionKeys_NoMovies == {MySelection, Me}

\* Everything a Selection write can change.
SelectionKeys == {MySelection, Me, SelectionMovies}

-----------------------------------------------------------------------------
(* Writes of this browser.                                                 *)

Send(kind) ==
  /\ kind \in KindsOf[page] \ {"appearance"}
  /\ \A k \in DisabledBy(kind) : calls[k] = "none"
  /\ Cardinality({k \in Kinds : calls[k] # "none"}) < MaxCalls
  /\ calls' = [calls EXCEPT ![kind] = "sent"]
  /\ UNCHANGED <<cacheServer, watched, page, data, fetch, fetched, shown, wanted, notice, excused>>

\* The toggle stops the fetches of ["me"] and below, and flips the cached profile.
Toggle ==
  /\ page = "home"
  /\ calls["appearance"] = "none"
  /\ Cardinality({k \in Kinds : calls[k] # "none"}) < MaxCalls
  /\ watched = Me => data # "absent"
  /\ shown' = IF watched = Me THEN Other(shown) ELSE shown
  /\ wanted' = shown'
  /\ calls' = [calls EXCEPT !["appearance"] = "sent"]
  /\ IF Matches(Me, watched) /\ fetch # "none"
       THEN fetch' = "none" /\ fetched' = "light" /\ excused' = TRUE
       ELSE UNCHANGED <<fetch, fetched, excused>>
  /\ UNCHANGED <<cacheServer, watched, page, data, notice>>

\* An add to the Selection: of a catalog card, a submission's row, or a proposal
\* whose Theater is in the catalog.
ServeAdd(kind, t) ==
  /\ t \in catalog
  /\ kind \in {"add", "submit"} \/ (kind \in {"rowAdd", "retry"} /\ t = Proposed)
  /\ selection' = AddTo(t)
  /\ calls' = [calls EXCEPT ![kind] = AddAnswer(t)]
  /\ UNCHANGED <<catalog, attempt, paid, appearance>>

ServeRemove(t) ==
  /\ selection' = selection \ {t}
  /\ calls' = [calls EXCEPT !["remove"] = "changed"]
  /\ UNCHANGED <<catalog, attempt, paid, appearance>>

\* A proposal of a Theater that is not in the catalog and not being added.
ServeSubmit(kind) ==
  /\ kind \in {"submit", "retry"}
  /\ Proposed \notin catalog
  /\ attempt # "pending"
  /\ attempt' = "pending"
  /\ calls' = [calls EXCEPT ![kind] = "queued"]
  /\ UNCHANGED <<catalog, selection, paid, appearance>>

ServeAppearance ==
  /\ appearance' = wanted
  /\ calls' = [calls EXCEPT !["appearance"] = "changed"]
  /\ UNCHANGED <<catalog, selection, attempt, paid>>

\* Rate limits, throttle, verification, an attempt under way, an error.
ServeRefuses(kind) ==
  /\ calls' = [calls EXCEPT ![kind] = "refused"]
  /\ UNCHANGED cacheServer

Serve(kind) ==
  /\ calls[kind] = "sent"
  /\ \/ \E t \in Theaters : ServeAdd(kind, t)
     \/ kind = "remove" /\ \E t \in Theaters : ServeRemove(t)
     \/ ServeSubmit(kind)
     \/ kind = "appearance" /\ ServeAppearance
     \/ ServeRefuses(kind)
  /\ EntryAges
  /\ UNCHANGED <<watched, page, fetched, shown, wanted, notice, excused>>

\* What the page that sent a write makes of its answer, wherever the Member is now.
CinemasRefresh(answer) ==
  CASE answer \in {"changed", "conflict"} -> SelectionKeys
    [] answer = "queued" -> {Me}
    [] answer = "refused" -> {}

RowRefresh(answer) ==
  IF answer = "refused" THEN {} ELSE SelectionKeys \union {MySubmissions}

Answered(kind) ==
  /\ kind # "appearance"
  /\ calls[kind] \notin {"none", "sent"}
  /\ calls' = [calls EXCEPT ![kind] = "none"]
  /\ Invalidate(IF kind \in RowControls THEN RowRefresh(calls[kind])
                                        ELSE CinemasRefresh(calls[kind]))
  /\ UNCHANGED <<cacheServer, watched, page, data, shown, wanted, notice>>

RolledBack == IF watched = Me THEN Other(wanted) ELSE shown

\* Saved, or rolled back; a fetch in flight may still bring the Appearance it read before.
AppearanceAnswered ==
  /\ calls["appearance"] \in {"changed", "refused"}
  /\ calls' = [calls EXCEPT !["appearance"] = "none"]
  /\ shown' = IF calls["appearance"] = "changed" THEN wanted ELSE RolledBack
  /\ wanted' = "light"
  /\ excused' = (excused \/ fetch # "none" \/ shown' # appearance)
  /\ UNCHANGED <<cacheServer, watched, page, data, fetch, fetched, notice>>

\* The page takes it for a failure, whatever the server did.
AnswerLost(kind) ==
  /\ calls[kind] # "none"
  /\ calls' = [calls EXCEPT ![kind] = "none"]
  /\ IF kind = "appearance" THEN shown' = RolledBack /\ wanted' = "light"
                            ELSE UNCHANGED <<shown, wanted>>
  /\ excused' = TRUE
  /\ UNCHANGED <<cacheServer, watched, page, data, fetch, fetched, notice>>

-----------------------------------------------------------------------------
(* Resolutions, and what happens elsewhere.                                *)

\* The resolution of the attempt, with its auto-add, and the notice it pushes.
Resolve(succeeds) ==
  /\ attempt = "pending"
  /\ ~notice
  /\ IF succeeds
       THEN /\ attempt' = "succeeded"
            /\ catalog' = catalog \union {Proposed}
            /\ selection' = AddTo(Proposed)
       ELSE attempt' = "failed" /\ UNCHANGED <<catalog, selection>>
  /\ notice' = TRUE
  /\ UNCHANGED <<paid, appearance>>
  /\ EntryAges
  /\ UNCHANGED <<watched, page, fetched, shown, wanted, calls, excused>>

NoticeArrives ==
  /\ notice
  /\ notice' = FALSE
  /\ Invalidate(SelectionKeys \union {MySubmissions})
  /\ UNCHANGED <<cacheServer, watched, page, data, shown, wanted, calls>>

\* The stream was down: notices are not replayed.
NoticeLost ==
  /\ notice
  /\ notice' = FALSE
  /\ excused' = TRUE
  /\ UNCHANGED <<cacheServer, watched, page, data, fetch, fetched, shown, wanted, calls>>

\* A search refused for a Selection over quota tells that the cached usage is old.
SearchOverQuota ==
  /\ page = "home"
  /\ OverQuota
  /\ Invalidate(SelectionKeys)
  /\ UNCHANGED <<cacheServer, watched, page, data, shown, wanted, calls, notice>>

\* Another device of the Member, the clock, or another Member's attempt.
Elsewhere ==
  /\ \/ \E t \in catalog : selection' \in {AddTo(t), selection \ {t}}
                           /\ UNCHANGED <<catalog, paid, appearance>>
     \/ paid' = FALSE /\ UNCHANGED <<catalog, selection, appearance>>
     \/ /\ attempt = "failed"
        /\ catalog' = catalog \union {Proposed}
        /\ UNCHANGED <<selection, paid, appearance>>
  /\ UNCHANGED attempt
  /\ EntryAges
  /\ Untold
  /\ UNCHANGED <<watched, page, fetched, shown, wanted, calls, notice>>

\* Another device's toggle.
AppearanceElsewhere ==
  /\ watched = Me
  /\ appearance' = Other(appearance)
  /\ excused' = TRUE
  /\ UNCHANGED <<catalog, selection, attempt, paid, watched, page, data, fetch, fetched,
                 shown, wanted, calls, notice>>

-----------------------------------------------------------------------------
CacheNext ==
  \/ \E p \in Pages : Navigate(p)
  \/ WindowFocus
  \/ FetchReads
  \/ FetchEnds
  \/ FetchFails
  \/ Collect
  \/ Toggle
  \/ \E kind \in Kinds : Send(kind) \/ Serve(kind) \/ Answered(kind) \/ AnswerLost(kind)
  \/ AppearanceAnswered
  \/ \E succeeds \in BOOLEAN : Resolve(succeeds)
  \/ NoticeArrives
  \/ NoticeLost
  \/ SearchOverQuota
  \/ Elsewhere
  \/ AppearanceElsewhere

CacheSpec == CacheInit /\ [][CacheNext]_cacheVars

-----------------------------------------------------------------------------
(* Properties.                                                             *)

AtRest == fetch = "none" /\ ~notice /\ \A k \in Kinds : calls[k] = "none"

\* Once nothing is in flight, a page shows what the server would answer: every
\* write this browser had answered and every notice it got is on the screen,
\* whichever page the Member went to meanwhile.  Excused is what nothing told the
\* browser of, and an invalidation that met a fetch it does not restart.
ScreenIsCurrent ==
  AtRest /\ Mounted /\ ~excused =>
    /\ data = "fresh"
    /\ watched = Me => shown = appearance

\* What every step preserves.
CacheInv ==
  /\ CacheTypeOK
  /\ ScreenIsCurrent
  /\ selection \subseteq catalog
=============================================================================
