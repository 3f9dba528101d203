----------------------------- MODULE Programme ------------------------------
(***************************************************************************)
(* What scraping one Theater for one date writes: the movies with their    *)
(* details, the showtimes, and the weekly programme.  Several workers may  *)
(* process the same movie at once, a movie page may not answer, a batch of *)
(* showtimes may be refused, Staff may delete a Theater, and a worker may  *)
(* stop between any two statements.  A movie's director stands for the     *)
(* columns the upsert overwrites (director, screenwriters), its trailer    *)
(* for those COALESCE keeps (duration, trailer).                           *)
(***************************************************************************)
EXTENDS CinemaWeek, FiniteSets, Sequences, SequencesExt

CONSTANTS Scrapers,      \* worker processes
          Movies, Screens,
          MaxScrapes,    \* bound: dates scraped in all
          FirstDay, LastDay  \* bound: the days of the calendar that are used

ASSUME DaysAssumption == FirstDay \in Nat /\ LastDay \in Nat /\ FirstDay <= LastDay
ASSUME MaxScrapesAssumption == MaxScrapes \in Nat

VARIABLES today,      \* the UTC day
          screens,    \* the Theaters of the catalog
          movies,     \* movie -> [director, trailer] stored, or NoMovie
          showtimes,  \* <<screen, movie, day>> with a stored showtime
          programme,  \* <<screen, movie, week>> rows of weekly_programs
          task,       \* worker -> where it is in scrapeTheater
          scrapes,    \* dates scraped so far
          upset       \* history: screens deleted while being scraped

programmeVars == <<today, screens, movies, showtimes, programme, task, scrapes, upset>>
tables == <<screens, movies, showtimes, programme>>

NoMovie == [known |-> FALSE, director |-> FALSE, trailer |-> FALSE]
Details == [director : BOOLEAN, trailer : BOOLEAN]
NoTask == [at |-> "idle", screen |-> {}, left |-> <<>>, existing |-> NoMovie,
           found |-> [director |-> FALSE, trailer |-> FALSE], rows |-> {}]

ProgrammeInit == /\ today \in FirstDay .. LastDay
                 /\ screens = Screens
                 /\ movies = [m \in Movies |-> NoMovie]
                 /\ showtimes = {}
                 /\ programme = {}
                 /\ task = [w \in Scrapers |-> NoTask]
                 /\ scrapes = 0
                 /\ upset = {}

------------------------------------------------------------------------------
(* parseShowtimesJson: what a listing holds, movie by movie.                *)

\* One movie of a listing: its showtimes fall on the date asked for or, after
\* midnight, on the next one; credits may name the director.  A showtime's id
\* is its theater, movie, day, time, version and format, so that two screens
\* that show a movie at the same time collide: the batch is then refused.
Listed == [movie : Movies, day : {0, 1}, director : BOOLEAN, collides : BOOLEAN]

Current(w) == Head(task[w].left)

StartScrape(w, s, day, listing) ==
    /\ task[w].at = "idle"
    /\ scrapes < MaxScrapes
    /\ scrapes' = scrapes + 1
    /\ task' = [task EXCEPT ![w] = [NoTask EXCEPT
           !.at = IF listing = <<>> THEN "store" ELSE "read", !.screen = {s},
           !.left = [i \in DOMAIN listing |-> [listing[i] EXCEPT !.day = day + @]]]]
    /\ UNCHANGED <<today, tables, upset>>

------------------------------------------------------------------------------
(* processMovieShowtimes, statement by statement.                           *)

\* getMovie, then shouldRefreshMovieDetails: a movie with all its details
\* takes them from the row read, any other waits for its page.
ReadExisting(w) ==
    LET row == movies[Current(w).movie]
        complete == row.director /\ row.trailer
    IN  /\ task[w].at = "read"
        /\ task' = [task EXCEPT ![w].existing = row,
                                ![w].found = IF complete THEN [director |-> TRUE, trailer |-> TRUE]
                                             ELSE [director |-> Current(w).director, trailer |-> FALSE],
                                ![w].at = IF complete THEN "upsert" ELSE "page"]
        /\ UNCHANGED <<today, tables, scrapes, upset>>

\* Without the fallback of the overwritten columns.
Completed_NoFallback(found, page, existing) ==
    [director |-> found.director \/ page.director,
     trailer |-> found.trailer \/ page.trailer \/ existing.trailer]

\* applyMovieDetails, then applyExistingFallback.
Completed(found, page, existing) ==
    [director |-> found.director \/ page.director \/ existing.director,
     trailer |-> found.trailer \/ page.trailer \/ existing.trailer]

\* refreshMovieDetails: the page may give less than the row has, or nothing
\* (every error is swallowed, a rate limit too).
FetchPage(w, page) ==
    /\ task[w].at = "page"
    /\ task' = [task EXCEPT ![w].found = Completed(@, page, task[w].existing), ![w].at = "upsert"]
    /\ UNCHANGED <<today, tables, scrapes, upset>>

\* ON CONFLICT: the director is overwritten, the trailer coalesced.
Upserted(row, found) == [known |-> TRUE, director |-> found.director, trailer |-> found.trailer \/ row.trailer]

UpsertMovie(w) ==
    LET m == Current(w).movie IN
    /\ task[w].at = "upsert"
    /\ movies' = [movies EXCEPT ![m] = Upserted(@, task[w].found)]
    /\ task' = [task EXCEPT ![w].at = "showtimes"]
    /\ UNCHANGED <<today, screens, showtimes, programme, scrapes, upset>>

NextMovie(w) == [task[w] EXCEPT !.left = Tail(@), !.at = IF Len(task[w].left) = 1 THEN "store" ELSE "read"]

\* The batch is one statement: two rows with one id, or a Theater that is no
\* longer there, refuse all of it.
BatchRefused(w) == Current(w).collides \/ ~(task[w].screen \subseteq screens)

\* The bug: the week is kept although the batch was refused.
Programmed_Anyway(w) == {<<Current(w).movie, WeekStart(Current(w).day)>>}

\* The movie then fails alone; its week is that of its first showtime.
Programmed(w) == IF BatchRefused(w) THEN {} ELSE {<<Current(w).movie, WeekStart(Current(w).day)>>}

UpsertShowtimes(w) ==
    /\ task[w].at = "showtimes"
    /\ showtimes' = IF BatchRefused(w) THEN showtimes
                    ELSE showtimes \union {<<s, Current(w).movie, Current(w).day>> : s \in task[w].screen}
    /\ task' = [task EXCEPT ![w] = [NextMovie(w) EXCEPT !.rows = @ \union Programmed(w)]]
    /\ UNCHANGED <<today, screens, movies, programme, scrapes, upset>>

\* Any statement of one movie may fail: the loop goes on with the next one.
MovieFails(w) == /\ task[w].at \in {"read", "upsert", "showtimes"}
                 /\ task' = [task EXCEPT ![w] = NextMovie(w)]
                 /\ UNCHANGED <<today, tables, scrapes, upset>>

\* upsertWeeklyPrograms, once for the date: with no row nothing is sent; a
\* missing Theater or a failure ends the date with an error.
StoreProgramme(w) ==
    /\ task[w].at = "store"
    /\ \/ /\ task[w].screen \subseteq screens
          /\ programme' = programme \union {<<s, r[1], r[2]>> : s \in task[w].screen, r \in task[w].rows}
       \/ UNCHANGED programme
    /\ task' = [task EXCEPT ![w] = NoTask]
    /\ UNCHANGED <<today, screens, movies, showtimes, scrapes, upset>>

\* The worker's process stops; what it has written stays.
ScraperStops(w) == /\ task[w].at # "idle"
                   /\ task' = [task EXCEPT ![w] = NoTask]
                   /\ UNCHANGED <<today, tables, scrapes, upset>>

------------------------------------------------------------------------------
(* The catalog: deletion cascades, a Theater may be added again.            *)

DeleteScreen(s) == /\ s \in screens
                   /\ screens' = screens \ {s}
                   /\ showtimes' = {x \in showtimes : x[1] # s}
                   /\ programme' = {x \in programme : x[1] # s}
                   /\ upset' = IF \E w \in Scrapers : s \in task[w].screen THEN upset \union {s} ELSE upset
                   /\ UNCHANGED <<today, movies, task, scrapes>>

AddScreen(s) == /\ s \notin screens
                /\ screens' = screens \union {s}
                /\ UNCHANGED <<today, movies, showtimes, programme, task, scrapes, upset>>

\* Bound: a listing has at most two movies, the first of which is then one
\* whose batch is refused.
Listings == {<<>>} \union {<<x>> : x \in Listed}
            \union {<<x, y>> : x \in {x \in Listed : x.collides /\ ~x.director /\ x.day = 0},
                              y \in {y \in Listed : ~y.collides /\ ~y.director}}

ProgrammeNext ==
    \/ \E w \in Scrapers, s \in Screens, l \in Listings : StartScrape(w, s, today, l)
    \/ \E w \in Scrapers : \/ ReadExisting(w) \/ UpsertMovie(w) \/ UpsertShowtimes(w)
                           \/ MovieFails(w) \/ StoreProgramme(w) \/ ScraperStops(w)
                           \/ \E page \in Details : FetchPage(w, page)
    \/ \E s \in Screens : DeleteScreen(s) \/ AddScreen(s)

ProgrammeSpec == ProgrammeInit /\ [][ProgrammeNext]_programmeVars

------------------------------------------------------------------------------
(* Properties.                                                              *)

\* A trailer once stored never goes.  A director goes only when the worker
\* that writes had read the row before the director was stored, that is, when
\* two workers processed the movie at once (AllocineScraperStrategy.ts:54-119,
\* movie-queries.ts of the scraper:126-143).
KnownDetailsStay ==
    [][\A m \in Movies :
         /\ movies[m].trailer => movies'[m].trailer
         /\ movies[m].director /\ ~movies'[m].director =>
                \E w \in Scrapers : /\ task[w].at = "upsert" /\ Current(w).movie = m
                                    /\ ~task[w].existing.director]_programmeVars

\* A movie is in a Theater's weekly programme only with a showtime there in
\* that week, refused batches and stopped workers notwithstanding; unless the
\* Theater was deleted under a scrape (AllocineScraperStrategy.ts:115-127,
\* 203-219).
ProgrammeHasShowtimes ==
    \A x \in programme : \/ x[1] \in upset
                         \/ \E y \in showtimes : y[1] = x[1] /\ y[2] = x[2] /\ WeekStart(y[3]) = x[3]

\* Rows refer to rows; what a worker is about to write for the week is stored.
ProgrammeInv == /\ showtimes \subseteq screens \X Movies \X (FirstDay .. LastDay + 1)
                /\ \A x \in showtimes : movies[x[2]].known
                /\ \A x \in programme : x[1] \in screens /\ movies[x[2]].known
                /\ \A w \in Scrapers : \A s \in task[w].screen \ upset, r \in task[w].rows :
                      \E y \in showtimes : y[1] = s /\ y[2] = r[1] /\ WeekStart(y[3]) = r[2]
=============================================================================
