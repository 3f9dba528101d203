-------------------------- MODULE ProgrammeProofs ---------------------------
(***************************************************************************)
(* Proofs about Programme and CinemaWeek, for any number of workers, any   *)
(* movies and Theaters, and any stretch of the calendar.                   *)
(***************************************************************************)
EXTENDS Programme, SequenceTheorems, TLAPS

Row == [known : BOOLEAN, director : BOOLEAN, trailer : BOOLEAN]
Entry == [movie : Movies, day : Nat, director : BOOLEAN, collides : BOOLEAN]
TaskPlaces == {"idle", "read", "page", "upsert", "showtimes", "store"}
Task == [at : TaskPlaces, screen : SUBSET Screens, left : Seq(Entry), existing : Row, found : Details,
         rows : SUBSET (Movies \X Int)]

------------------------------------------------------------------------------
(* The inductive invariant.                                                 *)

ProgrammeTypeOK == /\ today \in Nat
                   /\ movies \in [Movies -> Row]
                   /\ task \in [Scrapers -> Task]

\* A worker between two statements of a movie has that movie at hand, and the
\* details it is about to write include the director it has read.
AtHand == \A w \in Scrapers :
            /\ task[w].at \in {"read", "page", "upsert", "showtimes"} => task[w].left # <<>>
            /\ task[w].at = "upsert" /\ task[w].existing.director => task[w].found.director

\* What a worker is about to write for the week has a showtime stored.
RowsStored == \A w \in Scrapers : \A s \in task[w].screen \ upset, r \in task[w].rows :
                \E y \in showtimes : y[1] = s /\ y[2] = r[1] /\ WeekStart(y[3]) = r[2]

ProgrammeIInv == ProgrammeTypeOK /\ AtHand /\ RowsStored /\ ProgrammeHasShowtimes

------------------------------------------------------------------------------
(* Lemmas about the operators.                                              *)

\* The week of a day is a day (getWeekStartForDate).
LEMMA WeekIsDay == ASSUME NEW day \in Nat PROVE WeekStart(day) \in Int
BY DEF WeekStart, DayOfWeek

\* A worker at a movie: the movie is the head of what is left, and the rest is
\* again a list of movies.
LEMMA HeadTail ==
  ASSUME NEW l \in Seq(Entry), l # <<>>
  PROVE  Head(l) \in Entry /\ Tail(l) \in Seq(Entry) /\ (Len(l) # 1 => Tail(l) # <<>>)
<1>1. /\ Head(l) \in Entry /\ Tail(l) \in Seq(Entry)
      /\ Len(Tail(l)) = Len(l) - 1 /\ Len(l) \in Nat /\ Len(l) # 0
  BY HeadTailProperties, EmptySeq, LenProperties
<1>2. Len(l) # 1 => Len(Tail(l)) # 0
  BY <1>1
<1> QED BY <1>1, <1>2, EmptySeq

\* applyMovieDetails and applyExistingFallback never lose a director that was read.
LEMMA FallbackKeeps ==
  ASSUME NEW found \in Details, NEW page \in Details, NEW existing \in Row
  PROVE  /\ Completed(found, page, existing) \in Details
         /\ existing.director => Completed(found, page, existing).director
<1> DEFINE d == found.director \/ page.director \/ existing.director
           t == found.trailer \/ page.trailer \/ existing.trailer
<1>1. d \in BOOLEAN /\ t \in BOOLEAN /\ (existing.director => d)
  BY DEF Details, Row
<1>2. Completed(found, page, existing) = [director |-> d, trailer |-> t]
  BY DEF Completed
<1> HIDE DEF d, t
<1> QED BY <1>1, <1>2 DEF Details

\* The upsert writes the director found and never loses a trailer.
LEMMA UpsertKeeps ==
  ASSUME NEW row \in Row, NEW found \in Details
  PROVE  /\ Upserted(row, found) \in Row
         /\ Upserted(row, found).director = found.director
         /\ row.trailer => Upserted(row, found).trailer
<1> DEFINE t == found.trailer \/ row.trailer
<1>1. t \in BOOLEAN /\ (row.trailer => t)
  BY DEF Details, Row
<1>2. Upserted(row, found) = [known |-> TRUE, director |-> found.director, trailer |-> t]
  BY DEF Upserted
<1> HIDE DEF t
<1> QED BY <1>1, <1>2 DEF Row, Details

\* A listing is a list of at most two movies.
LEMMA ListingList ==
  ASSUME NEW listing \in Listings
  PROVE  listing \in Seq(Listed)
<1>1. CASE listing = <<>>
  BY <1>1
<1>2. ASSUME NEW x \in Listed, listing = <<x>>
      PROVE  listing \in Seq(Listed)
  BY <1>2
<1>3. ASSUME NEW x \in Listed, NEW y \in Listed, listing = <<x, y>>
      PROVE  listing \in Seq(Listed)
  BY <1>3
<1>4. \/ listing = <<>> \/ \E x \in Listed : listing = <<x>>
      \/ \E x \in Listed, y \in Listed : listing = <<x, y>>
  <2> DEFINE First == {x \in Listed : x.collides /\ ~x.director /\ x.day = 0}
             Second == {y \in Listed : ~y.collides /\ ~y.director}
  <2>1. Listings = {<<>>} \union {<<x>> : x \in Listed} \union {<<x, y>> : x \in First, y \in Second}
    BY DEF Listings
  <2>2. First \subseteq Listed /\ Second \subseteq Listed
    OBVIOUS
  <2> HIDE DEF First, Second
  <2> QED BY <2>1, <2>2
<1> QED BY <1>1, <1>2, <1>3, <1>4

\* The days of a listing become days of the calendar.
LEMMA ListingDays ==
  ASSUME NEW listing \in Listings, NEW day \in Nat
  PROVE  LET left == [i \in DOMAIN listing |-> [listing[i] EXCEPT !.day = day + @]]
         IN  left \in Seq(Entry) /\ (listing # <<>> => left # <<>>)
<1> DEFINE left == [i \in DOMAIN listing |-> [listing[i] EXCEPT !.day = day + @]]
<1>1. listing \in Seq(Listed)
  BY ListingList
<1>2. \A i \in 1 .. Len(listing) : [listing[i] EXCEPT !.day = day + @] \in Entry
  <2> TAKE i \in 1 .. Len(listing)
  <2>1. listing[i] \in Listed
    BY <1>1
  <2> QED BY <2>1 DEF Listed, Entry
<1>3. DOMAIN listing = 1 .. Len(listing) /\ Len(listing) \in Nat /\ (listing # <<>> => Len(listing) # 0)
  BY <1>1
<1>4. left \in [1 .. Len(listing) -> Entry]
  BY <1>2, <1>3
<1>5. left \in Seq(Entry) /\ Len(left) = Len(listing)
  BY <1>3, <1>4
<1> QED BY <1>3, <1>5

------------------------------------------------------------------------------
(* Every step preserves the invariant.  In each of the actions of a worker  *)
(* one task changes.                                                        *)

\* The invariant holds while nothing has been scraped.
LEMMA ProgrammeStarts == ProgrammeInit => ProgrammeIInv
<1> SUFFICES ASSUME ProgrammeInit PROVE ProgrammeIInv
  OBVIOUS
<1>1. NoMovie \in Row /\ NoTask \in Task
  BY DEF NoMovie, NoTask, Row, Task, TaskPlaces, Details
<1>2. ProgrammeTypeOK
  BY <1>1, DaysAssumption DEF ProgrammeInit, ProgrammeTypeOK, DaysAssumption
<1>3. AtHand /\ RowsStored
  BY DEF ProgrammeInit, AtHand, RowsStored, NoTask
<1>4. ProgrammeHasShowtimes
  BY DEF ProgrammeInit, ProgrammeHasShowtimes
<1> QED BY <1>2, <1>3, <1>4 DEF ProgrammeIInv

\* A worker that comes to stand at a movie, or nowhere, with rows that are stored.
LEMMA WorkerMoves ==
  ASSUME ProgrammeIInv, NEW w \in Scrapers, NEW t \in Task, task' = [task EXCEPT ![w] = t],
         today' = today, movies' \in [Movies -> Row], showtimes \subseteq showtimes',
         programme' = programme, upset' = upset,
         t.at \in {"read", "page", "upsert", "showtimes"} => t.left # <<>>,
         t.at = "upsert" /\ t.existing.director => t.found.director,
         \A s \in t.screen \ upset, r \in t.rows :
           \E y \in showtimes' : y[1] = s /\ y[2] = r[1] /\ WeekStart(y[3]) = r[2]
  PROVE  ProgrammeIInv'
<1>1. /\ task \in [Scrapers -> Task] /\ task' \in [Scrapers -> Task]
      /\ task'[w] = t /\ \A v \in Scrapers \ {w} : task'[v] = task[v]
  BY DEF ProgrammeIInv, ProgrammeTypeOK
<1>2. ProgrammeTypeOK'
  BY <1>1 DEF ProgrammeIInv, ProgrammeTypeOK
<1>3. AtHand'
  BY <1>1 DEF ProgrammeIInv, AtHand
<1>4. RowsStored'
  <2> SUFFICES ASSUME NEW v \in Scrapers, NEW s \in task'[v].screen \ upset, NEW r \in task'[v].rows
               PROVE  \E y \in showtimes' : y[1] = s /\ y[2] = r[1] /\ WeekStart(y[3]) = r[2]
    BY DEF RowsStored
  <2>1. CASE v = w
    BY <2>1, <1>1
  <2>2. CASE v # w
    BY <2>2, <1>1 DEF ProgrammeIInv, RowsStored
  <2> QED BY <2>1, <2>2
<1>5. ProgrammeHasShowtimes'
  BY DEF ProgrammeIInv, ProgrammeHasShowtimes
<1> QED BY <1>2, <1>3, <1>4, <1>5 DEF ProgrammeIInv

\* A Theater's listing for a date arrives.
LEMMA StartScrapeKeeps ==
  ASSUME ProgrammeIInv, NEW w \in Scrapers, NEW s \in Screens, NEW l \in Listings, StartScrape(w, s, today, l)
  PROVE  ProgrammeIInv'
<1> DEFINE left == [i \in DOMAIN l |-> [l[i] EXCEPT !.day = today + @]]
           at == IF l = <<>> THEN "store" ELSE "read"
           t == [NoTask EXCEPT !.at = at, !.screen = {s}, !.left = left]
<1>1. left \in Seq(Entry) /\ (l # <<>> => left # <<>>)
  BY ListingDays DEF ProgrammeIInv, ProgrammeTypeOK
<1>2. task' = [task EXCEPT ![w] = t]
  BY DEF StartScrape
<1> HIDE DEF left
<1>3. t \in Task /\ t.at = at /\ t.left = left /\ t.rows = {}
  BY <1>1 DEF NoTask, NoMovie, Task, TaskPlaces, Row, Details
<1>4. /\ today' = today /\ movies' = movies /\ showtimes' = showtimes
      /\ programme' = programme /\ upset' = upset
  BY DEF StartScrape, tables
<1>5. movies \in [Movies -> Row] /\ (at = "read" => l # <<>>) /\ at \in {"read", "store"}
  BY DEF ProgrammeIInv, ProgrammeTypeOK
<1> HIDE DEF t, at
<1> QED BY <1>1, <1>2, <1>3, <1>4, <1>5, WorkerMoves

\* The row of the movie is read.
LEMMA ReadExistingKeeps ==
  ASSUME ProgrammeIInv, NEW w \in Scrapers, ReadExisting(w)
  PROVE  ProgrammeIInv'
<1> DEFINE row == movies[Current(w).movie]
           complete == row.director /\ row.trailer
           found == IF complete THEN [director |-> TRUE, trailer |-> TRUE]
                    ELSE [director |-> Current(w).director, trailer |-> FALSE]
           at == IF complete THEN "upsert" ELSE "page"
           t == [task[w] EXCEPT !.existing = row, !.found = found, !.at = at]
<1>1. task[w] \in Task /\ task[w].left # <<>> /\ movies \in [Movies -> Row]
  BY DEF ProgrammeIInv, ProgrammeTypeOK, AtHand, ReadExisting
<1>2. Current(w) \in Entry
  BY <1>1, HeadTail DEF Current, Task
<1>3. row \in Row /\ found \in Details /\ at \in {"upsert", "page"} /\ (at = "upsert" => found.director)
  BY <1>1, <1>2 DEF Entry, Details
<1>4. task' = [task EXCEPT ![w].existing = row, ![w].found = found, ![w].at = at]
  BY DEF ReadExisting
<1> HIDE DEF row, found, at
<1>5. task' = [task EXCEPT ![w] = t]
  BY <1>4, <1>1 DEF Task, ProgrammeIInv, ProgrammeTypeOK
<1>6. /\ t \in Task /\ t.at = at /\ t.left = task[w].left /\ t.rows = task[w].rows
      /\ t.screen = task[w].screen /\ t.found = found
  BY <1>1, <1>3 DEF Task, TaskPlaces
<1>7. /\ today' = today /\ movies' = movies /\ showtimes' = showtimes
      /\ programme' = programme /\ upset' = upset
  BY DEF ReadExisting, tables
<1>8. \A s \in task[w].screen \ upset, r \in task[w].rows :
        \E y \in showtimes' : y[1] = s /\ y[2] = r[1] /\ WeekStart(y[3]) = r[2]
  BY <1>7 DEF ProgrammeIInv, RowsStored
<1> HIDE DEF t
<1>9. /\ t.at \in {"read", "page", "upsert", "showtimes"} => t.left # <<>>
      /\ t.at = "upsert" /\ t.existing.director => t.found.director
      /\ showtimes \subseteq showtimes' /\ movies' \in [Movies -> Row]
      /\ \A s \in t.screen \ upset, r \in t.rows :
           \E y \in showtimes' : y[1] = s /\ y[2] = r[1] /\ WeekStart(y[3]) = r[2]
  BY <1>1, <1>3, <1>6, <1>7, <1>8
<1> QED BY <1>5, <1>6, <1>7, <1>9, WorkerMoves

\* The movie page answers, with what it has.
LEMMA FetchPageKeeps ==
  ASSUME ProgrammeIInv, NEW w \in Scrapers, NEW page \in Details, FetchPage(w, page)
  PROVE  ProgrammeIInv'
<1> DEFINE found == Completed(task[w].found, page, task[w].existing)
           t == [task[w] EXCEPT !.found = found, !.at = "upsert"]
<1>1. task[w] \in Task /\ task[w].left # <<>> /\ movies \in [Movies -> Row] /\ task \in [Scrapers -> Task]
  BY DEF ProgrammeIInv, ProgrammeTypeOK, AtHand, FetchPage
<1>2. found \in Details /\ (task[w].existing.director => found.director)
  BY <1>1, FallbackKeeps DEF Task
<1>3. task' = [task EXCEPT ![w].found = found, ![w].at = "upsert"]
  BY <1>1 DEF FetchPage, Task
<1> HIDE DEF found
<1>4. task' = [task EXCEPT ![w] = t]
  BY <1>3, <1>1 DEF Task
<1>5. /\ t \in Task /\ t.at = "upsert" /\ t.left = task[w].left /\ t.rows = task[w].rows
      /\ t.screen = task[w].screen /\ t.found = found /\ t.existing = task[w].existing
  BY <1>1, <1>2 DEF Task, TaskPlaces
<1>6. /\ today' = today /\ movies' = movies /\ showtimes' = showtimes
      /\ programme' = programme /\ upset' = upset
  BY DEF FetchPage, tables
<1>7. \A s \in task[w].screen \ upset, r \in task[w].rows :
        \E y \in showtimes' : y[1] = s /\ y[2] = r[1] /\ WeekStart(y[3]) = r[2]
  BY <1>6 DEF ProgrammeIInv, RowsStored
<1> HIDE DEF t
<1>8. /\ t.at \in {"read", "page", "upsert", "showtimes"} => t.left # <<>>
      /\ t.at = "upsert" /\ t.existing.director => t.found.director
      /\ showtimes \subseteq showtimes' /\ movies' \in [Movies -> Row]
      /\ \A s \in t.screen \ upset, r \in t.rows :
           \E y \in showtimes' : y[1] = s /\ y[2] = r[1] /\ WeekStart(y[3]) = r[2]
  BY <1>1, <1>2, <1>5, <1>6, <1>7
<1> QED BY <1>4, <1>5, <1>6, <1>8, WorkerMoves

\* The movie's row is written: only that movie, and only a director that the
\* worker had not read can go.
LEMMA UpsertMovieWrites ==
  ASSUME ProgrammeIInv, NEW w \in Scrapers, UpsertMovie(w)
  PROVE  /\ movies \in [Movies -> Row] /\ movies' \in [Movies -> Row]
         /\ task[w] \in Task /\ Current(w).movie \in Movies
         /\ task[w].existing.director => task[w].found.director
         /\ movies'[Current(w).movie].director = task[w].found.director
         /\ movies[Current(w).movie].trailer => movies'[Current(w).movie].trailer
         /\ \A m \in Movies \ {Current(w).movie} : movies'[m] = movies[m]
<1>1. task[w] \in Task /\ task[w].left # <<>> /\ movies \in [Movies -> Row]
  BY DEF ProgrammeIInv, ProgrammeTypeOK, AtHand, UpsertMovie
<1>2. Current(w).movie \in Movies
  BY <1>1, HeadTail DEF Current, Task, Entry
<1>3. task[w].existing.director => task[w].found.director
  BY DEF ProgrammeIInv, AtHand, UpsertMovie
<1> DEFINE m == Current(w).movie
           u == Upserted(movies[m], task[w].found)
<1>4. u \in Row /\ u.director = task[w].found.director /\ (movies[m].trailer => u.trailer)
  BY <1>1, <1>2, UpsertKeeps DEF Task
<1>5. movies' = [movies EXCEPT ![m] = u]
  BY <1>1, <1>2 DEF UpsertMovie
<1> HIDE DEF u, m
<1>6. m = Current(w).movie
  BY DEF m
<1> QED BY <1>1, <1>2, <1>3, <1>4, <1>5, <1>6

\* The movie's row is written, and the worker goes on to its showtimes.
LEMMA UpsertMovieKeeps ==
  ASSUME ProgrammeIInv, NEW w \in Scrapers, UpsertMovie(w)
  PROVE  ProgrammeIInv'
<1> DEFINE t == [task[w] EXCEPT !.at = "showtimes"]
<1>1. task[w] \in Task /\ task[w].left # <<>> /\ task \in [Scrapers -> Task]
  BY DEF ProgrammeIInv, ProgrammeTypeOK, AtHand, UpsertMovie
<1>2. task' = [task EXCEPT ![w] = t]
  BY <1>1 DEF UpsertMovie, Task
<1>3. /\ t \in Task /\ t.at = "showtimes" /\ t.left = task[w].left /\ t.rows = task[w].rows
      /\ t.screen = task[w].screen
  BY <1>1 DEF Task, TaskPlaces
<1>4. /\ today' = today /\ showtimes' = showtimes /\ programme' = programme /\ upset' = upset
  BY DEF UpsertMovie
<1>5. \A s \in task[w].screen \ upset, r \in task[w].rows :
        \E y \in showtimes' : y[1] = s /\ y[2] = r[1] /\ WeekStart(y[3]) = r[2]
  BY <1>4 DEF ProgrammeIInv, RowsStored
<1> HIDE DEF t
<1>6. /\ t.at \in {"read", "page", "upsert", "showtimes"} => t.left # <<>>
      /\ t.at = "upsert" /\ t.existing.director => t.found.director
      /\ showtimes \subseteq showtimes' /\ movies' \in [Movies -> Row]
      /\ \A s \in t.screen \ upset, r \in t.rows :
           \E y \in showtimes' : y[1] = s /\ y[2] = r[1] /\ WeekStart(y[3]) = r[2]
  BY <1>1, <1>3, <1>4, <1>5, UpsertMovieWrites
<1> QED BY <1>2, <1>3, <1>4, <1>6, WorkerMoves

\* The worker goes on with the next movie, or with the programme.
LEMMA GoesOn ==
  ASSUME ProgrammeIInv, NEW w \in Scrapers, task[w].at \in {"read", "upsert", "showtimes"}
  PROVE  /\ NextMovie(w) \in Task /\ task[w] \in Task /\ task[w].left # <<>>
         /\ NextMovie(w).at \in {"read", "store"}
         /\ NextMovie(w).at = "read" => NextMovie(w).left # <<>>
         /\ NextMovie(w).screen = task[w].screen /\ NextMovie(w).rows = task[w].rows
<1> DEFINE l == Tail(task[w].left)
           at == IF Len(task[w].left) = 1 THEN "store" ELSE "read"
<1>1. task[w] \in Task /\ task[w].left # <<>> /\ task[w].left \in Seq(Entry)
  BY DEF ProgrammeIInv, ProgrammeTypeOK, AtHand, Task
<1>2. l \in Seq(Entry) /\ at \in {"read", "store"} /\ (at = "read" => l # <<>>)
  BY <1>1, HeadTail
<1>3. NextMovie(w) = [task[w] EXCEPT !.left = l, !.at = at]
  BY <1>1 DEF NextMovie, Task
<1> HIDE DEF l, at
<1> QED BY <1>1, <1>2, <1>3 DEF Task, TaskPlaces

\* The batch of a movie's showtimes is stored or refused, and its week noted or not.
LEMMA UpsertShowtimesKeeps ==
  ASSUME ProgrammeIInv, NEW w \in Scrapers, UpsertShowtimes(w)
  PROVE  ProgrammeIInv'
<1> DEFINE rows == NextMovie(w).rows \union Programmed(w)
           t == [NextMovie(w) EXCEPT !.rows = rows]
<1>1. /\ NextMovie(w) \in Task /\ task[w] \in Task /\ task[w].left # <<>>
      /\ NextMovie(w).at \in {"read", "store"}
      /\ NextMovie(w).at = "read" => NextMovie(w).left # <<>>
      /\ NextMovie(w).screen = task[w].screen /\ NextMovie(w).rows = task[w].rows
  BY GoesOn DEF UpsertShowtimes
<1>2. Current(w) \in Entry /\ Current(w).movie \in Movies /\ WeekStart(Current(w).day) \in Int
  BY <1>1, HeadTail, WeekIsDay DEF Current, Task, Entry
<1>3. Programmed(w) \subseteq Movies \X Int
  BY <1>2 DEF Programmed
<1>4. rows \in SUBSET (Movies \X Int)
  BY <1>1, <1>3 DEF Task
<1>5. task' = [task EXCEPT ![w] = t]
  BY DEF UpsertShowtimes
<1>6. \A s \in task[w].screen \ upset, r \in task[w].rows :
        \E y \in showtimes : y[1] = s /\ y[2] = r[1] /\ WeekStart(y[3]) = r[2]
  BY DEF ProgrammeIInv, RowsStored
<1>7. showtimes \subseteq showtimes'
  BY DEF UpsertShowtimes
<1>8. \A s \in task[w].screen, r \in Programmed(w) :
        \E y \in showtimes' : y[1] = s /\ y[2] = r[1] /\ WeekStart(y[3]) = r[2]
  <2> SUFFICES ASSUME NEW s \in task[w].screen, NEW r \in Programmed(w)
               PROVE  \E y \in showtimes' : y[1] = s /\ y[2] = r[1] /\ WeekStart(y[3]) = r[2]
    OBVIOUS
  <2>1. ~BatchRefused(w) /\ r = <<Current(w).movie, WeekStart(Current(w).day)>>
    BY DEF Programmed
  <2>2. <<s, Current(w).movie, Current(w).day>> \in showtimes'
    BY <2>1 DEF UpsertShowtimes
  <2> WITNESS <<s, Current(w).movie, Current(w).day>> \in showtimes'
  <2> QED BY <2>1
<1> HIDE DEF rows
<1>9. t \in Task /\ t.at = NextMovie(w).at /\ t.left = NextMovie(w).left /\ t.rows = rows
      /\ t.screen = task[w].screen
  BY <1>1, <1>4 DEF Task
<1>10. \A s \in task[w].screen \ upset, r \in rows :
         \E y \in showtimes' : y[1] = s /\ y[2] = r[1] /\ WeekStart(y[3]) = r[2]
  BY <1>1, <1>6, <1>7, <1>8 DEF rows
<1>11. today' = today /\ movies' \in [Movies -> Row] /\ programme' = programme /\ upset' = upset
  BY DEF UpsertShowtimes, ProgrammeIInv, ProgrammeTypeOK
<1> HIDE DEF t
<1>12. /\ t.at \in {"read", "page", "upsert", "showtimes"} => t.left # <<>>
       /\ t.at = "upsert" /\ t.existing.director => t.found.director
       /\ showtimes \subseteq showtimes' /\ movies' \in [Movies -> Row]
       /\ \A s \in t.screen \ upset, r \in t.rows :
            \E y \in showtimes' : y[1] = s /\ y[2] = r[1] /\ WeekStart(y[3]) = r[2]
  BY <1>1, <1>7, <1>9, <1>10, <1>11
<1> QED BY <1>5, <1>9, <1>11, <1>12, WorkerMoves

\* A statement of a movie fails.
LEMMA MovieFailsKeeps ==
  ASSUME ProgrammeIInv, NEW w \in Scrapers, MovieFails(w)
  PROVE  ProgrammeIInv'
<1>1. /\ NextMovie(w) \in Task
      /\ NextMovie(w).at \in {"read", "store"}
      /\ NextMovie(w).at = "read" => NextMovie(w).left # <<>>
      /\ NextMovie(w).screen = task[w].screen /\ NextMovie(w).rows = task[w].rows
  BY GoesOn DEF MovieFails
<1>2. /\ task' = [task EXCEPT ![w] = NextMovie(w)] /\ today' = today /\ movies' = movies
      /\ showtimes' = showtimes /\ programme' = programme /\ upset' = upset
  BY DEF MovieFails, tables
<1>3. \A s \in task[w].screen \ upset, r \in task[w].rows :
        \E y \in showtimes' : y[1] = s /\ y[2] = r[1] /\ WeekStart(y[3]) = r[2]
  BY <1>2 DEF ProgrammeIInv, RowsStored
<1>4. movies \in [Movies -> Row]
  BY DEF ProgrammeIInv, ProgrammeTypeOK
<1> DEFINE t == NextMovie(w)
<1> HIDE DEF t
<1>5. /\ t.at \in {"read", "page", "upsert", "showtimes"} => t.left # <<>>
      /\ t.at = "upsert" /\ t.existing.director => t.found.director
      /\ showtimes \subseteq showtimes' /\ movies' \in [Movies -> Row]
      /\ \A s \in t.screen \ upset, r \in t.rows :
           \E y \in showtimes' : y[1] = s /\ y[2] = r[1] /\ WeekStart(y[3]) = r[2]
  BY <1>1, <1>2, <1>3, <1>4 DEF t
<1> QED BY <1>1, <1>2, <1>5, WorkerMoves DEF t

\* A worker without a task holds nothing.
LEMMA Rests ==
  NoTask \in Task /\ NoTask.at = "idle" /\ NoTask.rows = {}
BY DEF NoTask, NoMovie, Task, TaskPlaces, Row, Details

\* The programme of the date is stored, or the date fails.
LEMMA StoreProgrammeKeeps ==
  ASSUME ProgrammeIInv, NEW w \in Scrapers, StoreProgramme(w)
  PROVE  ProgrammeIInv'
<1>1. /\ task \in [Scrapers -> Task] /\ task' = [task EXCEPT ![w] = NoTask]
      /\ today' = today /\ movies' = movies /\ showtimes' = showtimes /\ upset' = upset
  BY DEF StoreProgramme, ProgrammeIInv, ProgrammeTypeOK
<1>2. /\ task' \in [Scrapers -> Task]
      /\ task'[w] = NoTask /\ \A v \in Scrapers \ {w} : task'[v] = task[v]
  BY <1>1, Rests
<1>3. ProgrammeTypeOK'
  BY <1>1, <1>2 DEF ProgrammeIInv, ProgrammeTypeOK
<1>4. AtHand'
  BY <1>2, Rests DEF ProgrammeIInv, AtHand
<1>5. RowsStored'
  BY <1>1, <1>2, Rests DEF ProgrammeIInv, RowsStored
<1>6. ProgrammeHasShowtimes'
  <2> SUFFICES ASSUME NEW x \in programme', x[1] \notin upset
               PROVE  \E y \in showtimes : y[1] = x[1] /\ y[2] = x[2] /\ WeekStart(y[3]) = x[3]
    BY <1>1 DEF ProgrammeHasShowtimes
  <2>1. CASE x \in programme
    BY <2>1 DEF ProgrammeIInv, ProgrammeHasShowtimes
  <2>2. CASE x \notin programme
    <3>1. PICK s \in task[w].screen, r \in task[w].rows : x = <<s, r[1], r[2]>>
      BY <2>2 DEF StoreProgramme
    <3>2. x[1] = s /\ x[2] = r[1] /\ x[3] = r[2] /\ s \in task[w].screen \ upset
      BY <3>1
    <3> QED BY <3>2 DEF ProgrammeIInv, RowsStored
  <2> QED BY <2>1, <2>2
<1> QED BY <1>3, <1>4, <1>5, <1>6 DEF ProgrammeIInv

\* The process of a worker stops.
LEMMA ScraperStopsKeeps ==
  ASSUME ProgrammeIInv, NEW w \in Scrapers, ScraperStops(w)
  PROVE  ProgrammeIInv'
<1>1. /\ task' = [task EXCEPT ![w] = NoTask] /\ today' = today /\ movies' = movies
      /\ showtimes' = showtimes /\ programme' = programme /\ upset' = upset
  BY DEF ScraperStops, tables
<1>2. movies \in [Movies -> Row]
  BY DEF ProgrammeIInv, ProgrammeTypeOK
<1> QED BY <1>1, <1>2, Rests, WorkerMoves

\* A Theater is deleted, with its showtimes and its programme, under whatever scrape.
LEMMA DeleteScreenKeeps ==
  ASSUME ProgrammeIInv, NEW s \in Screens, DeleteScreen(s)
  PROVE  ProgrammeIInv'
<1> USE DEF DeleteScreen, ProgrammeIInv
<1>1. ProgrammeTypeOK'
  BY DEF ProgrammeTypeOK
<1>2. AtHand'
  BY DEF AtHand
<1>3. RowsStored'
  <2> SUFFICES ASSUME NEW v \in Scrapers, NEW x \in task[v].screen \ upset', NEW r \in task[v].rows
               PROVE  \E y \in showtimes' : y[1] = x /\ y[2] = r[1] /\ WeekStart(y[3]) = r[2]
    BY DEF RowsStored
  <2>1. x # s /\ x \notin upset
    OBVIOUS
  <2>2. PICK y \in showtimes : y[1] = x /\ y[2] = r[1] /\ WeekStart(y[3]) = r[2]
    BY <2>1 DEF RowsStored
  <2> QED BY <2>1, <2>2
<1>4. ProgrammeHasShowtimes'
  <2> SUFFICES ASSUME NEW x \in programme', x[1] \notin upset'
               PROVE  \E y \in showtimes' : y[1] = x[1] /\ y[2] = x[2] /\ WeekStart(y[3]) = x[3]
    BY DEF ProgrammeHasShowtimes
  <2>1. x \in programme /\ x[1] # s /\ x[1] \notin upset
    OBVIOUS
  <2>2. PICK y \in showtimes : y[1] = x[1] /\ y[2] = x[2] /\ WeekStart(y[3]) = x[3]
    BY <2>1 DEF ProgrammeHasShowtimes
  <2> QED BY <2>1, <2>2
<1> QED BY <1>1, <1>2, <1>3, <1>4

\* Every step of the workers and of the catalog preserves the invariant.
LEMMA ProgrammeSteps == ProgrammeIInv /\ [ProgrammeNext]_programmeVars => ProgrammeIInv'
<1> SUFFICES ASSUME ProgrammeIInv, [ProgrammeNext]_programmeVars PROVE ProgrammeIInv'
  OBVIOUS
<1>1. ASSUME NEW w \in Scrapers, NEW s \in Screens, NEW l \in Listings, StartScrape(w, s, today, l)
      PROVE  ProgrammeIInv'
  BY <1>1, StartScrapeKeeps
<1>2. ASSUME NEW w \in Scrapers, ReadExisting(w)
      PROVE  ProgrammeIInv'
  BY <1>2, ReadExistingKeeps
<1>3. ASSUME NEW w \in Scrapers, UpsertMovie(w)
      PROVE  ProgrammeIInv'
  BY <1>3, UpsertMovieKeeps
<1>4. ASSUME NEW w \in Scrapers, UpsertShowtimes(w)
      PROVE  ProgrammeIInv'
  BY <1>4, UpsertShowtimesKeeps
<1>5. ASSUME NEW w \in Scrapers, MovieFails(w)
      PROVE  ProgrammeIInv'
  BY <1>5, MovieFailsKeeps
<1>6. ASSUME NEW w \in Scrapers, StoreProgramme(w)
      PROVE  ProgrammeIInv'
  BY <1>6, StoreProgrammeKeeps
<1>7. ASSUME NEW w \in Scrapers, ScraperStops(w)
      PROVE  ProgrammeIInv'
  BY <1>7, ScraperStopsKeeps
<1>8. ASSUME NEW w \in Scrapers, NEW page \in Details, FetchPage(w, page)
      PROVE  ProgrammeIInv'
  BY <1>8, FetchPageKeeps
<1>9. ASSUME NEW s \in Screens, DeleteScreen(s)
      PROVE  ProgrammeIInv'
  BY <1>9, DeleteScreenKeeps
<1>10. ASSUME NEW s \in Screens, AddScreen(s)
       PROVE  ProgrammeIInv'
  BY <1>10 DEF AddScreen, ProgrammeIInv, ProgrammeTypeOK, AtHand, RowsStored, ProgrammeHasShowtimes
<1>11. CASE UNCHANGED programmeVars
  BY <1>11 DEF programmeVars, tables, ProgrammeIInv, ProgrammeTypeOK, AtHand, RowsStored, ProgrammeHasShowtimes
<1> QED BY <1>1, <1>2, <1>3, <1>4, <1>5, <1>6, <1>7, <1>8, <1>9, <1>10, <1>11 DEF ProgrammeNext

------------------------------------------------------------------------------
(* The theorems.                                                            *)

\* The invariant holds in every state.
LEMMA ProgrammeAlways == ProgrammeSpec => []ProgrammeIInv
BY ProgrammeStarts, ProgrammeSteps, PTL DEF ProgrammeSpec

\* A movie is in a Theater's weekly programme only with a showtime there in that
\* week, whatever batches are refused and whatever workers stop.
THEOREM ProgrammeShown == ProgrammeSpec => []ProgrammeHasShowtimes
<1>1. ProgrammeIInv => ProgrammeHasShowtimes
  BY DEF ProgrammeIInv
<1> QED BY <1>1, ProgrammeAlways, PTL

\* A stored trailer never goes, and a stored director only to a worker that had
\* read the row before the director was there.
THEOREM DetailsStay == ProgrammeSpec => KnownDetailsStay
<1> DEFINE Stays == \A m \in Movies :
             /\ movies[m].trailer => movies'[m].trailer
             /\ movies[m].director /\ ~movies'[m].director =>
                    \E w \in Scrapers : /\ task[w].at = "upsert" /\ Current(w).movie = m
                                        /\ ~task[w].existing.director
<1>1. ASSUME ProgrammeIInv, NEW w \in Scrapers, UpsertMovie(w)
      PROVE  Stays
  BY <1>1, UpsertMovieWrites DEF UpsertMovie
<1>2. ASSUME movies' = movies
      PROVE  Stays
  BY <1>2
<1>3. ASSUME ProgrammeNext
      PROVE  movies' = movies \/ \E w \in Scrapers : UpsertMovie(w)
  <2> USE DEF tables
  <2>1. ASSUME NEW w \in Scrapers, NEW s \in Screens, NEW l \in Listings, StartScrape(w, s, today, l)
        PROVE  movies' = movies
    BY <2>1 DEF StartScrape
  <2>2. ASSUME NEW w \in Scrapers,
               \/ ReadExisting(w) \/ UpsertShowtimes(w) \/ MovieFails(w) \/ StoreProgramme(w)
               \/ ScraperStops(w) \/ \E page \in Details : FetchPage(w, page)
        PROVE  movies' = movies
    <3>1. /\ ReadExisting(w) => movies' = movies
          /\ UpsertShowtimes(w) => movies' = movies
          /\ MovieFails(w) => movies' = movies
      BY DEF ReadExisting, UpsertShowtimes, MovieFails
    <3>2. /\ StoreProgramme(w) => movies' = movies
          /\ ScraperStops(w) => movies' = movies
          /\ \A page \in Details : FetchPage(w, page) => movies' = movies
      BY DEF StoreProgramme, ScraperStops, FetchPage
    <3> QED BY <2>2, <3>1, <3>2
  <2>3. ASSUME NEW s \in Screens, DeleteScreen(s) \/ AddScreen(s)
        PROVE  movies' = movies
    BY <2>3 DEF DeleteScreen, AddScreen
  <2> QED BY <1>3, <2>1, <2>2, <2>3 DEF ProgrammeNext
<1>4. ProgrammeIInv /\ [ProgrammeNext]_programmeVars => [Stays]_programmeVars
  BY <1>1, <1>2, <1>3
<1>5. KnownDetailsStay <=> [][Stays]_programmeVars
  BY DEF KnownDetailsStay
<1> QED BY <1>4, <1>5, ProgrammeAlways, PTL DEF ProgrammeSpec

------------------------------------------------------------------------------
(* Rows refer to rows.  A second invariant, relative to the first.           *)

Upcoming == {e \in Entry : e.day \in FirstDay .. LastDay + 1}

ShowtimesRefer == /\ showtimes \subseteq screens \X Movies \X (FirstDay .. LastDay + 1)
                  /\ \A x \in showtimes : movies[x[2]].known
ProgrammeRefers == \A x \in programme : x[1] \in screens /\ x[2] \in Movies /\ movies[x[2]].known

\* What a worker still has to do falls on days of the calendar; the movie whose
\* showtimes it writes, and those whose weeks it has noted, have their row.
WorkRefers == \A w \in Scrapers : /\ task[w].left \in Seq(Upcoming)
                                  /\ task[w].at = "showtimes" => movies[Current(w).movie].known
                                  /\ \A r \in task[w].rows : movies[r[1]].known

RowsRefer == today \in FirstDay .. LastDay /\ ShowtimesRefer /\ ProgrammeRefers /\ WorkRefers

\* A list of movies on days of the calendar: its head, its tail, and a listing's days.
LEMMA UpcomingTail ==
  ASSUME NEW l \in Seq(Upcoming), l # <<>>
  PROVE  Head(l) \in Upcoming /\ Tail(l) \in Seq(Upcoming)
BY HeadTailProperties, EmptySeq, LenProperties

\* A listing, with its days counted from today, is a list of movies to come.
LEMMA ListingUpcoming ==
  ASSUME NEW listing \in Listings, today \in FirstDay .. LastDay
  PROVE  [i \in DOMAIN listing |-> [listing[i] EXCEPT !.day = today + @]] \in Seq(Upcoming)
<1> DEFINE left == [i \in DOMAIN listing |-> [listing[i] EXCEPT !.day = today + @]]
<1>1. left \in Seq(Entry) /\ today \in Nat
  BY ListingDays, DaysAssumption DEF DaysAssumption
<1>2. listing \in Seq(Listed)
  BY ListingList
<1>3. DOMAIN left = DOMAIN listing /\ DOMAIN listing = 1 .. Len(listing) /\ Len(listing) \in Nat
  BY <1>2
<1>4. \A i \in DOMAIN left : left[i] \in Upcoming
  <2> SUFFICES ASSUME NEW i \in DOMAIN left PROVE left[i] \in Upcoming
    OBVIOUS
  <2>1. listing[i] \in Listed /\ left[i] = [listing[i] EXCEPT !.day = today + @]
    BY <1>2, <1>3
  <2>2. left[i].day \in FirstDay .. LastDay + 1
    BY <2>1, DaysAssumption DEF DaysAssumption, Listed
  <2>3. left[i] \in Entry
    BY <1>1
  <2> HIDE DEF left
  <2> QED BY <2>2, <2>3 DEF Upcoming
<1> HIDE DEF left
<1>5. left \in [1 .. Len(listing) -> Upcoming]
  BY <1>1, <1>3, <1>4
<1>6. left \in Seq(Upcoming)
  BY <1>3, <1>5
<1> QED BY <1>6 DEF left

\* A worker goes on; no movie's row goes, and the showtimes refer.
LEMMA RefersOn ==
  ASSUME ProgrammeIInv, RowsRefer, NEW w \in Scrapers, NEW t \in Task, task' = [task EXCEPT ![w] = t],
         today' = today, screens' = screens, programme' = programme,
         \A m \in Movies : movies[m].known => movies'[m].known,
         ShowtimesRefer',
         t.left \in Seq(Upcoming),
         t.at = "showtimes" => movies'[Head(t.left).movie].known,
         \A r \in t.rows : movies'[r[1]].known
  PROVE  RowsRefer'
<1>1. /\ task'[w] = t /\ \A v \in Scrapers \ {w} : task'[v] = task[v]
      /\ \A v \in Scrapers : task[v] \in Task
      /\ \A v \in Scrapers : task[v].at = "showtimes" => task[v].left # <<>>
  BY DEF ProgrammeIInv, ProgrammeTypeOK, AtHand
<1>2. ProgrammeRefers'
  BY DEF RowsRefer, ProgrammeRefers
<1>3. WorkRefers'
  <2> SUFFICES ASSUME NEW v \in Scrapers
               PROVE  /\ task'[v].left \in Seq(Upcoming)
                      /\ task'[v].at = "showtimes" => movies'[Head(task'[v].left).movie].known
                      /\ \A r \in task'[v].rows : movies'[r[1]].known
    BY DEF WorkRefers, Current
  <2>1. CASE v = w
    BY <1>1, <2>1
  <2>2. CASE v # w
    <3>1. /\ task'[v] = task[v] /\ task[v].left \in Seq(Upcoming)
          /\ task[v].at = "showtimes" => movies[Head(task[v].left).movie].known
          /\ \A r \in task[v].rows : movies[r[1]].known
      BY <1>1, <2>2 DEF RowsRefer, WorkRefers, Current
    <3>2. task[v].at = "showtimes" => Head(task[v].left).movie \in Movies
      BY <3>1, <1>1, UpcomingTail DEF Upcoming, Entry
    <3>3. \A r \in task[v].rows : r[1] \in Movies
      BY <1>1 DEF Task
    <3> QED BY <3>1, <3>2, <3>3
  <2> QED BY <2>1, <2>2
<1> QED BY <1>2, <1>3 DEF RowsRefer

\* The references hold in an empty programme.
LEMMA RefersStart == ProgrammeInit => RowsRefer
<1> SUFFICES ASSUME ProgrammeInit PROVE RowsRefer
  OBVIOUS
<1>1. NoTask.left = <<>> /\ NoTask.at = "idle" /\ NoTask.rows = {} /\ <<>> \in Seq(Upcoming)
  BY DEF NoTask
<1>2. WorkRefers
  BY <1>1 DEF ProgrammeInit, WorkRefers
<1> QED BY <1>2 DEF ProgrammeInit, RowsRefer, ShowtimesRefer, ProgrammeRefers

\* The steps of a worker that write no row but, perhaps, its movie's.
LEMMA StatementsRefer ==
  ASSUME ProgrammeIInv, RowsRefer, NEW w \in Scrapers
  PROVE  /\ \A s \in Screens, l \in Listings : StartScrape(w, s, today, l) => RowsRefer'
         /\ ReadExisting(w) => RowsRefer'
         /\ \A page \in Details : FetchPage(w, page) => RowsRefer'
         /\ MovieFails(w) => RowsRefer'
         /\ ScraperStops(w) => RowsRefer'
<1>1. /\ task \in [Scrapers -> Task] /\ task[w] \in Task /\ task[w].left \in Seq(Upcoming)
      /\ \A r \in task[w].rows : movies[r[1]].known
      /\ today \in FirstDay .. LastDay /\ ShowtimesRefer
  BY DEF ProgrammeIInv, ProgrammeTypeOK, RowsRefer, WorkRefers
<1>2. ASSUME NEW t \in Task, task' = [task EXCEPT ![w] = t], UNCHANGED <<today, tables>>,
             t.left \in Seq(Upcoming), t.at # "showtimes", \A r \in t.rows : movies[r[1]].known
      PROVE  RowsRefer'
  <2>1. /\ today' = today /\ screens' = screens /\ programme' = programme /\ movies' = movies
        /\ showtimes' = showtimes
    BY <1>2 DEF tables
  <2>2. ShowtimesRefer'
    BY <1>1, <2>1 DEF ShowtimesRefer
  <2> QED BY <1>2, <2>1, <2>2, RefersOn
<1>3. ASSUME NEW s \in Screens, NEW l \in Listings, StartScrape(w, s, today, l)
      PROVE  RowsRefer'
  <2> DEFINE left == [i \in DOMAIN l |-> [l[i] EXCEPT !.day = today + @]]
             at == IF l = <<>> THEN "store" ELSE "read"
             t == [NoTask EXCEPT !.at = at, !.screen = {s}, !.left = left]
  <2>1. left \in Seq(Upcoming) /\ left \in Seq(Entry)
    BY <1>1, ListingUpcoming, ListingDays DEF ProgrammeIInv, ProgrammeTypeOK
  <2>2. task' = [task EXCEPT ![w] = t] /\ UNCHANGED <<today, tables>>
    BY <1>3 DEF StartScrape
  <2>3. at \in {"store", "read"}
    OBVIOUS
  <2> HIDE DEF left, at
  <2>4. t \in Task /\ t.left = left /\ t.rows = {} /\ t.at = at
    BY <2>1, <2>3 DEF NoTask, NoMovie, Task, TaskPlaces, Row, Details
  <2> HIDE DEF t
  <2>5. t.at # "showtimes" /\ t.left \in Seq(Upcoming) /\ \A r \in t.rows : movies[r[1]].known
    BY <2>1, <2>3, <2>4
  <2> QED BY <1>2, <2>2, <2>4, <2>5
<1>4. ASSUME NEW t \in Task, task' = [task EXCEPT ![w] = t], UNCHANGED <<today, tables>>,
             t.left = task[w].left, t.rows = task[w].rows, t.at # "showtimes"
      PROVE  RowsRefer'
  BY <1>1, <1>2, <1>4
<1>5. ASSUME ReadExisting(w)
      PROVE  RowsRefer'
  <2>1. PICK at \in {"upsert", "page"}, found \in Details :
          task' = [task EXCEPT ![w].existing = movies[Current(w).movie], ![w].found = found, ![w].at = at]
    <3> DEFINE row == movies[Current(w).movie]
               complete == row.director /\ row.trailer
    <3>1. Current(w) \in Entry
      BY <1>1, <1>5, UpcomingTail DEF ReadExisting, ProgrammeIInv, AtHand, Current, Upcoming
    <3>2. CASE complete
      <4> DEFINE f == [director |-> TRUE, trailer |-> TRUE]
      <4>1. f \in Details /\ "upsert" \in {"upsert", "page"}
        BY DEF Details
      <4>2. task' = [task EXCEPT ![w].existing = row, ![w].found = f, ![w].at = "upsert"]
        BY <1>5, <3>2 DEF ReadExisting
      <4> HIDE DEF f
      <4> QED BY <4>1, <4>2
    <3>3. CASE ~complete
      <4> DEFINE f == [director |-> Current(w).director, trailer |-> FALSE]
      <4>1. f \in Details /\ "page" \in {"upsert", "page"}
        BY <3>1 DEF Details, Entry
      <4>2. task' = [task EXCEPT ![w].existing = row, ![w].found = f, ![w].at = "page"]
        BY <1>5, <3>3 DEF ReadExisting
      <4> HIDE DEF f
      <4> QED BY <4>1, <4>2
    <3> QED BY <3>2, <3>3
  <2> DEFINE row == movies[Current(w).movie]
             t == [task[w] EXCEPT !.existing = row, !.found = found, !.at = at]
  <2>2. row \in Row
    BY <1>1, <1>5, UpcomingTail DEF ReadExisting, ProgrammeIInv, ProgrammeTypeOK, AtHand, Current, Upcoming, Entry
  <2>3. task' = [task EXCEPT ![w].existing = row, ![w].found = found, ![w].at = at]
    BY <2>1
  <2> HIDE DEF row
  <2>4. task' = [task EXCEPT ![w] = t]
    BY <1>1, <2>3 DEF Task
  <2>5. t \in Task /\ t.left = task[w].left /\ t.rows = task[w].rows /\ t.at = at
    BY <1>1, <2>2 DEF Task, TaskPlaces
  <2>6. UNCHANGED <<today, tables>>
    BY <1>5 DEF ReadExisting
  <2> HIDE DEF t
  <2>7. t.at # "showtimes"
    BY <2>5
  <2> QED BY <1>4, <2>4, <2>5, <2>6, <2>7
<1>6. ASSUME NEW page \in Details, FetchPage(w, page)
      PROVE  RowsRefer'
  <2> DEFINE found == Completed(task[w].found, page, task[w].existing)
             t == [task[w] EXCEPT !.found = found, !.at = "upsert"]
  <2>1. found \in Details
    BY <1>1, FallbackKeeps DEF Task
  <2>2. task' = [task EXCEPT ![w].found = found, ![w].at = "upsert"] /\ UNCHANGED <<today, tables>>
    BY <1>1, <1>6 DEF FetchPage, Task
  <2> HIDE DEF found
  <2>3. task' = [task EXCEPT ![w] = t]
    BY <1>1, <2>2 DEF Task
  <2>4. t \in Task /\ t.left = task[w].left /\ t.rows = task[w].rows /\ t.at = "upsert"
    BY <1>1, <2>1 DEF Task, TaskPlaces
  <2> HIDE DEF t
  <2>5. t.at # "showtimes"
    BY <2>4
  <2> QED BY <1>4, <2>2, <2>3, <2>4, <2>5
<1>7. ASSUME MovieFails(w)
      PROVE  RowsRefer'
  <2> DEFINE t == NextMovie(w)
  <2>1. /\ t \in Task /\ t.at \in {"read", "store"} /\ t.rows = task[w].rows /\ task[w].left # <<>>
    BY <1>7, GoesOn DEF MovieFails
  <2>2. t.left = Tail(task[w].left)
    BY <1>1 DEF NextMovie, Task
  <2>3. task' = [task EXCEPT ![w] = t] /\ UNCHANGED <<today, tables>>
    BY <1>7 DEF MovieFails
  <2> HIDE DEF t
  <2>4. t.left \in Seq(Upcoming) /\ t.at # "showtimes" /\ \A r \in t.rows : movies[r[1]].known
    BY <1>1, <2>1, <2>2, UpcomingTail
  <2> QED BY <1>2, <2>1, <2>3, <2>4
<1>8. ASSUME ScraperStops(w)
      PROVE  RowsRefer'
  <2>1. NoTask \in Task /\ NoTask.at = "idle" /\ NoTask.rows = {} /\ NoTask.left = <<>> /\ <<>> \in Seq(Upcoming)
    BY Rests DEF NoTask
  <2>2. task' = [task EXCEPT ![w] = NoTask] /\ UNCHANGED <<today, tables>>
    BY <1>8 DEF ScraperStops
  <2>3. NoTask.at # "showtimes" /\ NoTask.left \in Seq(Upcoming) /\ \A r \in NoTask.rows : movies[r[1]].known
    BY <2>1
  <2> QED BY <1>2, <2>1, <2>2, <2>3
<1> QED BY <1>3, <1>5, <1>6, <1>7, <1>8

\* The movie's row is written before its showtimes.
LEMMA UpsertRefers ==
  ASSUME ProgrammeIInv, RowsRefer, NEW w \in Scrapers, UpsertMovie(w)
  PROVE  RowsRefer'
<1> DEFINE m == Current(w).movie
           t == [task[w] EXCEPT !.at = "showtimes"]
<1>1. /\ task \in [Scrapers -> Task] /\ task[w] \in Task /\ task[w].left \in Seq(Upcoming)
      /\ task[w].left # <<>> /\ movies \in [Movies -> Row]
      /\ \A r \in task[w].rows : movies[r[1]].known /\ r[1] \in Movies
      /\ ShowtimesRefer
  BY DEF ProgrammeIInv, ProgrammeTypeOK, AtHand, UpsertMovie, RowsRefer, WorkRefers, Task
<1>2. m \in Movies /\ m = Head(task[w].left).movie
  BY <1>1, UpcomingTail DEF Current, Upcoming, Entry
<1>3. /\ movies' = [movies EXCEPT ![m] = Upserted(@, task[w].found)]
      /\ today' = today /\ screens' = screens /\ programme' = programme /\ showtimes' = showtimes
      /\ task' = [task EXCEPT ![w] = t]
  BY <1>1 DEF UpsertMovie, Task
<1>4. \A row, found : Upserted(row, found).known
  BY DEF Upserted
<1> HIDE DEF m
<1>5. movies'[m].known /\ \A x \in Movies : movies[x].known => movies'[x].known
  BY <1>1, <1>2, <1>3, <1>4
<1>6. t \in Task /\ t.left = task[w].left /\ t.rows = task[w].rows
  BY <1>1 DEF Task, TaskPlaces
<1> HIDE DEF t
<1>7. ShowtimesRefer'
  <2>1. \A x \in showtimes : x[2] \in Movies
    BY <1>1 DEF ShowtimesRefer
  <2> QED BY <1>1, <1>3, <1>5, <2>1 DEF ShowtimesRefer
<1>8. /\ t.left \in Seq(Upcoming) /\ movies'[Head(t.left).movie].known
      /\ \A r \in t.rows : movies'[r[1]].known
  BY <1>1, <1>2, <1>5, <1>6
<1> QED BY <1>3, <1>5, <1>6, <1>7, <1>8, RefersOn

\* A batch of showtimes is taken only for a Theater and a movie that are there.
LEMMA BatchRefers ==
  ASSUME ProgrammeIInv, RowsRefer, NEW w \in Scrapers, UpsertShowtimes(w)
  PROVE  RowsRefer'
<1> DEFINE m == Current(w).movie
           rows == NextMovie(w).rows \union Programmed(w)
           t == [NextMovie(w) EXCEPT !.rows = rows]
<1>1. /\ task \in [Scrapers -> Task] /\ task[w] \in Task /\ task[w].left \in Seq(Upcoming)
      /\ task[w].left # <<>> /\ task[w].at = "showtimes" /\ movies[m].known
      /\ \A r \in task[w].rows : movies[r[1]].known
      /\ ShowtimesRefer
  BY DEF ProgrammeIInv, ProgrammeTypeOK, AtHand, UpsertShowtimes, RowsRefer, WorkRefers
<1>2. m \in Movies /\ Current(w).day \in FirstDay .. LastDay + 1 /\ Current(w).day \in Nat
  BY <1>1, UpcomingTail DEF Current, Upcoming, Entry
<1>3. /\ NextMovie(w) \in Task /\ NextMovie(w).rows = task[w].rows /\ NextMovie(w).at \in {"read", "store"}
  BY GoesOn, <1>1
<1>4. NextMovie(w).left = Tail(task[w].left)
  BY <1>1 DEF NextMovie, Task
<1>5. Programmed(w) \subseteq {m} \X Int
  BY <1>2, WeekIsDay DEF Programmed
<1>6. /\ task' = [task EXCEPT ![w] = t] /\ movies' = movies
      /\ today' = today /\ screens' = screens /\ programme' = programme
  BY DEF UpsertShowtimes
<1>7. ShowtimesRefer'
  <2> SUFFICES ASSUME NEW x \in showtimes'
               PROVE  x \in screens \X Movies \X (FirstDay .. LastDay + 1) /\ movies[x[2]].known
    BY <1>6 DEF ShowtimesRefer
  <2>1. CASE x \in showtimes
    BY <1>1, <2>1 DEF ShowtimesRefer
  <2>2. CASE x \notin showtimes
    <3>1. PICK s \in task[w].screen : x = <<s, Current(w).movie, Current(w).day>> /\ s \in screens
      BY <2>2 DEF UpsertShowtimes, BatchRefused
    <3> QED BY <1>1, <1>2, <3>1
  <2> QED BY <2>1, <2>2
<1>8. rows \subseteq Movies \X Int /\ \A r \in rows : movies[r[1]].known
  BY <1>1, <1>2, <1>3, <1>5 DEF Task
<1> HIDE DEF rows
<1>9. t \in Task /\ t.left = NextMovie(w).left /\ t.rows = rows /\ t.at = NextMovie(w).at
  BY <1>3, <1>8 DEF Task
<1> HIDE DEF t, m
<1>10. t.left \in Seq(Upcoming) /\ t.at # "showtimes" /\ \A r \in t.rows : movies'[r[1]].known
  BY <1>1, <1>3, <1>4, <1>6, <1>8, <1>9, UpcomingTail
<1> QED BY <1>6, <1>7, <1>9, <1>10, RefersOn

\* The week is stored for a Theater that is there.
LEMMA StoreRefers ==
  ASSUME ProgrammeIInv, RowsRefer, NEW w \in Scrapers, StoreProgramme(w)
  PROVE  RowsRefer'
<1>1. /\ task' = [task EXCEPT ![w] = NoTask] /\ task \in [Scrapers -> Task] /\ task[w] \in Task
      /\ today' = today /\ screens' = screens /\ movies' = movies /\ showtimes' = showtimes
      /\ \A r \in task[w].rows : movies[r[1]].known /\ r[1] \in Movies
  BY DEF StoreProgramme, ProgrammeIInv, ProgrammeTypeOK, RowsRefer, WorkRefers, Task
<1>2. NoTask.at = "idle" /\ NoTask.rows = {} /\ NoTask.left = <<>> /\ <<>> \in Seq(Upcoming)
  BY Rests DEF NoTask
<1>3. ProgrammeRefers'
  <2> SUFFICES ASSUME NEW x \in programme'
               PROVE  x[1] \in screens /\ x[2] \in Movies /\ movies[x[2]].known
    BY <1>1 DEF ProgrammeRefers
  <2>1. CASE x \in programme
    BY <2>1 DEF RowsRefer, ProgrammeRefers
  <2>2. CASE x \notin programme
    <3>1. PICK s \in task[w].screen, r \in task[w].rows : x = <<s, r[1], r[2]>> /\ s \in screens
      BY <2>2 DEF StoreProgramme
    <3> QED BY <1>1, <3>1
  <2> QED BY <2>1, <2>2
<1>4. WorkRefers'
  BY <1>1, <1>2 DEF RowsRefer, WorkRefers, Current
<1> QED BY <1>1, <1>3, <1>4 DEF RowsRefer, ShowtimesRefer

\* Every step preserves the reference of rows to rows.
LEMMA RefersSteps == ProgrammeIInv /\ RowsRefer /\ [ProgrammeNext]_programmeVars => RowsRefer'
<1> SUFFICES ASSUME ProgrammeIInv, RowsRefer, [ProgrammeNext]_programmeVars PROVE RowsRefer'
  OBVIOUS
<1>1. ASSUME NEW w \in Scrapers, NEW s \in Screens, NEW l \in Listings, StartScrape(w, s, today, l)
      PROVE  RowsRefer'
  BY <1>1, StatementsRefer
<1>2. ASSUME NEW w \in Scrapers, \/ ReadExisting(w) \/ MovieFails(w) \/ ScraperStops(w)
                                 \/ \E page \in Details : FetchPage(w, page)
      PROVE  RowsRefer'
  BY <1>2, StatementsRefer
<1>3. ASSUME NEW w \in Scrapers, UpsertMovie(w) \/ UpsertShowtimes(w) \/ StoreProgramme(w)
      PROVE  RowsRefer'
  BY <1>3, UpsertRefers, BatchRefers, StoreRefers
<1>4. ASSUME NEW s \in Screens, DeleteScreen(s)
      PROVE  RowsRefer'
  <2>1. /\ screens' = screens \ {s} /\ showtimes' = {x \in showtimes : x[1] # s}
        /\ programme' = {x \in programme : x[1] # s}
        /\ today' = today /\ movies' = movies /\ task' = task
    BY <1>4 DEF DeleteScreen
  <2>2. ShowtimesRefer'
    BY <2>1 DEF RowsRefer, ShowtimesRefer
  <2> QED BY <2>1, <2>2 DEF RowsRefer, ProgrammeRefers, WorkRefers, Current
<1>5. ASSUME NEW s \in Screens, AddScreen(s)
      PROVE  RowsRefer'
  <2>1. /\ screens' = screens \union {s}
        /\ today' = today /\ movies' = movies /\ task' = task /\ showtimes' = showtimes /\ programme' = programme
    BY <1>5 DEF AddScreen
  <2>2. ShowtimesRefer'
    BY <2>1 DEF RowsRefer, ShowtimesRefer
  <2> QED BY <2>1, <2>2 DEF RowsRefer, ProgrammeRefers, WorkRefers, Current
<1>6. CASE UNCHANGED programmeVars
  BY <1>6 DEF programmeVars, RowsRefer, ShowtimesRefer, ProgrammeRefers, WorkRefers, Current
<1> QED BY <1>1, <1>2, <1>3, <1>4, <1>5, <1>6 DEF ProgrammeNext

\* A stored showtime is of a Theater and a movie that are there, on a day of the
\* calendar; a programme row likewise; and what a worker is about to write for the
\* week is stored.
THEOREM RowsReferToRows == ProgrammeSpec => [](ProgrammeTypeOK /\ ProgrammeInv)
<1>1. ProgrammeIInv /\ RowsRefer => ProgrammeTypeOK /\ ProgrammeInv
  BY DEF ProgrammeIInv, RowsStored, RowsRefer, ShowtimesRefer, ProgrammeRefers, ProgrammeInv
<1> QED BY <1>1, ProgrammeStarts, ProgrammeSteps, RefersStart, RefersSteps, PTL DEF ProgrammeSpec

------------------------------------------------------------------------------
(* The dates.                                                               *)

\* A limited scrape takes today and days of the same cinema week only: for every
\* day, every configured number of days and every change to summer time.
THEOREM LimitedFits ==
  ASSUME NEW today0 \in Nat, NEW n \in Int, NEW spring \in Int
  PROVE  LimitedScrapeFits(today0, n, spring)
<1> DEFINE d == today0 % 7
           k == LimitedDays(d, n)
           u == DaysUntilTuesday(d)
<1>1. d \in 0 .. 6 /\ today0 \in Nat
  OBVIOUS
<1>2. /\ u \in 0 .. 6 /\ WeekStart(today0) \in Int
      /\ WeekStart(today0) <= today0 /\ WeekStart(today0) + 6 = today0 + u
  BY <1>1 DEF WeekStart, DayOfWeek, DaysUntilTuesday
<1>3. k \in Int /\ k <= u + 1 /\ (n = Default => k = u + 1) /\ k # Default
  BY <1>1, <1>2 DEF LimitedDays, Default
<1> DEFINE c == ClampedDays(k)
           dates == WeekDates(today0, k, spring)
<1>4. c \in Int /\ 1 <= c /\ c <= u + 1 /\ (n = Default => c = u + 1)
  BY <1>2, <1>3 DEF ClampedDays, Default
<1>5. \A i \in 0 .. c - 1 : /\ DateAfter(today0, i, spring) \in today0 .. today0 + u
                            /\ spring = Never => DateAfter(today0, i, spring) = today0 + i
  <2> SUFFICES ASSUME NEW i \in 0 .. c - 1
               PROVE  /\ DateAfter(today0, i, spring) \in today0 .. today0 + u
                      /\ spring = Never => DateAfter(today0, i, spring) = today0 + i
    OBVIOUS
  <2>1. i \in Int /\ 0 <= i /\ i <= u
    BY <1>2, <1>4
  <2> HIDE DEF u
  <2> QED BY <2>1, <1>2 DEF DateAfter, Never
<1>6. 0 \in 0 .. c - 1 /\ DateAfter(today0, 0, spring) = today0
  BY <1>4 DEF DateAfter
<1>7. dates = {DateAfter(today0, i, spring) : i \in 0 .. c - 1}
  BY DEF WeekDates
<1> HIDE DEF c, u, k
<1>8. today0 \in dates
  BY <1>6, <1>7
<1>9. dates \subseteq Week(today0)
  BY <1>2, <1>5, <1>7 DEF Week
<1>10. n = Default /\ spring = Never => dates = today0 .. WeekStart(today0) + 6
  <2> SUFFICES ASSUME n = Default, spring = Never
               PROVE  dates = today0 .. today0 + u
    BY <1>2
  <2>1. c = u + 1 /\ \A i \in 0 .. u : DateAfter(today0, i, spring) = today0 + i
    BY <1>2, <1>4, <1>5
  <2>2. \A x \in today0 .. today0 + u : x - today0 \in 0 .. c - 1 /\ today0 + (x - today0) = x
    BY <2>1, <1>2
  <2>3. \A x \in today0 .. today0 + u : x \in dates
    BY <2>1, <2>2, <1>5, <1>7
  <2>4. \A x \in dates : x \in today0 .. today0 + u
    BY <1>5, <1>7
  <2> QED BY <2>3, <2>4
<1>11. ScrapeDates("from_today_limited", today0, DayOfWeek(today0), n, spring) = dates
  BY DEF ScrapeDates, DayOfWeek, k
<1> HIDE DEF dates
<1> QED BY <1>8, <1>9, <1>10, <1>11 DEF LimitedScrapeFits
=============================================================================
