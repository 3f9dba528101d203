------------------------------ MODULE Homepage ------------------------------
(***************************************************************************)
(* What the Homepage and a Theater's page show of the programme: the       *)
(* statements that read movies and showtimes apart, the answers that the   *)
(* browser keeps under the day selected, and the filters of the pages.     *)
(*                                                                         *)
(* A showtime is <<house, film, day>>: a film is shown once a day, at hour *)
(* 0.  The browser's `today' is the UTC day, like the server's.            *)
(***************************************************************************)
EXTENDS CinemaWeek, FiniteSets, FiniteSetsExt

CONSTANTS Houses,       \* Theaters
          Films,        \* Movies
          OpeningDay,   \* the day the page is opened
          MaxMoves      \* bound on what the user does and on what changes
                        \* behind the page, together

ASSUME HomepageAssumption == OpeningDay \in Nat \ {0} /\ MaxMoves \in Nat

VARIABLES
  audience,    \* who looks at the Homepage, or "house": a Theater's page is looked at
  clock,       \* the UTC day
  open,        \* the active Theaters
  shows,       \* showtimes
  weekly,      \* weekly_programs: <<house, film, week>>
  news,        \* those of its rows with is_new_this_week
  chosen,      \* active choices of the Member
  view,        \* the filter of the Homepage: day and hour
  entries,     \* day selected -> the answer kept, or NoEntry
  fetching,    \* day selected -> the request in flight, or NoAsk
  visit,       \* a Theater's page: its showtimes, day and hour
  moves

homeData == <<open, shows, weekly, news, chosen>>
homeVars == <<audience, clock, homeData, view, entries, fetching, visit, moves>>

NoDay == -1     \* no day selected, a whole week asked for
AnyHour == -1   \* no hour selected: every showtime is later
Hours == {0, 1} \* with "Maintenant": before and after today's showtimes
Calendar == OpeningDay - 1 .. OpeningDay + 1
Showings == Houses \X Films \X Calendar

NoEntry == [known |-> FALSE]
NoAsk == [at |-> "none"]
NoVisit == [house |-> {}, shows |-> {}, day |-> NoDay, hour |-> AnyHour]

\* The programme that earlier scrapes left: every row of the week has showtimes
\* (what Programme establishes).
HomeInit ==
    /\ audience \in {"visitor", "member", "staff", "house"}
    /\ clock = OpeningDay
    /\ open = Houses
    /\ \E n \in 0 .. 2 : shows \in kSubset(n, Showings)
    /\ weekly = {<<s[1], s[2], WeekStart(s[3])>> : s \in shows}
    /\ news \in {{}, weekly}
    /\ chosen = Houses
    /\ view = [day |-> NoDay, hour |-> AnyHour]
    /\ entries = [d \in Calendar \union {NoDay} |-> NoEntry]
    /\ fetching = [d \in Calendar \union {NoDay} |-> NoAsk]
    /\ visit = NoVisit
    /\ moves = 0

------------------------------------------------------------------------------
(* The filter (useDateTimeFilter, DaySelector).                             *)

IsNow == view.hour # AnyHour                       \* "Maintenant"
IsSpecificDate == view.day # NoDay /\ ~IsNow

QueryKey == view.day

\* What queryFn asks for in the view rendered last: a day, or the week.
Wanted == IF audience = "member" THEN IF IsSpecificDate THEN view.day ELSE NoDay
          ELSE IF view.day # NoDay THEN view.day
          ELSE IF audience = "staff" THEN NoDay
          ELSE clock

\* A key that was not observed is fetched at once, its data being stale;
\* otherwise the window's focus fetches it again.
Fetches(key) == IF fetching[key].at # "none" THEN fetching
                ELSE [fetching EXCEPT ![key] = [at |-> "asked", scope |-> Wanted', now |-> IsNow']]

Focus == /\ audience # "house"
         /\ moves < MaxMoves
         /\ moves' = moves + 1
         /\ UNCHANGED <<view, audience, clock>>
         /\ fetching' = Fetches(QueryKey)
         /\ UNCHANGED <<homeData, entries, visit>>

Mount == /\ audience # "house"
         /\ entries = [d \in DOMAIN entries |-> NoEntry]
         /\ fetching = [d \in DOMAIN fetching |-> NoAsk]
         /\ UNCHANGED <<view, audience, clock>>
         /\ fetching' = Fetches(QueryKey)
         /\ UNCHANGED <<homeData, entries, visit, moves>>

\* The bar is on the page once the key has an answer, and offers its week.
Narrow(day, hour) ==
    /\ entries[QueryKey].known
    /\ day # NoDay => day \in Week(entries[QueryKey].week)
    /\ moves < MaxMoves
    /\ moves' = moves + 1
    /\ view' = [day |-> day, hour |-> hour]
    /\ UNCHANGED <<audience, clock>>
    /\ fetching' = IF QueryKey' = QueryKey THEN fetching ELSE Fetches(QueryKey')
    /\ UNCHANGED <<homeData, entries, visit>>

SelectDate(day) == day \in Calendar /\ Narrow(day, AnyHour)
SelectNow(hour) == hour \in Hours /\ Narrow(clock, hour)
ResetAll == Narrow(NoDay, AnyHour)

------------------------------------------------------------------------------
(* The server: two statements, on two connections.                          *)

InScope(request, s) == /\ s[1] \in open
                       /\ WeekStart(s[3]) = request.week
                       /\ request.scope = NoDay \/ s[3] = request.scope

\* The bug: the Member's movies taken from the weekly programme.
SelectionFilms_Weekly(request) ==
    {<<r[2], r[1], r \in news>> : r \in {r \in weekly : r[1] \in request.houses /\ r[3] = request.week}}

\* getSelectionMoviesForTheaters: showtimes are the source, the programme only
\* lends its flag.
SelectionFilms(request) ==
    {<<s[2], s[1], <<s[1], s[2], request.week>> \in news>> :
        s \in {s \in shows : InScope(request, s) /\ s[1] \in request.houses}}

\* getMoviesByDate and getWeeklyMovies.
PublicFilms(request) ==
    IF request.scope # NoDay THEN {<<s[2], s[1], FALSE>> : s \in {s \in shows : InScope(request, s)}}
    ELSE {<<r[2], r[1], FALSE>> : r \in {r \in weekly : r[1] \in open /\ r[3] = request.week}}

\* The cinema week is the server's when the request arrives; the Theaters are
\* the Member's active choices, read first.  Either statement may come first;
\* no read that follows the projection at once can tell it apart.
Read(request, half) ==
    [request EXCEPT !.films = IF half = "shows" THEN @
                              ELSE IF audience = "member" THEN SelectionFilms(request) ELSE PublicFilms(request),
                    !.shows = IF half = "films" THEN @
                              ELSE {s \in shows : InScope(request, s) /\ s[1] \in request.houses}]

ReadFirst(key, half) ==
    /\ fetching[key].at = "asked"
    /\ LET request == [at |-> half, scope |-> fetching[key].scope, now |-> fetching[key].now, week |-> WeekStart(clock),
                       houses |-> IF audience = "member" THEN chosen ELSE open,
                       films |-> {}, shows |-> {}, torn |-> FALSE]
       IN  fetching' = [fetching EXCEPT ![key] = Read(request, half)]
    /\ UNCHANGED <<audience, clock, homeData, view, entries, visit, moves>>

\* The second statement completes the answer, which the browser keeps under its
\* key, whatever the page shows by then.
ReadSecond(key, half) ==
    /\ fetching[key].at = IF half = "films" THEN "shows" ELSE "films"
    /\ LET request == Read(fetching[key], half)
       IN  entries' = [entries EXCEPT ![key] =
               [known |-> TRUE, scope |-> request.scope, now |-> request.now, week |-> request.week,
                films |-> request.films, shows |-> request.shows, torn |-> request.torn]]
    /\ fetching' = [fetching EXCEPT ![key] = NoAsk]
    /\ UNCHANGED <<audience, clock, homeData, view, visit, moves>>

\* A refused or lost request leaves the entry as it was.
LoadFails(key) == /\ fetching[key].at = "asked"
                  /\ moves < MaxMoves
                  /\ moves' = moves + 1
                  /\ fetching' = [fetching EXCEPT ![key] = NoAsk]
                  /\ UNCHANGED <<audience, clock, homeData, view, entries, visit>>

------------------------------------------------------------------------------
(* What changes meanwhile.                                                  *)

Alter == /\ moves < MaxMoves
         /\ moves' = moves + 1
         /\ fetching' = [d \in DOMAIN fetching |->
                          IF fetching[d].at \in {"films", "shows"}
                          THEN [fetching[d] EXCEPT !.torn = TRUE] ELSE fetching[d]]
         /\ UNCHANGED <<audience, clock, view, entries, visit>>

\* upsertShowtimes, then upsertWeeklyPrograms.
StoreShow(s) == /\ s[1] \in open
                /\ shows' = shows \union {s}
                /\ Alter
                /\ UNCHANGED <<open, weekly, news, chosen>>

StoreWeek(row, new) == /\ \E s \in shows : <<s[1], s[2], WeekStart(s[3])>> = row
                       /\ weekly' = weekly \union {row}
                       /\ news' = IF new THEN news \union {row} ELSE news \ {row}
                       /\ Alter
                       /\ UNCHANGED <<open, shows, chosen>>

RemoveHouse(h) == /\ h \in open
                  /\ open' = open \ {h}
                  /\ shows' = {s \in shows : s[1] # h}
                  /\ weekly' = {r \in weekly : r[1] # h}
                  /\ news' = {r \in news : r[1] # h}
                  /\ chosen' = chosen \ {h}
                  /\ Alter

ChooseHouse(h) == /\ h \in open
                  /\ chosen' = (chosen \ {h}) \union ({h} \ chosen)
                  /\ Alter
                  /\ UNCHANGED <<open, shows, weekly, news>>

Midnight == /\ clock = OpeningDay
            /\ clock' = clock + 1
            /\ moves < MaxMoves
            /\ moves' = moves + 1
            /\ UNCHANGED <<audience, homeData, view, entries, fetching, visit>>

------------------------------------------------------------------------------
(* A Theater's page (TheaterContent).                                       *)

Days(set) == {s[3] : s \in set}
Earliest(days) == CHOOSE d \in days : \A e \in days : d <= e

\* getInitialSelectedDate.
InitialDate(set) == IF set = {} THEN NoDay
                    ELSE IF clock \in Days(set) THEN clock ELSE Earliest(Days(set))

HouseShows(h) == {s \in shows : s[1] = h /\ h \in open /\ WeekStart(s[3]) = WeekStart(clock)}

\* The day selected at first is that of the showtimes first rendered.
Visit(h) == /\ audience = "house"
            /\ moves < MaxMoves
            /\ moves' = moves + 1
            /\ visit' = [house |-> {h}, shows |-> HouseShows(h), day |-> InitialDate(HouseShows(h)), hour |-> AnyHour]
            /\ UNCHANGED <<audience, clock, homeData, view, entries, fetching>>

RefreshVisit(h) == /\ h \in visit.house
                   /\ visit.shows # HouseShows(h)
                   /\ visit' = [visit EXCEPT !.shows = HouseShows(h)]
                   /\ UNCHANGED <<audience, clock, homeData, view, entries, fetching, moves>>

PickHouseDay(day, hour) == /\ day \in Days(visit.shows)
                           /\ hour # AnyHour => day = clock
                           /\ moves < MaxMoves
                           /\ moves' = moves + 1
                           /\ visit' = [visit EXCEPT !.day = day, !.hour = hour]
                           /\ UNCHANGED <<audience, clock, homeData, view, entries, fetching>>

\* effectiveSelectedDate: a day without showtimes left gives way to the first.
EffectiveDate == IF visit.day \in Days(visit.shows) THEN visit.day ELSE InitialDate(visit.shows)

Later(set, day, hour) == {s \in set : s[3] = day /\ hour <= 0}
HouseListing == Later(visit.shows, EffectiveDate, visit.hour)

HomeNext ==
    \/ Mount \/ Focus \/ ResetAll \/ Midnight
    \/ \E d \in Calendar : SelectDate(d)
    \/ \E hour \in Hours : SelectNow(hour)
    \/ \E key \in DOMAIN fetching : LoadFails(key) \/ \E half \in {"films", "shows"} : ReadFirst(key, half) \/ ReadSecond(key, half)
    \/ \E s \in Showings : StoreShow(s)
    \/ \E h \in Houses, f \in Films, d \in Calendar, new \in BOOLEAN : StoreWeek(<<h, f, WeekStart(d)>>, new)
    \/ \E h \in Houses : RemoveHouse(h) \/ ChooseHouse(h) \/ Visit(h) \/ RefreshVisit(h)
    \/ \E d \in Calendar, hour \in Hours \union {AnyHour} : PickHouseDay(d, hour)

HomeSpec == HomeInit /\ [][HomeNext]_homeVars

------------------------------------------------------------------------------
(* The page.                                                                *)

Shown == entries[QueryKey]

\* mergeSelectionMoviesAndShowtimes keeps the houses of the movie's rows;
\* mergeMoviesAndShowtimes those of its showtimes.
CardHouses(f) == IF audience = "member" THEN {r[2] : r \in {r \in Shown.films : r[1] = f}}
                 ELSE {s[1] : s \in {s \in Shown.shows : s[2] = f}}

\* With "Maintenant" only what is still to come today.
Listing == {f \in {r[1] : r \in Shown.films} :
              IsNow => \E s \in Later(Shown.shows, view.day, view.hour) : s[2] = f /\ s[1] \in CardHouses(f)}

\* newThisWeekMovies.
NewSection == IF IsSpecificDate THEN {} ELSE {f \in Listing : \E r \in Shown.films : r[1] = f /\ r[3]}

\* The bug: the badges of the New section follow the day open in the card.
InCard_Filtered(f, day, hour) == {h \in CardHouses(f) : \E s \in Later(Shown.shows, day, hour) : s[1] = h /\ s[2] = f}

\* displayedTheaters of an open card: a card of the New section lists all.
InCard(f, day, hour) == {h \in CardHouses(f) :
                           f \in NewSection \/ \E s \in Later(Shown.shows, day, hour) : s[1] = h /\ s[2] = f}

------------------------------------------------------------------------------
(* Properties.                                                              *)

\* Although movies and showtimes are read apart, a movie on the page has a
\* showtime in the days asked for at every Theater it was read with, unless the
\* programme changed between the two statements (movie-service.ts:72-134).
CardsHaveShowtimes ==
    \A key \in DOMAIN entries :
        entries[key].known /\ ~entries[key].torn =>
            \A r \in entries[key].films : \E s \in entries[key].shows : s[1] = r[2] /\ s[2] = r[1]

\* The page shows the days its view asks for; but a Member who selected today
\* and "Maintenant" in turn sees, under the key they share, the answer of the
\* other until the next fetch (HomePage.tsx:53-64).
ScopeOnScreen ==
    Shown.known =>
        IF view.day = NoDay THEN Shown.scope = NoDay \/ audience = "visitor"
        ELSE \/ Shown.scope = view.day
             \/ audience = "member" /\ Shown.scope = NoDay /\ Shown.now

\* A card of the New section lists every chosen Theater that programmes the
\* movie this week, whatever day is open in the card, provided the week was
\* asked for (TheaterShowtimes.tsx:52-65).
NewCardsListAll ==
    Shown.known /\ Shown.scope = NoDay /\ audience = "member" =>
        \A f \in NewSection, d \in Calendar, hour \in Hours :
            {r[2] : r \in {r \in Shown.films : r[1] = f}} \subseteq InCard(f, d, hour)

\* The Theater's page is never empty while showtimes are left, short of
\* "Maintenant" (TheaterContent.tsx:26-37).
HouseDayHasShows == visit.shows # {} /\ visit.hour = AnyHour => HouseListing # {}

HomeInv == /\ ScopeOnScreen /\ NewCardsListAll /\ HouseDayHasShows
           /\ \A r \in weekly : \E s \in shows : <<s[1], s[2], WeekStart(s[3])>> = r
           /\ news \subseteq weekly /\ chosen \subseteq open
           /\ view.hour # AnyHour => view.day # NoDay
=============================================================================
