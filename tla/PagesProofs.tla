---------------------------- MODULE PagesProofs -----------------------------
(***************************************************************************)
(* Proofs about the web client: BrowserAuth, for any tabs, calls and       *)
(* number of tokens; Homepage, for any Theaters, cards and number of       *)
(* moves; MemberCache, for any quotas and number of calls; AccountPages,   *)
(* for any bounds on mails, posts and gestures; MembersPage, for any page  *)
(* size and number of Members.  Then the client's components together, as  *)
(* MCPages runs them, with the forms of FormsProofs.                       *)
(***************************************************************************)
EXTENDS MCPages, FormsProofs, FiniteSetTheorems, SequenceTheorems, TLAPS

-----------------------------------------------------------------------------
(* The tabs of a browser and its session.                                  *)

CallType == [tab : Tabs \cup {"none"},
             pc : {"idle", "refused", "joined", "leaving"} \cup Refreshing,
             sent : 0 .. MaxLogins, got : 0 .. MaxLogins]
JarType == [access : BOOLEAN, refresh : 0 .. MaxLogins]

\* The types, as the steps speak of them.
LEMMA Types ==
  ASSUME BrowserInv
  PROVE  /\ call \in [Calls -> CallType] /\ jar \in JarType /\ NoCall \in CallType /\ NoCookies \in JarType
         /\ given \in 0 .. MaxLogins /\ MaxLogins \in Nat /\ live \subseteq 1 .. MaxLogins
         /\ user \in [Tabs -> BOOLEAN] /\ told \in [Tabs -> BOOLEAN] /\ stored \in BOOLEAN /\ excuse \in BOOLEAN
         /\ Refreshing = {"leading", "checked", "rotated", "rejected", "failed"} /\ NoCall.pc = "idle"
BY BrowserAssumption DEF BrowserAssumption, BrowserInv, BrowserTypeOK, CallType, JarType, NoCall, NoCookies, Key, Refreshing

\* A login: new cookies.
LEMMA LogInKeeps ==
  ASSUME BrowserInv, NEW t \in Tabs, LogIn(t)
  PROVE  BrowserInv'
<1> USE DEF BrowserInv, LogIn, Quiet
<1>1. BrowserTypeOK'
  <2>1. call' \in [Calls -> CallType]
    BY Types DEF CallType
  <2>2. jar' \in JarType
    BY Types DEF JarType
  <2>3. given' \in 0 .. MaxLogins /\ live' \subseteq 1 .. MaxLogins
    BY Types
  <2>4. user' \in [Tabs -> BOOLEAN] /\ told' \in [Tabs -> BOOLEAN] /\ stored' \in BOOLEAN
    BY Types
  <2>5. excuse' \in BOOLEAN
    BY Types
  <2> QED BY Types, <2>1, <2>2, <2>3, <2>4, <2>5 DEF BrowserTypeOK, CallType, JarType, Key
<1>2. CallsKnown'
  BY Types DEF CallsKnown, CallType, NoCall, Key
<1>3. SessionKept'
  BY Types DEF SessionKept, CallsKnown, Attended, Quiet, CallType, JarType, NoCall
<1> QED BY <1>1, <1>2, <1>3

\* A page is loaded.
LEMMA LoadPageKeeps ==
  ASSUME BrowserInv, NEW t \in Tabs, LoadPage(t)
  PROVE  BrowserInv'
<1> USE DEF BrowserInv, LoadPage
<1>1. BrowserTypeOK'
  <2>1. call' \in [Calls -> CallType]
    BY Types DEF CallType
  <2>2. jar' \in JarType
    BY Types DEF JarType
  <2> QED BY Types, <2>1, <2>2 DEF BrowserTypeOK, CallType, JarType, Key
<1>2. CallsKnown'
  BY Types DEF CallsKnown, CallType, NoCall, Key
<1>3. SessionKept'
  BY Types DEF SessionKept, CallsKnown, Attended, Quiet, CallType, JarType, NoCall
<1> QED BY <1>1, <1>2, <1>3

\* A logout is sent.
LEMMA LogOutKeeps ==
  ASSUME BrowserInv, NEW c \in Calls, NEW t \in Tabs, LogOut(c, t)
  PROVE  BrowserInv'
<1> USE DEF BrowserInv, LogOut
<1>1. BrowserTypeOK'
  <2>1. call' \in [Calls -> CallType]
    BY Types DEF CallType
  <2>2. jar' \in JarType
    BY Types DEF JarType
  <2> QED BY Types, <2>1, <2>2 DEF BrowserTypeOK, CallType, JarType, Key
<1>2. CallsKnown'
  BY Types DEF CallsKnown, CallType, NoCall, Key
<1>3. SessionKept'
  BY Types DEF SessionKept, CallsKnown, Attended, Quiet, CallType, JarType, NoCall
<1> QED BY <1>1, <1>2, <1>3

\* It is answered.
LEMMA LoggedOutKeeps ==
  ASSUME BrowserInv, NEW c \in Calls, LoggedOut(c)
  PROVE  BrowserInv'
<1> USE DEF BrowserInv, LoggedOut
<1>1. BrowserTypeOK'
  <2>1. call' \in [Calls -> CallType]
    BY Types DEF CallType
  <2>2. jar' \in JarType
    BY Types DEF JarType
  <2> QED BY Types, <2>1, <2>2 DEF BrowserTypeOK, CallType, JarType, Key
<1>2. CallsKnown'
  BY Types DEF CallsKnown, CallType, NoCall, Key
<1>3. SessionKept'
  BY Types DEF SessionKept, CallsKnown, Attended, Quiet, CallType, JarType, NoCall
<1> QED BY <1>1, <1>2, <1>3

\* A call is answered 401.
LEMMA RefusedKeeps ==
  ASSUME BrowserInv, NEW c \in Calls, NEW t \in Tabs, Refused(c, t)
  PROVE  BrowserInv'
<1> USE DEF BrowserInv, Refused
<1>1. BrowserTypeOK'
  <2>1. call' \in [Calls -> CallType]
    BY Types DEF CallType
  <2>2. jar' \in JarType
    BY Types DEF JarType
  <2> QED BY Types, <2>1, <2>2 DEF BrowserTypeOK, CallType, JarType, Key
<1>2. CallsKnown'
  BY Types DEF CallsKnown, CallType, NoCall, Key
<1>3. SessionKept'
  BY Types DEF SessionKept, CallsKnown, Attended, Quiet, CallType, JarType, NoCall
<1> QED BY <1>1, <1>2, <1>3

\* It starts a refresh.
LEMMA LeadRefreshKeeps ==
  ASSUME BrowserInv, NEW c \in Calls, LeadRefresh(c)
  PROVE  BrowserInv'
<1> USE DEF BrowserInv, LeadRefresh, InFlight, Leads
<1> DEFINE n == [call[c] EXCEPT !.pc = "leading", !.sent = jar.refresh]
<1>0. n \in CallType /\ n.pc = "leading" /\ n.sent = jar.refresh /\ n.tab = call[c].tab /\ call[c].tab \in Tabs
  BY Types DEF CallType, JarType, CallsKnown, NoCall
<1>a. call' = [call EXCEPT ![c] = n]
  OBVIOUS
<1> HIDE DEF n
<1>b. call' \in [Calls -> CallType] /\ call'[c] = n /\ \A d \in Calls \ {c} : call'[d] = call[d]
  BY <1>0, <1>a, Types
<1>1. BrowserTypeOK'
  BY Types, <1>b DEF BrowserTypeOK, CallType, JarType, Key
<1>2. CallsKnown'
  BY <1>0, <1>b, Types DEF CallsKnown
<1>3. SessionKept'
  <2>1. ~excuse' => \A d \in Calls : call[d].pc \notin Refreshing
    <3>1. \A d \in Calls : call[d].pc \in Refreshing => call[d].tab \in Tabs
      BY Types DEF CallsKnown
    <3> QED BY <3>1
  <2>2. call[c].pc = "refused" /\ call[c].pc # "idle"
    OBVIOUS
  <2> QED BY <1>0, <1>b, <2>1, <2>2, Types DEF SessionKept, Attended, Quiet
<1> QED BY <1>1, <1>2, <1>3

\* It joins the one in flight.
LEMMA JoinRefreshKeeps ==
  ASSUME BrowserInv, NEW c \in Calls, JoinRefresh(c)
  PROVE  BrowserInv'
<1> USE DEF BrowserInv, JoinRefresh, InFlight, Leads
<1> DEFINE n == [call[c] EXCEPT !.pc = "joined"]
<1>0. n \in CallType /\ n.pc = "joined" /\ n.tab = call[c].tab /\ call[c].pc = "refused"
  BY Types DEF CallType
<1>a. call' = [call EXCEPT ![c] = n]
  OBVIOUS
<1> HIDE DEF n
<1>b. call' \in [Calls -> CallType] /\ call'[c] = n /\ \A d \in Calls \ {c} : call'[d] = call[d]
  BY <1>0, <1>a, Types
<1>1. BrowserTypeOK'
  BY Types, <1>b DEF BrowserTypeOK, CallType, JarType, Key
<1>2. CallsKnown'
  BY <1>0, <1>b, Types DEF CallsKnown
<1>3. SessionKept'
  BY <1>0, <1>b, Types DEF SessionKept, Attended, Quiet
<1> QED BY <1>1, <1>2, <1>3

\* The server looks at the token.
LEMMA ServerValidatesKeeps ==
  ASSUME BrowserInv, NEW c \in Calls, ServerValidates(c)
  PROVE  BrowserInv'
<1> USE DEF BrowserInv, ServerValidates
<1>1. BrowserTypeOK'
  <2>1. call' \in [Calls -> CallType]
    BY Types DEF CallType
  <2>2. jar' \in JarType
    BY Types DEF JarType
  <2> QED BY Types, <2>1, <2>2 DEF BrowserTypeOK, CallType, JarType, Key
<1>2. CallsKnown'
  BY Types DEF CallsKnown, CallType, NoCall, Key
<1>3. SessionKept'
  BY Types DEF SessionKept, CallsKnown, Attended, Quiet, CallType, JarType, NoCall
<1> QED BY <1>1, <1>2, <1>3

\* The server rotates it.
LEMMA ServerRotatesKeeps ==
  ASSUME BrowserInv, NEW c \in Calls, ServerRotates(c)
  PROVE  BrowserInv'
<1> USE DEF BrowserInv, ServerRotates
<1>0. call[c].pc = "checked" /\ call[c].pc # "idle"
  OBVIOUS
<1>1. CASE call[c].sent \in live
  <2> DEFINE n == [call[c] EXCEPT !.pc = "rotated", !.got = given + 1]
  <2>1. given + 1 \in 1 .. MaxLogins
    BY <1>1, Types
  <2>2. n \in CallType /\ n.pc = "rotated" /\ n.got = given + 1 /\ n.tab = call[c].tab
    <3>1. given + 1 \in 0 .. MaxLogins /\ call[c] \in CallType /\ "rotated" \in Refreshing
      BY <2>1, Types
    <3> QED BY <3>1 DEF CallType
  <2>3. call' = [call EXCEPT ![c] = n]
    BY <1>1
  <2> HIDE DEF n
  <2>4. call' \in [Calls -> CallType] /\ call'[c] = n /\ \A d \in Calls \ {c} : call'[d] = call[d]
    BY <2>2, <2>3, Types
  <2>5. /\ given' = given + 1 /\ live' = (live \ {call[c].sent}) \cup {given + 1}
        /\ UNCHANGED <<jar, user, stored, told, excuse>>
    BY <1>1
  <2>6. BrowserTypeOK'
    BY Types, <2>1, <2>4, <2>5 DEF BrowserTypeOK, CallType, JarType, Key
  <2>7. CallsKnown'
    BY <1>0, <2>1, <2>2, <2>4, <2>5, Types DEF CallsKnown, Key
  <2>8. SessionKept'
    <3> SUFFICES ASSUME ~excuse, Attended' PROVE SessionKept'
      BY <2>5 DEF SessionKept
    <3>1. Attended
      BY <1>0 DEF Attended, Quiet
    <3>2. \A d \in Calls \ {c} : call[d].pc \notin Refreshing
      BY <1>0, <3>1, Types DEF SessionKept
    <3>3. \A d \in Calls \ {c} : call[d].pc \notin {"rejected", "failed", "leaving", "leading", "checked", "rotated"}
      BY <3>1, <3>2, Types DEF SessionKept
    <3> QED BY <2>2, <2>4, <2>5, <3>1, <3>2, <3>3, Types DEF SessionKept
  <2> QED BY <2>6, <2>7, <2>8
<1>2. CASE call[c].sent \notin live
  <2> DEFINE n == [call[c] EXCEPT !.pc = "failed"]
  <2>1. n \in CallType /\ n.pc = "failed" /\ n.tab = call[c].tab
    BY Types DEF CallType
  <2>2. call' = [call EXCEPT ![c] = n]
    BY <1>2
  <2> HIDE DEF n
  <2>3. call' \in [Calls -> CallType] /\ call'[c] = n /\ \A d \in Calls \ {c} : call'[d] = call[d]
    BY <2>1, <2>2, Types
  <2>4. UNCHANGED <<jar, live, given, user, stored, told, excuse>>
    BY <1>2
  <2>5. BrowserTypeOK'
    BY Types, <2>3, <2>4 DEF BrowserTypeOK, CallType, JarType, Key
  <2>6. CallsKnown'
    BY <1>0, <2>1, <2>3, <2>4, Types DEF CallsKnown
  <2>7. excuse
    BY <1>0, <1>2 DEF SessionKept, Attended, Quiet
  <2> QED BY <2>4, <2>5, <2>6, <2>7 DEF SessionKept
<1> QED BY <1>1, <1>2

\* The answer brings the new token.
LEMMA RefreshedKeeps ==
  ASSUME BrowserInv, NEW c \in Calls, Refreshed(c)
  PROVE  BrowserInv'
<1> USE DEF BrowserInv, Refreshed, Settled
<1>1. BrowserTypeOK'
  <2>1. call' \in [Calls -> CallType]
    BY Types DEF CallType
  <2>2. jar' \in JarType
    <3>1. call[c].got \in 0 .. MaxLogins
      BY Types DEF CallType
    <3> QED BY <3>1 DEF JarType
  <2> QED BY Types, <2>1, <2>2 DEF BrowserTypeOK, CallType, JarType, Key
<1>2. CallsKnown'
  BY Types DEF CallsKnown, CallType, NoCall, Key
<1>3. SessionKept'
  BY Types DEF SessionKept, CallsKnown, Attended, Quiet, CallType, JarType, NoCall
<1> QED BY <1>1, <1>2, <1>3

\* A failure is answered.
LEMMA AnsweredFailureKeeps ==
  ASSUME BrowserInv, NEW c \in Calls, AnsweredFailure(c)
  PROVE  BrowserInv'
<1> USE DEF BrowserInv, AnsweredFailure, RefreshFailed, Settled
<1> DEFINE t == call[c].tab
           e == [NoCall EXCEPT !.tab = t, !.pc = "leaving"]
<1>0. c \in Calls /\ call[c].pc # "idle" /\ t \in Tabs
  BY DEF CallsKnown, NoCall
<1>a. e \in CallType /\ e.pc = "leaving" /\ e.tab = t /\ e # NoCall
  BY <1>0, Types DEF CallType, NoCall
<1>b. Settled(c) \in [Calls -> CallType] /\ \A d \in Calls : Settled(c)[d] \in {call[d], NoCall}
  BY Types DEF Settled
<1> HIDE DEF e
<1>c. call' \in [Calls -> CallType]
  BY <1>a, <1>b DEF e
<1>d. \A d \in Calls : call'[d] \in {call[d], NoCall, e}
  BY <1>a, <1>b DEF e
<1>e. jar' \in JarType /\ live' \subseteq live /\ told' \in [Tabs -> BOOLEAN] /\ UNCHANGED <<given, user, stored>>
  BY <1>0, Types
<1>1. BrowserTypeOK'
  BY Types, <1>c, <1>e DEF BrowserTypeOK, CallType, JarType, Key
<1>2. CallsKnown'
  BY <1>0, <1>a, <1>d, <1>e, Types DEF CallsKnown
<1>3. SessionKept'
  BY <1>0 DEF SessionKept, Attended, Quiet
<1> QED BY <1>1, <1>2, <1>3

\* The client gives up.
LEMMA RefreshAbortsKeeps ==
  ASSUME BrowserInv, NEW c \in Calls, RefreshAborts(c)
  PROVE  BrowserInv'
<1> USE DEF BrowserInv, RefreshAborts, RefreshFailed, Settled
<1> DEFINE t == call[c].tab
           e == [NoCall EXCEPT !.tab = t, !.pc = "leaving"]
<1>0. c \in Calls /\ call[c].pc # "idle" /\ t \in Tabs
  BY DEF CallsKnown, NoCall
<1>a. e \in CallType /\ e.pc = "leaving" /\ e.tab = t /\ e # NoCall
  BY <1>0, Types DEF CallType, NoCall
<1>b. Settled(c) \in [Calls -> CallType] /\ \A d \in Calls : Settled(c)[d] \in {call[d], NoCall}
  BY Types DEF Settled
<1> HIDE DEF e
<1>c. call' \in [Calls -> CallType]
  BY <1>a, <1>b DEF e
<1>d. \A d \in Calls : call'[d] \in {call[d], NoCall, e}
  BY <1>a, <1>b DEF e
<1>e. jar' \in JarType /\ live' \subseteq live /\ told' \in [Tabs -> BOOLEAN] /\ UNCHANGED <<given, user, stored>>
  BY <1>0, Types
<1>1. BrowserTypeOK'
  BY Types, <1>c, <1>e DEF BrowserTypeOK, CallType, JarType, Key
<1>2. CallsKnown'
  BY <1>0, <1>a, <1>d, <1>e, Types DEF CallsKnown
<1>3. SessionKept'
  BY <1>0 DEF SessionKept, Attended, Quiet
<1> QED BY <1>1, <1>2, <1>3

\* The access token expires.
LEMMA AccessExpiresKeeps ==
  ASSUME BrowserInv, AccessExpires
  PROVE  BrowserInv'
<1> USE DEF BrowserInv, AccessExpires
<1>1. BrowserTypeOK'
  <2>1. call' \in [Calls -> CallType]
    BY Types DEF CallType
  <2>2. jar' \in JarType
    BY Types DEF JarType
  <2> QED BY Types, <2>1, <2>2 DEF BrowserTypeOK, CallType, JarType, Key
<1>2. CallsKnown'
  BY Types DEF CallsKnown, CallType, NoCall, Key
<1>3. SessionKept'
  BY Types DEF SessionKept, CallsKnown, Attended, Quiet, CallType, JarType, NoCall
<1> QED BY <1>1, <1>2, <1>3

\* The server ends the Session.
LEMMA SessionEndsKeeps ==
  ASSUME BrowserInv, SessionEnds
  PROVE  BrowserInv'
<1> USE DEF BrowserInv, SessionEnds
<1>1. BrowserTypeOK'
  <2>1. call' \in [Calls -> CallType]
    BY Types DEF CallType
  <2>2. jar' \in JarType
    BY Types DEF JarType
  <2> QED BY Types, <2>1, <2>2 DEF BrowserTypeOK, CallType, JarType, Key
<1>2. CallsKnown'
  BY Types DEF CallsKnown, CallType, NoCall, Key
<1>3. SessionKept'
  BY Types DEF SessionKept, CallsKnown, Attended, Quiet, CallType, JarType, NoCall
<1> QED BY <1>1, <1>2, <1>3

-----------------------------------------------------------------------------

\* The invariant holds for a browser with or without a session.
LEMMA BrowserStarts == BrowserInit => BrowserInv
<1> SUFFICES ASSUME BrowserInit PROVE BrowserInv
  OBVIOUS
<1>1. BrowserTypeOK
  <2>1. 0 \in 0 .. MaxLogins
    BY BrowserAssumption DEF BrowserAssumption
  <2>2. NoCall \in CallType
    BY <2>1 DEF NoCall, CallType
  <2>3. call \in [Calls -> CallType]
    BY <2>2 DEF BrowserInit
  <2>4. jar \in JarType
    BY <2>1 DEF BrowserInit, NoCookies, JarType
  <2> QED BY <2>1, <2>3, <2>4 DEF BrowserInit, BrowserTypeOK, CallType, JarType
<1>2. \A c \in Calls : call[c] = NoCall /\ call[c].pc = "idle"
  BY DEF BrowserInit, NoCall
<1>3. ~Attended
  BY <1>2 DEF BrowserInit, Attended, Quiet
<1> QED BY <1>1, <1>2, <1>3 DEF BrowserInit, BrowserInv, CallsKnown, SessionKept

\* Every step of the tabs and of the server preserves the invariant.
LEMMA BrowserSteps == BrowserInv /\ [BrowserNext]_browserVars => BrowserInv'
<1> SUFFICES ASSUME BrowserInv, [BrowserNext]_browserVars PROVE BrowserInv'
  OBVIOUS
<1>1. CASE BrowserNext
  BY <1>1, LogInKeeps, LoadPageKeeps, LogOutKeeps, LoggedOutKeeps, RefusedKeeps, LeadRefreshKeeps, JoinRefreshKeeps,
     ServerValidatesKeeps, ServerRotatesKeeps, RefreshedKeeps, AnsweredFailureKeeps, RefreshAbortsKeeps,
     AccessExpiresKeeps, SessionEndsKeeps DEF BrowserNext
<1>2. CASE UNCHANGED browserVars
  BY <1>2 DEF browserVars, BrowserInv, BrowserTypeOK, CallsKnown, SessionKept, Attended, Quiet
<1> QED BY <1>1, <1>2

\* A tab is never signed out by its own calls, whatever their number and the order of
\* their answers (client/src/api/core.ts, AuthContext.tsx).
THEOREM TabSignedIn == BrowserSpec => TabKeepsSession
<1> DEFINE Kept == \A t \in Tabs : user[t] /\ ~user'[t] => excuse'
<1>1. ASSUME BrowserInv, [BrowserNext]_browserVars PROVE Kept
  <2> SUFFICES ASSUME NEW t \in Tabs, user[t], ~user'[t], ~excuse' PROVE FALSE
    OBVIOUS
  <2>1. \/ \E p \in Tabs : LogIn(p) \/ LoadPage(p)
        \/ \E c \in Calls : LoggedOut(c)
    BY <1>1 DEF BrowserNext, browserVars, LogOut, Refused, LeadRefresh, JoinRefresh, ServerValidates, ServerRotates,
       Refreshed, AnsweredFailure, RefreshAborts, RefreshFailed, AccessExpires, SessionEnds
  <2>2. user \in [Tabs -> BOOLEAN] /\ Attended
    BY <1>1, Types DEF Attended
  <2>3. ASSUME NEW p \in Tabs, LogIn(p) PROVE FALSE
    BY <2>2, <2>3 DEF LogIn
  <2>4. ASSUME NEW p \in Tabs, LoadPage(p) PROVE FALSE
    BY <1>1, <2>2, <2>4 DEF LoadPage, BrowserInv, SessionKept
  <2>5. ASSUME NEW c \in Calls, LoggedOut(c) PROVE FALSE
    BY <1>1, <2>2, <2>5 DEF LoggedOut, BrowserInv, SessionKept
  <2> QED BY <2>1, <2>3, <2>4, <2>5
<1>2. BrowserSpec => []BrowserInv
  BY BrowserStarts, BrowserSteps, PTL DEF BrowserSpec
<1>3. BrowserSpec => [][Kept]_browserVars
  BY <1>1, <1>2, PTL DEF BrowserSpec
<1> QED BY <1>3 DEF TabKeepsSession

-----------------------------------------------------------------------------
(* The Homepage and a Theater's page.                                      *)

Keys == Calendar \union {NoDay}
Cards == Films \X Houses \X BOOLEAN

\* A request that the server has half read, and an answer the browser keeps.
HalfRead == [at : {"films", "shows"}, scope : Keys, now : BOOLEAN, week : Int, houses : SUBSET Houses,
             films : SUBSET Cards, shows : SUBSET Showings, torn : BOOLEAN]
AskedFor == [at : {"asked"}, scope : Keys, now : BOOLEAN]
AnswerKept == [known : {TRUE}, scope : Keys, now : BOOLEAN, week : Int, films : SUBSET Cards,
               shows : SUBSET Showings, torn : BOOLEAN]
VisitType == [house : SUBSET Houses, shows : SUBSET Showings, day : Keys, hour : Hours \union {AnyHour}]

\* The programme in the database.
WeekHasShow(r) == \E s \in shows : <<s[1], s[2], WeekStart(s[3])>> = r
DataOK == /\ open \subseteq Houses /\ chosen \subseteq open
          /\ shows \subseteq Showings
          /\ weekly \subseteq Houses \X Films \X Int /\ news \subseteq weekly
          /\ \A r \in weekly : WeekHasShow(r)

\* What each request and each answer is for.
ScopeFits(key, scope, now) ==
  IF key = NoDay THEN scope = NoDay \/ audience = "visitor"
  ELSE scope = key \/ (audience = "member" /\ scope = NoDay /\ now)

\* The half that was read is what would be read now, until something changes.
FilmsNow(request) == IF audience = "member" THEN SelectionFilms(request) ELSE PublicFilms(request)
ShowsNow(request) == {s \in shows : InScope(request, s) /\ s[1] \in request.houses}
ReadIsCurrent(request) ==
  ~request.torn => /\ request.houses = IF audience = "member" THEN chosen ELSE open
                   /\ request.at = "films" => request.films = FilmsNow(request)
                   /\ request.at = "shows" => request.shows = ShowsNow(request)

AskOK(key) ==
  /\ fetching[key] = NoAsk \/ fetching[key] \in AskedFor \/ fetching[key] \in HalfRead
  /\ fetching[key] # NoAsk => ScopeFits(key, fetching[key].scope, fetching[key].now) /\ audience # "house"
  /\ \A request \in HalfRead : fetching[key] = request => ReadIsCurrent(request)

HasShows(answer) == ~answer.torn => \A r \in answer.films : \E s \in answer.shows : s[1] = r[2] /\ s[2] = r[1]
EntryOK(key) ==
  /\ entries[key] = NoEntry \/ entries[key] \in AnswerKept
  /\ entries[key] # NoEntry => /\ ScopeFits(key, entries[key].scope, entries[key].now) /\ audience # "house"
                               /\ HasShows(entries[key])

BarOK == /\ audience \in {"visitor", "member", "staff", "house"}
         /\ clock \in {OpeningDay, OpeningDay + 1}
         /\ view \in [day : Keys, hour : Hours \union {AnyHour}]
         /\ view.hour # AnyHour => view.day # NoDay
         /\ visit \in VisitType

Lines == /\ DOMAIN fetching = Keys /\ DOMAIN entries = Keys
         /\ \A key \in Keys : AskOK(key) /\ EntryOK(key)

HomeIInv == DataOK /\ BarOK /\ Lines

\* The days of the calendar.
LEMMA HomeKeys ==
  /\ Calendar \subseteq Nat /\ OpeningDay \in Calendar /\ OpeningDay + 1 \in Calendar
  /\ Calendar = {OpeningDay - 1, OpeningDay, OpeningDay + 1}
  /\ NoDay \notin Calendar /\ NoDay \in Keys /\ Calendar \subseteq Keys
BY HomepageAssumption DEF HomepageAssumption, Calendar, NoDay, Keys

\* The Wednesday of a week is an integer (getWeekStartForDate).
LEMMA WeekIsInt == ASSUME NEW day \in Nat PROVE WeekStart(day) \in Int
BY DEF WeekStart, DayOfWeek

\* The first of some days of the calendar is one of them.
LEMMA EarliestIn ==
  ASSUME NEW days \in SUBSET Calendar, days # {}
  PROVE  Earliest(days) \in days
<1>1. \E d \in days : \A e \in days : d <= e
  <2> DEFINE o == OpeningDay
  <2>1. o \in Nat /\ o - 1 \in Int /\ o + 1 \in Int /\ \A d \in days : d \in {o - 1, o, o + 1}
    BY HomeKeys, HomepageAssumption DEF HomepageAssumption
  <2> HIDE DEF o
  <2>2. CASE o - 1 \in days
    BY <2>1, <2>2
  <2>3. CASE o - 1 \notin days /\ o \in days
    BY <2>1, <2>3
  <2>4. CASE o - 1 \notin days /\ o \notin days
    BY <2>1, <2>4
  <2> QED BY <2>2, <2>3, <2>4
<1>2. PICK d \in days : \A e \in days : d <= e
  BY <1>1
<1> QED BY <1>2 DEF Earliest

\* The invariant gives what the runs check.
LEMMA HouseHasDay == BarOK => HouseDayHasShows
<1> SUFFICES ASSUME BarOK, visit.shows # {}, visit.hour = AnyHour PROVE HouseListing # {}
  BY DEF HouseDayHasShows
<1> DEFINE days == Days(visit.shows)
<1>1. visit.shows \subseteq Showings
  BY DEF BarOK, VisitType
<1>2. days # {} /\ days \subseteq Calendar
  BY <1>1 DEF Days, Showings
<1>3. Earliest(days) \in days
  BY <1>2, EarliestIn
<1>4. EffectiveDate \in days
  BY <1>3 DEF EffectiveDate, InitialDate
<1>5. PICK s \in visit.shows : s[3] = EffectiveDate
  BY <1>4 DEF Days
<1>6. s \in HouseListing
  BY <1>5 DEF HouseListing, Later, AnyHour
<1> QED BY <1>6

\* A card of the New section lists every chosen Theater that programmes its movie.
LEMMA NewCards == NewCardsListAll
BY DEF NewCardsListAll, InCard, CardHouses

\* The inductive invariant implies what the pages promise.
LEMMA HomeImplies == HomeIInv => HomeInv /\ CardsHaveShowtimes
<1> SUFFICES ASSUME HomeIInv PROVE HomeInv /\ CardsHaveShowtimes
  OBVIOUS
<1>1. CardsHaveShowtimes
  BY DEF HomeIInv, Lines, EntryOK, HasShows, CardsHaveShowtimes, NoEntry
<1>2. ScopeOnScreen
  BY DEF HomeIInv, Lines, EntryOK, BarOK, ScopeOnScreen, Shown, QueryKey, ScopeFits, NoEntry
<1>3. HouseDayHasShows /\ NewCardsListAll
  BY HouseHasDay, NewCards DEF HomeIInv
<1> QED BY <1>1, <1>2, <1>3 DEF HomeIInv, HomeInv, DataOK, WeekHasShow, BarOK

\* What is read is of the theaters, the films and the calendar; every film read
\* has a showtime among those that are read with it.
LEMMA ReadsTyped ==
  ASSUME DataOK, BarOK, NEW request \in HalfRead
  PROVE  FilmsNow(request) \in SUBSET Cards /\ ShowsNow(request) \in SUBSET Showings
<1>1. ShowsNow(request) \in SUBSET Showings
  BY DEF ShowsNow, DataOK
<1>2. \A s \in shows : s[1] \in Houses /\ s[2] \in Films
  BY DEF DataOK, Showings
<1>3. SelectionFilms(request) \in SUBSET Cards
  <2> SUFFICES ASSUME NEW r \in SelectionFilms(request) PROVE r \in Cards
    OBVIOUS
  <2> DEFINE new(s) == <<s[1], s[2], request.week>> \in news
  <2>1. \A s \in shows : new(s) \in BOOLEAN
    OBVIOUS
  <2>2. PICK s \in shows : r = <<s[2], s[1], new(s)>>
    BY DEF SelectionFilms
  <2> HIDE DEF new
  <2> QED BY <1>2, <2>1, <2>2 DEF Cards
<1>4. PublicFilms(request) \in SUBSET Cards
  <2> SUFFICES ASSUME NEW r \in PublicFilms(request) PROVE r \in Cards
    OBVIOUS
  <2>1. (\E s \in shows : r = <<s[2], s[1], FALSE>>) \/ (\E w \in weekly : r = <<w[2], w[1], FALSE>>)
    BY DEF PublicFilms
  <2>2. \A w \in weekly : w[1] \in Houses /\ w[2] \in Films
    BY DEF DataOK
  <2>3. ASSUME NEW f \in Films, NEW h \in Houses, r = <<f, h, FALSE>>
        PROVE  r \in Cards
    BY <2>3 DEF Cards
  <2> QED BY <1>2, <2>1, <2>2, <2>3
<1> QED BY <1>1, <1>3, <1>4 DEF FilmsNow

\* Movies and showtimes read from one state of the database belong together: every
\* movie has a showtime in the days asked for at its Theater.
LEMMA ReadsMeet ==
  ASSUME DataOK, NEW request \in HalfRead, request.houses = IF audience = "member" THEN chosen ELSE open
  PROVE  \A r \in FilmsNow(request) : \E s \in ShowsNow(request) : s[1] = r[2] /\ s[2] = r[1]
<1> SUFFICES ASSUME NEW r \in FilmsNow(request)
             PROVE  \E s \in shows : InScope(request, s) /\ s[1] \in request.houses /\ s[1] = r[2] /\ s[2] = r[1]
  BY DEF ShowsNow
<1>1. CASE audience = "member"
  <2>1. PICK s \in shows : /\ InScope(request, s) /\ s[1] \in request.houses
                           /\ r = <<s[2], s[1], <<s[1], s[2], request.week>> \in news>>
    BY <1>1 DEF FilmsNow, SelectionFilms
  <2>2. r[2] = s[1] /\ r[1] = s[2]
    BY <2>1
  <2> QED BY <2>1, <2>2
<1>2. CASE audience # "member" /\ request.scope # NoDay
  <2>1. PICK s \in shows : InScope(request, s) /\ r = <<s[2], s[1], FALSE>>
    BY <1>2 DEF FilmsNow, PublicFilms
  <2>2. r[2] = s[1] /\ r[1] = s[2] /\ s[1] \in open
    BY <2>1 DEF InScope
  <2> QED BY <1>2, <2>1, <2>2
<1>3. CASE audience # "member" /\ request.scope = NoDay
  <2>1. PICK w \in weekly : w[1] \in open /\ w[3] = request.week /\ r = <<w[2], w[1], FALSE>>
    BY <1>3 DEF FilmsNow, PublicFilms
  <2>2. PICK s \in shows : <<s[1], s[2], WeekStart(s[3])>> = w
    BY DEF DataOK, WeekHasShow
  <2>3. r[2] = w[1] /\ r[1] = w[2] /\ w[1] = s[1] /\ w[2] = s[2] /\ w[3] = WeekStart(s[3])
    BY <2>1, <2>2
  <2>4. InScope(request, s) /\ s[1] \in request.houses
    BY <1>3, <2>1, <2>3 DEF InScope
  <2> QED BY <2>3, <2>4
<1> QED BY <1>1, <1>2, <1>3

\* As long as the programme and the audience stay, so does what is known of a
\* request and of an answer that stay.
LEMMA SameReads ==
  ASSUME UNCHANGED <<audience, homeData>>, NEW request
  PROVE  /\ FilmsNow(request)' = FilmsNow(request) /\ ShowsNow(request)' = ShowsNow(request)
         /\ ReadIsCurrent(request) => ReadIsCurrent(request)'
<1>1. UNCHANGED <<audience, open, shows, weekly, news, chosen>>
  BY DEF homeData
<1>2. \A s : InScope(request, s)' <=> InScope(request, s)
  BY <1>1 DEF InScope
<1>3. ShowsNow(request)' = ShowsNow(request)
  BY <1>1, <1>2 DEF ShowsNow
<1>4. SelectionFilms(request)' = SelectionFilms(request)
  BY <1>1, <1>2 DEF SelectionFilms
<1>5. PublicFilms(request)' = PublicFilms(request)
  BY <1>1, <1>2 DEF PublicFilms
<1>6. FilmsNow(request)' = FilmsNow(request)
  BY <1>1, <1>4, <1>5 DEF FilmsNow
<1> QED BY <1>1, <1>3, <1>6 DEF ReadIsCurrent

\* What leaves the audience and the database alone keeps every request and answer it
\* does not touch.
LEMMA SameLines ==
  ASSUME UNCHANGED <<audience, homeData>>, NEW key
  PROVE  /\ fetching'[key] = fetching[key] /\ AskOK(key) => AskOK(key)'
         /\ entries'[key] = entries[key] /\ EntryOK(key) => EntryOK(key)'
<1>1. audience' = audience
  OBVIOUS
<1>2. ASSUME fetching'[key] = fetching[key], AskOK(key)
      PROVE  AskOK(key)'
  BY <1>1, <1>2, SameReads DEF AskOK, ScopeFits
<1>3. ASSUME entries'[key] = entries[key], EntryOK(key)
      PROVE  EntryOK(key)'
  BY <1>1, <1>3 DEF EntryOK, HasShows, ScopeFits
<1> QED BY <1>2, <1>3

\* What the view asks for is for the view.
WantedOK == /\ Wanted \in Keys /\ IsNow \in BOOLEAN /\ view.day \in Keys
            /\ audience # "house" => \A day \in Keys : day = view.day => ScopeFits(day, Wanted, IsNow)

\* What the view wants is for the key it is asked under.
LEMMA WantedFits == BarOK => WantedOK
<1> SUFFICES ASSUME BarOK PROVE WantedOK
  OBVIOUS
<1>1. view.day \in Keys /\ clock \in Keys /\ NoDay \in Keys
  BY HomeKeys DEF BarOK
<1>2. audience \in {"visitor", "member", "staff", "house"}
  BY DEF BarOK
<1> QED BY <1>1, <1>2 DEF WantedOK, Wanted, IsNow, IsSpecificDate, ScopeFits

\* The same of the next view.
LEMMA WantedFitsNext == BarOK' => WantedOK'
BY WantedFits, PTL

\* The page is opened, focused or narrowed.
LEMMA AskKeeps ==
  ASSUME HomeIInv, BarOK', audience # "house", UNCHANGED <<audience, homeData, entries>>,
         \/ fetching' = fetching
         \/ fetching' = [fetching EXCEPT ![view'.day] = [at |-> "asked", scope |-> Wanted', now |-> IsNow']]
  PROVE  HomeIInv'
<1>1. DataOK'
  BY DEF HomeIInv, DataOK, WeekHasShow, homeData
<1>2. ASSUME NEW key \in Keys, fetching'[key] = fetching[key]
      PROVE  AskOK(key)' /\ EntryOK(key)'
  BY <1>2, SameLines DEF HomeIInv, Lines
<1>3. DOMAIN fetching = Keys /\ DOMAIN entries' = Keys /\ DOMAIN fetching' = Keys
  BY DEF HomeIInv, Lines
<1>4. CASE fetching' = fetching
  BY <1>1, <1>2, <1>3, <1>4 DEF HomeIInv, Lines
<1>5. CASE fetching' = [fetching EXCEPT ![view'.day] = [at |-> "asked", scope |-> Wanted', now |-> IsNow']]
  <2>1. PICK day \in Keys, scope \in Keys, now \in BOOLEAN :
          day = view'.day /\ scope = Wanted' /\ now = IsNow' /\ ScopeFits(day, scope, now)'
    <3>1. /\ Wanted' \in Keys /\ IsNow' \in BOOLEAN /\ view'.day \in Keys
          /\ \A day \in Keys : day = view'.day => ScopeFits(day, Wanted, IsNow)'
      BY WantedFitsNext DEF WantedOK
    <3> QED BY <3>1 DEF ScopeFits
  <2> DEFINE new == [at |-> "asked", scope |-> scope, now |-> now]
  <2>2. new \in AskedFor /\ new.at = "asked" /\ new.scope = scope /\ new.now = now /\ new \notin HalfRead
    BY DEF AskedFor, HalfRead
  <2>3. fetching' = [fetching EXCEPT ![day] = new]
    BY <1>5, <2>1
  <2> HIDE DEF new
  <2>4. fetching'[day] = new /\ \A key \in Keys \ {day} : fetching'[key] = fetching[key]
    BY <1>3, <2>3
  <2>5. AskOK(day)'
    BY <2>1, <2>2, <2>4 DEF AskOK
  <2>6. EntryOK(day)'
    BY SameLines DEF HomeIInv, Lines
  <2>7. \A key \in Keys : AskOK(key)' /\ EntryOK(key)'
    BY <1>2, <2>4, <2>5, <2>6
  <2> QED BY <1>1, <1>3, <2>7 DEF HomeIInv, Lines
<1> QED BY <1>4, <1>5

\* A step at one request and its answer.
LEMMA LineKeeps ==
  ASSUME HomeIInv, UNCHANGED <<audience, clock, homeData, view, visit>>, NEW key \in Keys,
         DOMAIN fetching' = Keys, DOMAIN entries' = Keys,
         \A other \in Keys \ {key} : fetching'[other] = fetching[other] /\ entries'[other] = entries[other],
         AskOK(key)', EntryOK(key)'
  PROVE  HomeIInv'
<1>1. DataOK'
  BY DEF HomeIInv, DataOK, WeekHasShow, homeData
<1>2. BarOK'
  BY DEF HomeIInv, BarOK
<1>3. \A other \in Keys : AskOK(other)' /\ EntryOK(other)'
  BY SameLines DEF HomeIInv, Lines
<1> QED BY <1>1, <1>2, <1>3 DEF HomeIInv, Lines

\* What one of the two statements gives.
LEMMA ReadGives ==
  ASSUME DataOK, BarOK, NEW q \in HalfRead, NEW half \in {"films", "shows"}
  PROVE  /\ Read(q, half) \in HalfRead
         /\ Read(q, half).at = q.at /\ Read(q, half).torn = q.torn
         /\ Read(q, half).scope = q.scope /\ Read(q, half).now = q.now
         /\ Read(q, half).week = q.week /\ Read(q, half).houses = q.houses
         /\ Read(q, half).films = IF half = "shows" THEN q.films ELSE FilmsNow(q)
         /\ Read(q, half).shows = IF half = "films" THEN q.shows ELSE ShowsNow(q)
<1> DEFINE films == IF half = "shows" THEN q.films ELSE FilmsNow(q)
           rows == IF half = "films" THEN q.shows ELSE ShowsNow(q)
<1>1. Read(q, half) = [q EXCEPT !.films = films, !.shows = rows]
  <2>1. DOMAIN q = {"at", "scope", "now", "week", "houses", "films", "shows", "torn"}
    BY DEF HalfRead
  <2>2. CASE half = "films"
    BY <2>1, <2>2 DEF Read, FilmsNow, ShowsNow
  <2>3. CASE half = "shows"
    BY <2>1, <2>3 DEF Read, FilmsNow, ShowsNow
  <2> QED BY <2>2, <2>3
<1>2. films \in SUBSET Cards /\ rows \in SUBSET Showings
  BY ReadsTyped DEF HalfRead
<1> HIDE DEF films, rows
<1>3. [q EXCEPT !.films = films, !.shows = rows] \in HalfRead
  BY <1>2 DEF HalfRead
<1>4. /\ [q EXCEPT !.films = films, !.shows = rows].films = films
      /\ [q EXCEPT !.films = films, !.shows = rows].shows = rows
      /\ \A f \in {"at", "torn", "scope", "now", "week", "houses"} :
           [q EXCEPT !.films = films, !.shows = rows][f] = q[f]
  BY DEF HalfRead
<1> QED BY <1>1, <1>3, <1>4 DEF films, rows

\* Two requests that ask the same are answered the same.
LEMMA SameQuestion ==
  ASSUME NEW q, NEW r, q.scope = r.scope, q.week = r.week, q.houses = r.houses
  PROVE  FilmsNow(q) = FilmsNow(r) /\ ShowsNow(q) = ShowsNow(r)
<1>1. \A s : InScope(q, s) <=> InScope(r, s)
  BY DEF InScope
<1>2. SelectionFilms(q) = SelectionFilms(r)
  BY <1>1 DEF SelectionFilms
<1>3. PublicFilms(q) = PublicFilms(r)
  BY <1>1 DEF PublicFilms
<1> QED BY <1>1, <1>2, <1>3 DEF FilmsNow, ShowsNow

\* The first of the two statements of a request.
LEMMA ReadFirstKeeps ==
  ASSUME HomeIInv, NEW key \in Keys, NEW half \in {"films", "shows"}, ReadFirst(key, half)
  PROVE  HomeIInv'
<1> DEFINE ask == [at |-> half, scope |-> fetching[key].scope, now |-> fetching[key].now, week |-> WeekStart(clock),
                   houses |-> IF audience = "member" THEN chosen ELSE open,
                   films |-> {}, shows |-> {}, torn |-> FALSE]
<1>1. /\ fetching[key] \in AskedFor /\ ScopeFits(key, fetching[key].scope, fetching[key].now)
      /\ audience # "house" /\ DataOK /\ BarOK /\ EntryOK(key) /\ DOMAIN fetching = Keys /\ DOMAIN entries = Keys
  BY DEF HomeIInv, Lines, AskOK, ReadFirst, NoAsk, HalfRead
<1>2. WeekStart(clock) \in Int
  BY <1>1, WeekIsInt, HomepageAssumption DEF BarOK, HomepageAssumption
<1>3. PICK houses \in SUBSET Houses : houses = IF audience = "member" THEN chosen ELSE open
  BY <1>1 DEF DataOK
<1>4. PICK q \in HalfRead : /\ q = ask /\ q.at = half /\ q.scope = fetching[key].scope /\ q.now = fetching[key].now
                            /\ q.houses = houses
  <2>1. ask = [at |-> half, scope |-> fetching[key].scope, now |-> fetching[key].now, week |-> WeekStart(clock),
               houses |-> houses, films |-> {}, shows |-> {}, torn |-> FALSE]
    BY <1>3
  <2>2. ask \in HalfRead
    BY <1>1, <1>2, <2>1 DEF AskedFor, HalfRead
  <2> QED BY <2>1, <2>2
<1>5. fetching' = [fetching EXCEPT ![key] = Read(q, half)]
  BY <1>4 DEF ReadFirst
<1>6. PICK got \in HalfRead : got = Read(q, half)
  BY <1>1, ReadGives
<1>7. /\ got.at = half /\ got.scope = fetching[key].scope /\ got.now = fetching[key].now /\ got.week = q.week
      /\ got.houses = houses
      /\ half = "films" => got.films = FilmsNow(q)
      /\ half = "shows" => got.shows = ShowsNow(q)
  BY <1>1, <1>4, <1>6, ReadGives
<1> HIDE DEF ask
<1>8. UNCHANGED <<audience, clock, homeData, view, entries, visit>>
  BY DEF ReadFirst
<1>9. /\ fetching'[key] = got /\ DOMAIN fetching' = Keys
      /\ \A other \in Keys \ {key} : fetching'[other] = fetching[other]
  BY <1>1, <1>5, <1>6
<1>10. ReadIsCurrent(got)
  <2>1. FilmsNow(got) = FilmsNow(q) /\ ShowsNow(got) = ShowsNow(q)
    BY <1>4, <1>7, SameQuestion
  <2> QED BY <1>3, <1>7, <2>1 DEF ReadIsCurrent
<1>11. ReadIsCurrent(got)'
  BY <1>8, <1>10, SameReads
<1>12. got # NoAsk /\ got \notin AskedFor
  BY <1>7 DEF NoAsk, AskedFor
<1>13. AskOK(key)'
  BY <1>1, <1>7, <1>8, <1>9, <1>11, <1>12 DEF AskOK, ScopeFits
<1>14. EntryOK(key)'
  BY <1>1, <1>8, SameLines
<1> QED BY <1>1, <1>8, <1>9, <1>13, <1>14, LineKeeps

\* The second statement, with the answer that is kept.
LEMMA ReadSecondKeeps ==
  ASSUME HomeIInv, NEW key \in Keys, NEW half \in {"films", "shows"}, ReadSecond(key, half)
  PROVE  HomeIInv'
<1>1. PICK q \in HalfRead : /\ q = fetching[key] /\ q.at = (IF half = "films" THEN "shows" ELSE "films")
                            /\ ReadIsCurrent(q) /\ ScopeFits(key, q.scope, q.now)
  BY DEF HomeIInv, Lines, AskOK, ReadSecond, NoAsk, AskedFor
<1>2. audience # "house" /\ DataOK /\ BarOK /\ DOMAIN fetching = Keys /\ DOMAIN entries = Keys
  BY <1>1 DEF HomeIInv, Lines, AskOK, NoAsk, HalfRead
<1>3. PICK got \in HalfRead : got = Read(q, half)
  BY <1>2, ReadGives
<1>4. /\ got.scope = q.scope /\ got.now = q.now /\ got.week = q.week /\ got.torn = q.torn
      /\ got.films = IF half = "shows" THEN q.films ELSE FilmsNow(q)
      /\ got.shows = IF half = "films" THEN q.shows ELSE ShowsNow(q)
  BY <1>2, <1>3, ReadGives
<1> DEFINE answer == [known |-> TRUE, scope |-> got.scope, now |-> got.now, week |-> got.week,
                      films |-> got.films, shows |-> got.shows, torn |-> got.torn]
<1>5. /\ entries' = [entries EXCEPT ![key] = answer] /\ fetching' = [fetching EXCEPT ![key] = NoAsk]
      /\ UNCHANGED <<audience, clock, homeData, view, visit>>
  BY <1>1, <1>3 DEF ReadSecond
<1>6. /\ answer \in AnswerKept /\ answer.scope = got.scope /\ answer.now = got.now /\ answer.films = got.films
      /\ answer.shows = got.shows /\ answer.torn = got.torn
  BY DEF HalfRead, AnswerKept
<1> HIDE DEF answer
<1>7. HasShows(answer)
  <2> SUFFICES ASSUME ~q.torn
               PROVE  \A r \in got.films : \E s \in got.shows : s[1] = r[2] /\ s[2] = r[1]
    BY <1>4, <1>6 DEF HasShows
  <2>1. got.films = FilmsNow(q) /\ got.shows = ShowsNow(q) /\ q.houses = IF audience = "member" THEN chosen ELSE open
    BY <1>1, <1>4 DEF ReadIsCurrent
  <2> QED BY <1>2, <2>1, ReadsMeet
<1>8. /\ fetching'[key] = NoAsk /\ entries'[key] = answer /\ DOMAIN fetching' = Keys /\ DOMAIN entries' = Keys
      /\ \A other \in Keys \ {key} : fetching'[other] = fetching[other] /\ entries'[other] = entries[other]
  BY <1>2, <1>5
<1>9. NoAsk \notin HalfRead
  BY DEF NoAsk, HalfRead
<1>10. AskOK(key)'
  BY <1>8, <1>9 DEF AskOK
<1>11. EntryOK(key)'
  BY <1>1, <1>2, <1>4, <1>5, <1>6, <1>7, <1>8 DEF EntryOK, ScopeFits, HasShows
<1> QED BY <1>5, <1>8, <1>10, <1>11, LineKeeps

\* A request that fails keeps the last answer.
LEMMA LoadFailsKeeps ==
  ASSUME HomeIInv, NEW key \in Keys, LoadFails(key)
  PROVE  HomeIInv'
<1>1. /\ fetching' = [fetching EXCEPT ![key] = NoAsk] /\ UNCHANGED <<audience, clock, homeData, view, entries, visit>>
      /\ DOMAIN fetching = Keys /\ DOMAIN entries = Keys /\ EntryOK(key)
  BY DEF LoadFails, HomeIInv, Lines
<1>2. /\ fetching'[key] = NoAsk /\ DOMAIN fetching' = Keys
      /\ \A other \in Keys \ {key} : fetching'[other] = fetching[other]
  BY <1>1
<1>3. AskOK(key)'
  BY <1>2 DEF AskOK, NoAsk, HalfRead
<1>4. EntryOK(key)'
  BY <1>1, SameLines
<1> QED BY <1>1, <1>2, <1>3, <1>4, LineKeeps

\* Whatever changes behind the page marks what is half read.
LEMMA AlterKeeps ==
  ASSUME HomeIInv, Alter, DataOK'
  PROVE  HomeIInv'
<1>1. /\ UNCHANGED <<audience, clock, view, entries, visit>>
      /\ fetching' = [d \in DOMAIN fetching |->
                        IF fetching[d].at \in {"films", "shows"}
                        THEN [fetching[d] EXCEPT !.torn = TRUE] ELSE fetching[d]]
  BY DEF Alter
<1>2. BarOK'
  BY <1>1 DEF HomeIInv, BarOK
<1>3. ASSUME NEW key \in Keys
      PROVE  AskOK(key)' /\ EntryOK(key)'
  <2>1. DOMAIN fetching = Keys /\ AskOK(key) /\ EntryOK(key)
    BY DEF HomeIInv, Lines
  <2>2. EntryOK(key)'
    BY <1>1, <2>1 DEF EntryOK, HasShows, ScopeFits
  <2>3. CASE fetching[key] \in HalfRead
    <3>1. PICK q \in HalfRead : q = fetching[key] /\ q.at \in {"films", "shows"}
      BY <2>3 DEF HalfRead
    <3>2. fetching'[key] = [q EXCEPT !.torn = TRUE]
      BY <1>1, <2>1, <3>1
    <3> DEFINE m == [q EXCEPT !.torn = TRUE]
    <3>3. m \in HalfRead /\ m.torn /\ m.scope = q.scope /\ m.now = q.now
      BY DEF HalfRead
    <3> HIDE DEF m
    <3>4. PICK marked \in HalfRead : /\ marked = m /\ marked.torn
                                     /\ marked.scope = q.scope /\ marked.now = q.now
      BY <3>3
    <3>5. marked = [q EXCEPT !.torn = TRUE]
      BY <3>4 DEF m
    <3>6. ReadIsCurrent(marked)'
      BY <3>4 DEF ReadIsCurrent
    <3>7. ScopeFits(key, q.scope, q.now) /\ audience # "house" /\ marked # NoAsk
      BY <2>1, <3>1 DEF AskOK, NoAsk, HalfRead
    <3>8. AskOK(key)'
      BY <1>1, <3>2, <3>4, <3>5, <3>6, <3>7 DEF AskOK, ScopeFits
    <3> QED BY <2>2, <3>8
  <2>4. CASE fetching[key] \notin HalfRead
    <3>1. fetching[key].at \notin {"films", "shows"}
      BY <2>1, <2>4 DEF AskOK, NoAsk, AskedFor
    <3>2. fetching'[key] = fetching[key]
      BY <1>1, <2>1, <3>1
    <3>3. AskOK(key)'
      BY <1>1, <2>1, <2>4, <3>2 DEF AskOK, ScopeFits
    <3> QED BY <2>2, <3>3
  <2> QED BY <2>3, <2>4
<1>4. DOMAIN fetching' = Keys /\ DOMAIN entries' = Keys
  BY <1>1 DEF HomeIInv, Lines
<1> QED BY <1>2, <1>3, <1>4 DEF HomeIInv, Lines

\* The programme stays whole: what a scrape stores, the removal of a Theater, a choice.
LEMMA StoreShowKeeps ==
  ASSUME HomeIInv, NEW s \in Showings, StoreShow(s)
  PROVE  HomeIInv'
<1>1. DataOK'
  BY DEF StoreShow, HomeIInv, DataOK, WeekHasShow
<1> QED BY <1>1, AlterKeeps DEF StoreShow

\* A scrape stores a week of a movie with its showtime.
LEMMA StoreWeekKeeps ==
  ASSUME HomeIInv, NEW h \in Houses, NEW f \in Films, NEW d \in Calendar, NEW new \in BOOLEAN,
         StoreWeek(<<h, f, WeekStart(d)>>, new)
  PROVE  HomeIInv'
<1> DEFINE row == <<h, f, WeekStart(d)>>
<1>1. row \in Houses \X Films \X Int
  BY WeekIsInt, HomeKeys
<1> HIDE DEF row
<1>2. /\ \E s \in shows : <<s[1], s[2], WeekStart(s[3])>> = row
      /\ weekly' = weekly \union {row}
      /\ news' = IF new THEN news \union {row} ELSE news \ {row}
      /\ UNCHANGED <<open, shows, chosen>> /\ Alter
  BY DEF StoreWeek, row
<1>3. DataOK'
  BY <1>1, <1>2 DEF HomeIInv, DataOK, WeekHasShow
<1> QED BY <1>2, <1>3, AlterKeeps

\* A Theater leaves the catalog, with its rows and the choices of it.
LEMMA RemoveHouseKeeps ==
  ASSUME HomeIInv, NEW h \in Houses, RemoveHouse(h)
  PROVE  HomeIInv'
<1>1. /\ open' = open \ {h} /\ chosen' = chosen \ {h}
      /\ shows' = {s \in shows : s[1] # h}
      /\ weekly' = {r \in weekly : r[1] # h}
      /\ news' = {r \in news : r[1] # h} /\ Alter
  BY DEF RemoveHouse
<1>2. ASSUME NEW r \in weekly'
      PROVE  \E s \in shows' : <<s[1], s[2], WeekStart(s[3])>> = r
  <2>1. r \in weekly /\ r[1] # h
    BY <1>1, <1>2
  <2>2. PICK s \in shows : <<s[1], s[2], WeekStart(s[3])>> = r
    BY <2>1 DEF HomeIInv, DataOK, WeekHasShow
  <2>3. s[1] # h
    BY <2>1, <2>2
  <2> QED BY <1>1, <2>2, <2>3
<1>3. DataOK'
  BY <1>1, <1>2 DEF HomeIInv, DataOK, WeekHasShow
<1> QED BY <1>1, <1>3, AlterKeeps

\* The Member chooses a Theater or drops it.
LEMMA ChooseHouseKeeps ==
  ASSUME HomeIInv, NEW h \in Houses, ChooseHouse(h)
  PROVE  HomeIInv'
<1>1. DataOK'
  BY DEF ChooseHouse, HomeIInv, DataOK, WeekHasShow
<1> QED BY <1>1, AlterKeeps DEF ChooseHouse

\* A step of the clock, or of a Theater's page.
LEMMA VisitMoves ==
  ASSUME HomeIInv, UNCHANGED <<audience, homeData, view, entries, fetching>>,
         clock' \in {OpeningDay, OpeningDay + 1}, visit' \in VisitType
  PROVE  HomeIInv'
<1>1. DataOK'
  BY DEF HomeIInv, DataOK, WeekHasShow, homeData
<1>2. BarOK'
  BY DEF HomeIInv, BarOK
<1>3. Lines'
  BY SameLines DEF HomeIInv, Lines
<1> QED BY <1>1, <1>2, <1>3 DEF HomeIInv

\* The day a Theater's page opens on is a day of the calendar, or none.
LEMMA InitialIn == ASSUME NEW set \in SUBSET Showings PROVE InitialDate(set) \in Keys
<1>1. Days(set) \subseteq Calendar
  BY DEF Days, Showings
<1>2. set # {} => Days(set) # {}
  BY DEF Days
<1>3. set # {} => Earliest(Days(set)) \in Calendar
  BY <1>1, <1>2, EarliestIn
<1> QED BY <1>1, <1>3, HomeKeys DEF InitialDate

\* Midnight, and the steps of a Theater's page.
LEMMA VisitsKeep ==
  ASSUME HomeIInv, \/ Midnight
                   \/ \E h \in Houses : Visit(h) \/ RefreshVisit(h)
                   \/ \E d \in Calendar, hour \in Hours \union {AnyHour} : PickHouseDay(d, hour)
  PROVE  HomeIInv'
<1>1. visit \in VisitType /\ clock \in {OpeningDay, OpeningDay + 1}
  BY DEF HomeIInv, BarOK
<1>2. ASSUME NEW h \in Houses
      PROVE  HouseShows(h) \in SUBSET Showings
  BY DEF HouseShows, HomeIInv, DataOK
<1>3. CASE Midnight
  BY <1>1, <1>3, VisitMoves DEF Midnight
<1>4. ASSUME NEW h \in Houses, Visit(h)
      PROVE  HomeIInv'
  <2>1. visit' \in VisitType
    BY <1>2, <1>4, InitialIn DEF Visit, VisitType
  <2> QED BY <1>1, <1>4, <2>1, VisitMoves DEF Visit
<1>5. ASSUME NEW h \in Houses, RefreshVisit(h)
      PROVE  HomeIInv'
  <2>1. visit' \in VisitType
    BY <1>1, <1>2, <1>5 DEF RefreshVisit, VisitType
  <2> QED BY <1>1, <1>5, <2>1, VisitMoves DEF RefreshVisit
<1>6. ASSUME NEW d \in Calendar, NEW hour \in Hours \union {AnyHour}, PickHouseDay(d, hour)
      PROVE  HomeIInv'
  <2>1. visit' \in VisitType
    BY <1>1, <1>6, HomeKeys DEF PickHouseDay, VisitType
  <2> QED BY <1>1, <1>6, <2>1, VisitMoves DEF PickHouseDay
<1> QED BY <1>3, <1>4, <1>5, <1>6

\* The user opens the page, comes back to it, or narrows it.
LEMMA AsksKeep ==
  ASSUME HomeIInv, \/ Mount \/ Focus \/ ResetAll
                   \/ \E d \in Calendar : SelectDate(d)
                   \/ \E hour \in Hours : SelectNow(hour)
  PROVE  HomeIInv'
<1>1. ASSUME audience # "house", UNCHANGED <<audience, clock, homeData, entries, visit>>,
             view' \in [day : Keys, hour : Hours \union {AnyHour}], view'.hour # AnyHour => view'.day # NoDay,
             fetching' = fetching \/ fetching' = Fetches(view'.day)
      PROVE  HomeIInv'
  <2>1. BarOK'
    BY <1>1 DEF HomeIInv, BarOK
  <2>2. \/ fetching' = fetching
        \/ fetching' = [fetching EXCEPT ![view'.day] = [at |-> "asked", scope |-> Wanted', now |-> IsNow']]
    BY <1>1 DEF Fetches
  <2> QED BY <1>1, <2>1, <2>2, AskKeeps
<1>2. view \in [day : Keys, hour : Hours \union {AnyHour}] /\ (view.hour # AnyHour => view.day # NoDay)
  BY DEF HomeIInv, BarOK
<1>3. ASSUME Mount \/ Focus
      PROVE  HomeIInv'
  <2>1. audience # "house" /\ UNCHANGED <<audience, clock, homeData, entries, visit, view>>
    BY <1>3 DEF Mount, Focus
  <2>2. fetching' = Fetches(view'.day)
    <3>1. fetching' = Fetches(QueryKey)
      BY <1>3 DEF Mount, Focus
    <3> QED BY <2>1, <3>1 DEF QueryKey, Fetches
  <2> QED BY <1>1, <1>2, <2>1, <2>2
<1>4. ASSUME NEW day \in Keys, NEW hour \in Hours \union {AnyHour}, hour # AnyHour => day # NoDay,
             Narrow(day, hour)
      PROVE  HomeIInv'
  <2>1. audience # "house"
    BY <1>2, <1>4 DEF Narrow, HomeIInv, Lines, EntryOK, NoEntry, QueryKey
  <2>2. view' = [day |-> day, hour |-> hour] /\ UNCHANGED <<audience, clock, homeData, entries, visit>>
    BY <1>4 DEF Narrow
  <2>3. fetching' = fetching \/ fetching' = Fetches(view'.day)
    BY <1>4 DEF Narrow, QueryKey, Fetches
  <2>4. view' \in [day : Keys, hour : Hours \union {AnyHour}] /\ (view'.hour # AnyHour => view'.day # NoDay)
    BY <1>4, <2>2
  <2> QED BY <1>1, <2>1, <2>2, <2>3, <2>4
<1>5. clock \in Keys /\ clock # NoDay
  BY HomeKeys DEF HomeIInv, BarOK
<1>6. NoDay \in Keys /\ AnyHour \in Hours \union {AnyHour} /\ Calendar \subseteq Keys
  BY HomeKeys
<1> QED BY <1>3, <1>4, <1>5, <1>6 DEF ResetAll, SelectDate, SelectNow

\* The invariant holds before anything is loaded.
LEMMA HomeStarts == HomeInit => HomeIInv
<1> SUFFICES ASSUME HomeInit PROVE HomeIInv
  OBVIOUS
<1>1. shows \subseteq Showings
  BY DEF HomeInit, kSubset
<1>2. /\ open = Houses /\ chosen = Houses
      /\ weekly = {<<s[1], s[2], WeekStart(s[3])>> : s \in shows} /\ news \in {{}, weekly}
  BY DEF HomeInit
<1>3. \A s \in shows : s[1] \in Houses /\ s[2] \in Films /\ WeekStart(s[3]) \in Int
  BY <1>1, WeekIsInt, HomeKeys DEF Showings
<1>4. weekly \subseteq Houses \X Films \X Int
  BY <1>2, <1>3
<1>5. DataOK
  BY <1>1, <1>2, <1>4 DEF DataOK, WeekHasShow
<1>6. BarOK
  BY HomeKeys DEF HomeInit, BarOK, VisitType, NoVisit
<1>7. Lines
  <2>1. DOMAIN fetching = Keys /\ DOMAIN entries = Keys
    BY DEF HomeInit, Keys
  <2>2. \A key \in Keys : fetching[key] = NoAsk /\ entries[key] = NoEntry
    BY DEF HomeInit, Keys
  <2>3. NoAsk \notin HalfRead
    BY DEF NoAsk, HalfRead
  <2> QED BY <2>1, <2>2, <2>3 DEF Lines, AskOK, EntryOK
<1> QED BY <1>5, <1>6, <1>7 DEF HomeIInv

\* Every step preserves it.
LEMMA HomeSteps == HomeIInv /\ [HomeNext]_homeVars => HomeIInv'
<1> SUFFICES ASSUME HomeIInv, [HomeNext]_homeVars PROVE HomeIInv'
  OBVIOUS
<1>1. ASSUME \/ Mount \/ Focus \/ ResetAll \/ Midnight
             \/ \E d \in Calendar : SelectDate(d)
             \/ \E hour \in Hours : SelectNow(hour)
      PROVE  HomeIInv'
  BY <1>1, AsksKeep, VisitsKeep
<1>2. ASSUME NEW key \in DOMAIN fetching,
             LoadFails(key) \/ \E half \in {"films", "shows"} : ReadFirst(key, half) \/ ReadSecond(key, half)
      PROVE  HomeIInv'
  <2>1. key \in Keys
    BY DEF HomeIInv, Lines
  <2> QED BY <1>2, <2>1, LoadFailsKeeps, ReadFirstKeeps, ReadSecondKeeps
<1>3. ASSUME NEW s \in Showings, StoreShow(s)
      PROVE  HomeIInv'
  BY <1>3, StoreShowKeeps
<1>4. ASSUME NEW h \in Houses, NEW f \in Films, NEW d \in Calendar, NEW new \in BOOLEAN,
             StoreWeek(<<h, f, WeekStart(d)>>, new)
      PROVE  HomeIInv'
  BY <1>4, StoreWeekKeeps
<1>5. ASSUME NEW h \in Houses, RemoveHouse(h) \/ ChooseHouse(h) \/ Visit(h) \/ RefreshVisit(h)
      PROVE  HomeIInv'
  BY <1>5, RemoveHouseKeeps, ChooseHouseKeeps, VisitsKeep
<1>6. ASSUME NEW d \in Calendar, NEW hour \in Hours \union {AnyHour}, PickHouseDay(d, hour)
      PROVE  HomeIInv'
  BY <1>6, VisitsKeep
<1>7. ASSUME UNCHANGED homeVars
      PROVE  HomeIInv'
  BY <1>7, VisitMoves DEF homeVars, HomeIInv, BarOK
<1> QED BY <1>1, <1>2, <1>3, <1>4, <1>5, <1>6, <1>7 DEF HomeNext

\* Although movies and showtimes are read apart, a movie on the page has a showtime
\* in the days asked for at every Theater it was read with, unless the programme
\* changed in between; the page shows the days its view asks for; a card of the New
\* section lists every chosen Theater; a Theater's page is not empty while showtimes
\* are left.
THEOREM CardsShown == HomeSpec => [](HomeInv /\ CardsHaveShowtimes)
BY HomeImplies, HomeStarts, HomeSteps, PTL DEF HomeSpec

-----------------------------------------------------------------------------
(* The Member's queries.                                                   *)

\* The answer of a write is on its way, and what its page refreshes then holds
\* the watched query; every notice does.
RefreshDue(kind) ==
  /\ calls[kind] \in {"changed", "queued", "conflict"}
  /\ \E key \in IF kind \in RowControls THEN RowRefresh(calls[kind]) ELSE CinemasRefresh(calls[kind]) :
        Matches(key, watched)
Coming == notice \/ \E kind \in Kinds \ {"appearance"} : RefreshDue(kind)

\* Unless the browser is excused, old data is on a page, or in an answer to come,
\* only until the refresh that is coming.
EntryServed ==
  ~excused => /\ fetch = "old" => Coming
              /\ Mounted /\ fetch = "none" => data = "fresh" \/ Coming

\* While no toggle is in flight, the Appearance that is shown, or that a fetch
\* carries, is the stored one.
LookServed ==
  ~excused /\ watched = Me /\ calls["appearance"] = "none" =>
    /\ fetch \in {"fresh", "old"} => fetched = appearance
    /\ fetch = "none" => shown = appearance

CacheIInv == CacheTypeOK /\ selection \subseteq catalog /\ EntryServed /\ LookServed

\* The first of one or two is the sequence of it.
LEMMA FirstOfFew ==
  ASSUME NEW a, NEW b
  PROVE  /\ Len(<<a>>) = 1 /\ SubSeq(<<a>>, 1, 1) = <<a>>
         /\ Len(<<a, b>>) = 2 /\ SubSeq(<<a, b>>, 1, 1) = <<a>>
<1> DEFINE S == {a, b}
<1>1. <<a>> \in Seq(S) /\ <<a, b>> \in Seq(S) /\ Len(<<a>>) = 1 /\ Len(<<a, b>>) = 2
      /\ <<a>>[1] = a /\ <<a, b>>[1] = a
  OBVIOUS
<1>2. ASSUME NEW s \in Seq(S), Len(s) = 1 \/ Len(s) = 2, s[1] = a
      PROVE  SubSeq(s, 1, 1) = <<a>>
  <2> DEFINE first == SubSeq(s, 1, 1)
  <2>1. \A i \in 1..1 : s[i] \in S
    BY <1>2
  <2>2. first \in Seq(S) /\ Len(first) = IF 1 <= 1 THEN 1 - 1 + 1 ELSE 0
    BY <2>1, SubSeqProperties
  <2>3. \A i \in 1..(1 - 1 + 1) : first[i] = s[1 + i - 1]
    BY <2>1, SubSeqProperties
  <2> HIDE DEF first
  <2>4. Len(first) = 1 /\ first[1] = a
    BY <1>2, <2>2, <2>3
  <2>5. \A i \in 1..Len(first) : first[i] = <<a>>[i]
    BY <2>4, <1>1
  <2> HIDE DEF S
  <2>6. first = <<a>>
    BY <1>1, <2>2, <2>4, <2>5, SeqEqual
  <2> QED BY <2>6 DEF first
<1> HIDE DEF S
<1> QED BY <1>1, <1>2, Zenon

\* Which key holds which query.
LEMMA KeysHoldQueries ==
  /\ Matches(Me, Me) /\ Matches(Me, MySubmissions) /\ Matches(MySelection, MySelection)
  /\ Matches(SelectionMovies, SelectionMovies)
  /\ Me # MySubmissions /\ Me # MySelection /\ Me # SelectionMovies
  /\ MySubmissions # MySelection /\ MySubmissions # SelectionMovies
  /\ MySelection # SelectionMovies
<1>1. \A q : Len(<<q>>) = 1 /\ SubSeq(<<q>>, 1, 1) = <<q>>
  BY FirstOfFew
<1>2. Len(MySubmissions) = 2 /\ SubSeq(MySubmissions, 1, 1) = Me
  BY FirstOfFew DEF MySubmissions, Me
<1>3. Me[1] = "me" /\ MySelection[1] = "selection" /\ SelectionMovies[1] = "selection-movies"
      /\ MySubmissions[1] = "me" /\ Len(Me) = 1
  BY DEF Me, MySelection, SelectionMovies, MySubmissions
<1>4. Matches(Me, Me) /\ Matches(MySelection, MySelection)
      /\ Matches(SelectionMovies, SelectionMovies)
  <2>1. \A q : Matches(<<q>>, <<q>>)
    <3> SUFFICES ASSUME NEW q
                 PROVE  Matches(<<q>>, <<q>>)
      OBVIOUS
    <3>1. Len(<<q>>) = 1 /\ SubSeq(<<q>>, 1, 1) = <<q>> /\ 1 <= 1
      BY <1>1
    <3> QED BY <3>1, Zenon DEF Matches
  <2> QED BY <2>1 DEF Me, MySelection, SelectionMovies
<1>5. Matches(Me, MySubmissions)
  BY <1>2, <1>3 DEF Matches
<1>6. Me # MySubmissions
  BY <1>2, <1>3
<1>7. /\ Me # MySelection /\ Me # SelectionMovies
      /\ MySubmissions # MySelection /\ MySubmissions # SelectionMovies
      /\ MySelection # SelectionMovies
  BY <1>3
<1> QED BY <1>4, <1>5, <1>6, <1>7

\* A refresh of the Selection, and of what it can change, reaches every query.
LEMMA SelectionKeysReachAll ==
  ASSUME NEW query \in Queries
  PROVE  \E key \in SelectionKeys : Matches(key, query)
BY KeysHoldQueries DEF Queries, SelectionKeys

\* The profile is on every page.
LEMMA ProfileIsMounted ==
  ASSUME page \in Pages, watched = Me
  PROVE  Mounted
<1>1. page \in {"home", "cinemas", "submissions", "account"}
  BY DEF Pages, PageQueries
<1>2. \A p \in {"home", "cinemas", "submissions", "account"} : Me \in PageQueries[p]
  BY DEF PageQueries, HomeQueries, CinemasQueries, SubmissionsQueries, AccountQueries
<1> QED BY <1>1, <1>2 DEF Mounted

\* An answer that changed the Selection, or found it full, is followed by a
\* refresh that holds the watched query.
LEMMA AnswersRefresh ==
  ASSUME NEW kind, calls[kind] \in {"changed", "conflict"}, watched \in Queries
  PROVE  RefreshDue(kind)
<1>1. SelectionKeys \subseteq
        IF kind \in RowControls THEN RowRefresh(calls[kind]) ELSE CinemasRefresh(calls[kind])
  BY DEF RowRefresh, CinemasRefresh
<1> QED BY <1>1, SelectionKeysReachAll DEF RefreshDue

\* A proposal that was queued is followed by one that holds the Member's submissions.
LEMMA QueuedRefreshes ==
  ASSUME NEW kind, calls[kind] = "queued", watched = MySubmissions
  PROVE  RefreshDue(kind)
<1>1. Me \in IF kind \in RowControls THEN RowRefresh(calls[kind]) ELSE CinemasRefresh(calls[kind])
  BY DEF RowRefresh, CinemasRefresh, SelectionKeys
<1> QED BY <1>1, KeysHoldQueries DEF RefreshDue

-----------------------------------------------------------------------------
(* What the server answers.                                                *)

\* The answer depends on what is stored.
LEMMA OnlyChangesOutdate ==
  ASSUME watched \in Queries, UNCHANGED <<catalog, selection, paid>>, Outdates
  PROVE  watched = MySubmissions /\ attempt' # attempt
<1>1. UNCHANGED <<Profile, MyChoices, Projection>>
  BY DEF Profile, MyChoices, Projection, OverQuota, ActiveCount, Quota
<1>2. attempt' = attempt => UNCHANGED SubmissionRow
  BY DEF SubmissionRow
<1> QED BY <1>1, <1>2, KeysHoldQueries DEF Outdates, Queries

\* An addition adds the Theater asked for at most, and drops none.
LEMMA AddsFromCatalog ==
  ASSUME NEW t
  PROVE  AddTo(t) \subseteq selection \union {t} /\ selection \subseteq AddTo(t)
BY DEF AddTo

\* What a step of the server does to the entry is made good by a refresh to come.
LEMMA AgedIsServed ==
  ASSUME CacheTypeOK, EntryServed, EntryAges, UNCHANGED <<watched, page>>,
         excused => excused', ~excused' => ((Coming \/ Outdates) => Coming')
  PROVE  EntryServed'
<1> SUFFICES ASSUME ~excused'
             PROVE  /\ fetch' = "old" => Coming'
                    /\ Mounted' /\ fetch' = "none" => data' = "fresh" \/ Coming'
  BY DEF EntryServed
<1>1. CASE Outdates
  BY <1>1
<1>2. CASE ~Outdates
  <2>1. data' = data /\ fetch' = fetch
    BY <1>2 DEF EntryAges, Aged
  <2>2. Mounted' = Mounted
    BY DEF Mounted
  <2> QED BY <2>1, <2>2 DEF EntryServed
<1> QED BY <1>1, <1>2

\* A change of what the server holds ages data and answers, and ends no fetch.
LEMMA AgedType ==
  ASSUME CacheTypeOK, EntryAges
  PROVE  /\ data' \in {"absent", "fresh", "old"}
         /\ fetch' \in {"none", "asked", "fresh", "old"}
         /\ fetch' \in {"fresh", "old"} => fetch \in {"fresh", "old"}
         /\ fetch' = "none" => fetch = "none"
BY DEF CacheTypeOK, EntryAges, Aged

\* Only an answer that leaves its call ends what is coming.
LEMMA OthersStillCome ==
  ASSUME NEW kind \in Kinds, NEW answer, CacheTypeOK, watched' = watched,
         calls' = [calls EXCEPT ![kind] = answer], notice => notice',
         kind = "appearance" \/ ~RefreshDue(kind)
  PROVE  Coming => Coming'
<1> SUFFICES ASSUME NEW k \in Kinds \ {"appearance"}, RefreshDue(k)
             PROVE  Coming'
  BY DEF Coming
<1>1. k # kind /\ calls'[k] = calls[k]
  BY DEF CacheTypeOK
<1>2. RefreshDue(k)'
  BY <1>1 DEF RefreshDue
<1> QED BY <1>2 DEF Coming

\* A write that changes its state leaves the others alone.
LEMMA CallsKeepType ==
  ASSUME NEW kind \in Kinds, CacheTypeOK,
         NEW answer \in {"none", "sent", "changed", "queued", "conflict", "refused"},
         calls' = [calls EXCEPT ![kind] = answer]
  PROVE  /\ calls' \in [Kinds -> {"none", "sent", "changed", "queued", "conflict", "refused"}]
         /\ calls'[kind] = answer
         /\ kind # "appearance" => calls'["appearance"] = calls["appearance"]
BY DEF CacheTypeOK, Kinds

\* What is coming hangs on the calls, the notice and the query alone.
LEMMA NothingComesOrGoes ==
  ASSUME UNCHANGED <<calls, notice, watched>>
  PROVE  Coming' = Coming
BY DEF Coming, RefreshDue

-----------------------------------------------------------------------------
(* The steps.                                                              *)

\* The invariant holds when the browser opens.
LEMMA CacheStarts ==
  ASSUME CacheInit
  PROVE  CacheIInv
<1> USE DEF CacheInit
<1>1. CacheTypeOK
  BY DEF CacheTypeOK, Looks, Pages, PageQueries, Kinds
<1>2. fetch = "none" => ~Mounted
  OBVIOUS
<1>3. watched # Me \/ fetch = "asked"
  BY <1>1, ProfileIsMounted DEF CacheTypeOK
<1> QED BY <1>1, <1>2, <1>3, MemberCacheAssumption DEF CacheIInv, EntryServed, LookServed

\* An invalidation restarts a fetch, or excuses the browser, or met an entry that no
\* page shows.
LEMMA InvalidateServes ==
  ASSUME CacheIInv, NEW keys, Invalidate(keys),
         UNCHANGED <<cacheServer, watched, page, data, shown>>, wanted' \in Looks,
         calls' \in [Kinds -> {"none", "sent", "changed", "queued", "conflict", "refused"}],
         calls'["appearance"] = calls["appearance"], notice' \in BOOLEAN,
         Coming => Coming' \/ \E key \in keys : Matches(key, watched)
  PROVE  CacheIInv'
<1>1. CacheTypeOK'
  BY DEF CacheIInv, CacheTypeOK, Invalidate, Looks, Mounted, cacheServer
<1>2. Mounted' = Mounted
  BY DEF Mounted
<1>3. EntryServed' /\ LookServed'
  <2>1. CASE ~\E key \in keys : Matches(key, watched)
    <3>1. UNCHANGED <<fetch, fetched, excused>> /\ (Coming => Coming')
      BY <2>1 DEF Invalidate
    <3> QED BY <3>1, <1>2 DEF CacheIInv, EntryServed, LookServed, cacheServer
  <2>2. CASE \E key \in keys : Matches(key, watched)
    <3>1. CASE Mounted /\ (fetch = "none" \/ data # "absent")
      BY <2>2, <3>1 DEF Invalidate, EntryServed, LookServed
    <3>2. CASE ~(Mounted /\ (fetch = "none" \/ data # "absent"))
      <4>1. fetch' = fetch /\ fetched' = fetched /\ (excused' <=> excused \/ fetch # "none")
        BY <2>2, <3>2 DEF Invalidate
      <4>2. CASE fetch # "none"
        BY <4>1, <4>2 DEF EntryServed, LookServed
      <4>3. CASE fetch = "none"
        <5>1. ~Mounted /\ fetch' = "none"
          BY <3>2, <4>1, <4>3
        <5> QED BY <4>1, <4>3, <5>1, <1>2 DEF CacheIInv, EntryServed, LookServed, cacheServer
      <4> QED BY <4>2, <4>3
    <3> QED BY <3>1, <3>2
  <2> QED BY <2>1, <2>2
<1> QED BY <1>1, <1>3 DEF CacheIInv, cacheServer

\* Mounts, focus, the statements and the end of a fetch, and the collection of an
\* entry nobody shows.
LEMMA QueriesFetch ==
  ASSUME CacheIInv,
         (\E p \in Pages : Navigate(p)) \/ WindowFocus \/ FetchReads \/ FetchEnds
         \/ FetchFails \/ Collect
  PROVE  CacheIInv'
<1>1. UNCHANGED cacheServer /\ UNCHANGED <<calls, notice, watched, wanted>>
  BY DEF Navigate, WindowFocus, FetchReads, FetchEnds, FetchFails, Collect
<1>2. Coming' = Coming
  BY <1>1, NothingComesOrGoes
<1>3. UNCHANGED <<catalog, selection, attempt, paid, appearance>>
  BY <1>1 DEF cacheServer
<1>4. CASE \E p \in Pages : Navigate(p)
  <2> PICK p \in Pages : Navigate(p)
    BY <1>4
  <2>1. UNCHANGED <<data, fetched, shown, excused>> /\ page' = p
        /\ fetch' = IF watched \in PageQueries[p] /\ fetch = "none" THEN "asked" ELSE fetch
    BY DEF Navigate
  <2>2. Mounted' <=> watched \in PageQueries[p]
    BY <2>1, <1>1 DEF Mounted
  <2>3. CacheTypeOK'
    BY <2>1, <1>1, <1>3 DEF CacheIInv, CacheTypeOK
  <2>4. EntryServed'
    BY <2>1, <2>2, <1>2 DEF CacheIInv, EntryServed
  <2>5. LookServed'
    BY <2>1, <1>1, <1>3 DEF CacheIInv, LookServed
  <2> QED BY <2>3, <2>4, <2>5, <1>3 DEF CacheIInv
<1>5. CASE WindowFocus
  <2>1. CacheTypeOK'
    BY <1>5, <1>1, <1>3 DEF CacheIInv, CacheTypeOK, WindowFocus
  <2>2. EntryServed' /\ LookServed'
    BY <1>5 DEF EntryServed, LookServed, WindowFocus
  <2> QED BY <2>1, <2>2, <1>3 DEF CacheIInv
<1>6. CASE FetchReads
  <2>1. CacheTypeOK'
    BY <1>6, <1>1, <1>3 DEF CacheIInv, CacheTypeOK, FetchReads
  <2>2. EntryServed'
    BY <1>6 DEF EntryServed, FetchReads
  <2>3. LookServed'
    BY <1>6, <1>3, <1>1 DEF LookServed, FetchReads
  <2> QED BY <2>1, <2>2, <2>3, <1>3 DEF CacheIInv
<1>7. CASE FetchEnds
  <2>1. /\ fetch \in {"fresh", "old"} /\ data' = fetch /\ fetch' = "none" /\ fetched' = "light"
        /\ shown' = IF watched = Me THEN fetched ELSE shown
        /\ excused' <=> excused /\ (fetch = "old" \/ (watched = Me /\ fetched # appearance))
        /\ page' = page
    BY <1>7 DEF FetchEnds
  <2>2. CacheTypeOK'
    <3>1. excused' \in BOOLEAN
      BY <1>7 DEF FetchEnds
    <3> QED BY <2>1, <3>1, <1>1, <1>3 DEF CacheIInv, CacheTypeOK, Looks
  <2>3. EntryServed'
    BY <2>1, <1>2 DEF CacheIInv, EntryServed
  <2>4. LookServed'
    BY <2>1, <1>1, <1>3 DEF CacheIInv, LookServed
  <2> QED BY <2>2, <2>3, <2>4, <1>3 DEF CacheIInv
<1>8. CASE FetchFails
  <2>1. CacheTypeOK'
    BY <1>8, <1>1, <1>3 DEF CacheIInv, CacheTypeOK, FetchFails, Looks
  <2>2. EntryServed' /\ LookServed'
    BY <1>8 DEF EntryServed, LookServed, FetchFails
  <2> QED BY <2>1, <2>2, <1>3 DEF CacheIInv
<1>9. CASE Collect
  <2>1. CacheTypeOK'
    BY <1>9, <1>1, <1>3 DEF CacheIInv, CacheTypeOK, Collect
  <2>2. ~Mounted' /\ UNCHANGED <<fetch, fetched, shown, excused>>
    BY <1>9, <1>1 DEF Collect, Mounted
  <2>3. EntryServed'
    BY <2>2, <1>2 DEF CacheIInv, EntryServed
  <2>4. LookServed'
    BY <2>2, <1>1, <1>3 DEF CacheIInv, LookServed
  <2> QED BY <2>1, <2>3, <2>4, <1>3 DEF CacheIInv
<1> QED BY <1>4, <1>5, <1>6, <1>7, <1>8, <1>9

\* A click sends a write, and a toggle shows its Appearance at once.
LEMMA BrowserSends ==
  ASSUME CacheIInv, Toggle \/ \E kind \in Kinds : Send(kind)
  PROVE  CacheIInv'
<1>1. CASE \E kind \in Kinds : Send(kind)
  <2> PICK kind \in Kinds : Send(kind)
    BY <1>1
  <2>1. /\ kind # "appearance" /\ calls[kind] = "none"
        /\ calls' = [calls EXCEPT ![kind] = "sent"]
        /\ UNCHANGED <<catalog, selection, attempt, paid, appearance>>
        /\ UNCHANGED <<watched, page, data, fetch, fetched, shown, wanted, notice, excused>>
    <3>1. kind \in DisabledBy(kind)
      BY DEF DisabledBy
    <3> QED BY <3>1 DEF Send, cacheServer
  <2>2. CacheTypeOK' /\ calls'["appearance"] = calls["appearance"]
    <3>1. calls' \in [Kinds -> {"none", "sent", "changed", "queued", "conflict", "refused"}]
          /\ calls'["appearance"] = calls["appearance"]
      BY <2>1, CallsKeepType DEF CacheIInv
    <3> QED BY <2>1, <3>1 DEF CacheIInv, CacheTypeOK
  <2>3. Coming => Coming'
    BY <2>1, OthersStillCome DEF CacheIInv, RefreshDue
  <2>4. Mounted' = Mounted
    BY <2>1 DEF Mounted
  <2>5. EntryServed'
    BY <2>1, <2>3, <2>4 DEF CacheIInv, EntryServed
  <2>6. LookServed'
    BY <2>1, <2>2 DEF CacheIInv, LookServed
  <2> QED BY <2>1, <2>2, <2>5, <2>6 DEF CacheIInv
<1>2. CASE Toggle
  <2>1. /\ calls' = [calls EXCEPT !["appearance"] = "sent"]
        /\ UNCHANGED <<catalog, selection, attempt, paid, appearance>>
        /\ UNCHANGED <<watched, page, data, notice>>
        /\ shown' = IF watched = Me THEN Other(shown) ELSE shown
        /\ wanted' = shown'
        /\ \/ fetch # "none" /\ fetch' = "none" /\ fetched' = "light" /\ excused' = TRUE
           \/ UNCHANGED <<fetch, fetched, excused>>
    BY <1>2 DEF Toggle, cacheServer
  <2>2. "appearance" \in Kinds
    BY DEF Kinds
  <2>3. CacheTypeOK' /\ calls'["appearance"] = "sent"
    <3>1. calls' \in [Kinds -> {"none", "sent", "changed", "queued", "conflict", "refused"}]
          /\ calls'["appearance"] = "sent"
      BY <2>1, <2>2, CallsKeepType DEF CacheIInv
    <3>2. shown' \in Looks /\ wanted' \in Looks
      BY <2>1 DEF CacheIInv, CacheTypeOK, Other, Looks
    <3>3. fetch' \in {"none", "asked", "fresh", "old"} /\ fetched' \in Looks /\ excused' \in BOOLEAN
      BY <2>1 DEF CacheIInv, CacheTypeOK, Looks
    <3> QED BY <2>1, <3>1, <3>2, <3>3 DEF CacheIInv, CacheTypeOK
  <2>4. Coming => Coming'
    BY <2>1, <2>2, OthersStillCome DEF CacheIInv
  <2>5. Mounted' = Mounted
    BY <2>1 DEF Mounted
  <2>6. EntryServed'
    BY <2>1, <2>4, <2>5 DEF CacheIInv, EntryServed
  <2>7. LookServed'
    BY <2>3 DEF LookServed
  <2> QED BY <2>1, <2>3, <2>6, <2>7 DEF CacheIInv
<1> QED BY <1>1, <1>2

\* What the server does about a write leaves the Selection in the catalog, and what
\* it changes is refreshed with the answer.
LEMMA ServerWrites ==
  ASSUME CacheIInv, NEW kind \in Kinds, Serve(kind)
  PROVE  /\ catalog' = catalog /\ paid' = paid
         /\ selection' \subseteq catalog'
         /\ attempt' \in {"none", "pending", "succeeded", "failed"}
         /\ appearance' \in Looks
         /\ appearance' # appearance => kind = "appearance"
         /\ \E answer \in {"changed", "queued", "conflict", "refused"} :
               calls' = [calls EXCEPT ![kind] = answer]
         /\ Outdates => kind # "appearance" /\ RefreshDue(kind)'
<1>1. CacheTypeOK /\ selection \subseteq catalog /\ watched \in Queries /\ watched' = watched
  BY DEF CacheIInv, CacheTypeOK, Serve
<1>2. CASE \E t \in Theaters : ServeAdd(kind, t)
  <2> PICK t \in Theaters : ServeAdd(kind, t)
    BY <1>2
  <2>1. /\ t \in catalog /\ kind # "appearance" /\ selection' = AddTo(t)
        /\ calls' = [calls EXCEPT ![kind] = AddAnswer(t)]
        /\ UNCHANGED <<catalog, attempt, paid, appearance>>
    BY DEF ServeAdd
  <2>2. AddAnswer(t) \in {"changed", "conflict"}
    BY DEF AddAnswer
  <2>3. calls'[kind] \in {"changed", "conflict"}
    BY <1>1, <2>1, <2>2 DEF CacheTypeOK
  <2>4. RefreshDue(kind)'
    <3>1. SelectionKeys \subseteq
            IF kind \in RowControls THEN RowRefresh(calls'[kind]) ELSE CinemasRefresh(calls'[kind])
      BY <2>3 DEF RowRefresh, CinemasRefresh
    <3> QED BY <3>1, <2>3, <1>1, SelectionKeysReachAll DEF RefreshDue
  <2>5. selection' \subseteq catalog
    BY <1>1, <2>1, AddsFromCatalog
  <2> QED BY <1>1, <2>1, <2>2, <2>4, <2>5 DEF CacheTypeOK
<1>3. CASE kind = "remove" /\ \E t \in Theaters : ServeRemove(t)
  <2> PICK t \in Theaters : ServeRemove(t)
    BY <1>3
  <2>1. /\ selection' = selection \ {t} /\ calls' = [calls EXCEPT ![kind] = "changed"]
        /\ UNCHANGED <<catalog, attempt, paid, appearance>>
    BY <1>3 DEF ServeRemove
  <2>2. calls'[kind] = "changed"
    BY <1>1, <2>1 DEF CacheTypeOK
  <2>3. RefreshDue(kind)'
    <3>1. SelectionKeys \subseteq
            IF kind \in RowControls THEN RowRefresh(calls'[kind]) ELSE CinemasRefresh(calls'[kind])
      BY <2>2 DEF RowRefresh, CinemasRefresh
    <3> QED BY <3>1, <2>2, <1>1, SelectionKeysReachAll DEF RefreshDue
  <2> QED BY <1>1, <1>3, <2>1, <2>3 DEF CacheTypeOK
<1>4. CASE ServeSubmit(kind)
  <2>1. /\ kind # "appearance" /\ attempt' = "pending"
        /\ calls' = [calls EXCEPT ![kind] = "queued"]
        /\ UNCHANGED <<catalog, selection, paid, appearance>>
    BY <1>4 DEF ServeSubmit
  <2>2. calls'[kind] = "queued"
    BY <1>1, <2>1 DEF CacheTypeOK
  <2>3. Outdates => RefreshDue(kind)'
    <3> SUFFICES ASSUME Outdates
                 PROVE  RefreshDue(kind)'
      OBVIOUS
    <3>1. watched = MySubmissions
      BY <1>1, <2>1, OnlyChangesOutdate
    <3>2. Me \in IF kind \in RowControls THEN RowRefresh(calls'[kind])
                                         ELSE CinemasRefresh(calls'[kind])
      BY <2>2 DEF RowRefresh, CinemasRefresh, SelectionKeys
    <3> QED BY <3>1, <3>2, <2>2, <1>1, KeysHoldQueries DEF RefreshDue
  <2> QED BY <1>1, <2>1, <2>3 DEF CacheTypeOK
<1>5. CASE kind = "appearance" /\ ServeAppearance
  <2>1. /\ appearance' = wanted /\ calls' = [calls EXCEPT ![kind] = "changed"]
        /\ UNCHANGED <<catalog, selection, attempt, paid>>
    BY <1>5 DEF ServeAppearance
  <2>2. ~Outdates
    BY <1>1, <2>1, OnlyChangesOutdate
  <2> QED BY <1>1, <1>5, <2>1, <2>2 DEF CacheTypeOK
<1>6. CASE ServeRefuses(kind)
  <2>1. /\ calls' = [calls EXCEPT ![kind] = "refused"]
        /\ UNCHANGED <<catalog, selection, attempt, paid, appearance>>
    BY <1>6 DEF ServeRefuses, cacheServer
  <2>2. ~Outdates
    BY <1>1, <2>1, OnlyChangesOutdate
  <2> QED BY <1>1, <2>1, <2>2 DEF CacheTypeOK
<1> QED BY <1>2, <1>3, <1>4, <1>5, <1>6 DEF Serve

\* The server serves a write: old data is followed by the refresh of its answer.
LEMMA ServerAnswers ==
  ASSUME CacheIInv, NEW kind \in Kinds, Serve(kind)
  PROVE  CacheIInv'
<1>1. /\ EntryAges /\ calls[kind] = "sent"
      /\ UNCHANGED <<watched, page, fetched, shown, wanted, notice, excused>>
  BY DEF Serve
<1>2. PICK answer \in {"changed", "queued", "conflict", "refused"} :
        calls' = [calls EXCEPT ![kind] = answer]
  BY ServerWrites
<1>3. /\ calls' \in [Kinds -> {"none", "sent", "changed", "queued", "conflict", "refused"}]
      /\ calls'[kind] = answer
      /\ kind # "appearance" => calls'["appearance"] = calls["appearance"]
  BY <1>2, CallsKeepType DEF CacheIInv
<1>4. CacheTypeOK'
  <2>1. data' \in {"absent", "fresh", "old"} /\ fetch' \in {"none", "asked", "fresh", "old"}
    BY <1>1, AgedType DEF CacheIInv
  <2>2. catalog' \subseteq Theaters /\ selection' \subseteq Theaters /\ paid' \in BOOLEAN
        /\ attempt' \in {"none", "pending", "succeeded", "failed"} /\ appearance' \in Looks
    BY ServerWrites DEF CacheIInv, CacheTypeOK
  <2> QED BY <1>1, <1>3, <2>1, <2>2 DEF CacheIInv, CacheTypeOK
<1>5. EntryServed'
  <2>1. Coming => Coming'
    BY <1>1, <1>2, OthersStillCome DEF CacheIInv, RefreshDue
  <2>2. Outdates => Coming'
    BY ServerWrites DEF Coming
  <2> QED BY <1>1, <2>1, <2>2, AgedIsServed DEF CacheIInv
<1>6. LookServed'
  <2>1. CASE kind = "appearance"
    BY <2>1, <1>3 DEF LookServed
  <2>2. CASE kind # "appearance"
    <3>1. appearance' = appearance
      BY <2>2, ServerWrites
    <3> QED BY <1>1, <1>3, <2>2, <3>1, AgedType DEF CacheIInv, LookServed
  <2> QED BY <2>1, <2>2
<1> QED BY <1>4, <1>5, <1>6, ServerWrites DEF CacheIInv

\* An answer arrives, with its refreshes, or is lost.
LEMMA AnswersArrive ==
  ASSUME CacheIInv, AppearanceAnswered \/ \E kind \in Kinds : Answered(kind) \/ AnswerLost(kind)
  PROVE  CacheIInv'
<1>0. "appearance" \in Kinds
  BY DEF Kinds
<1>1. CASE \E kind \in Kinds : Answered(kind)
  <2> PICK kind \in Kinds : Answered(kind)
    BY <1>1
  <2> DEFINE keys == IF kind \in RowControls THEN RowRefresh(calls[kind])
                                             ELSE CinemasRefresh(calls[kind])
  <2>1. /\ kind # "appearance" /\ calls' = [calls EXCEPT ![kind] = "none"]
        /\ Invalidate(keys)
        /\ UNCHANGED cacheServer
        /\ UNCHANGED <<watched, page, data, shown, wanted, notice>>
    BY DEF Answered
  <2>2. calls' \in [Kinds -> {"none", "sent", "changed", "queued", "conflict", "refused"}]
        /\ calls'["appearance"] = calls["appearance"]
    BY <2>1, CallsKeepType DEF CacheIInv
  <2>3. Coming => Coming' \/ \E key \in keys : Matches(key, watched)
    <3>1. CASE RefreshDue(kind)
      BY <3>1 DEF RefreshDue
    <3>2. CASE ~RefreshDue(kind)
      BY <3>2, <2>1, OthersStillCome DEF CacheIInv
    <3> QED BY <3>1, <3>2
  <2>4. wanted' \in Looks /\ notice' \in BOOLEAN
    BY <2>1 DEF CacheIInv, CacheTypeOK
  <2> HIDE DEF keys
  <2> QED BY <2>1, <2>2, <2>3, <2>4, InvalidateServes
<1>2. CASE AppearanceAnswered \/ \E kind \in Kinds : AnswerLost(kind)
  <2>1. PICK kind \in Kinds :
          /\ calls' = [calls EXCEPT ![kind] = "none"]
          /\ UNCHANGED <<catalog, selection, attempt, paid, appearance>>
          /\ UNCHANGED <<watched, page, data, fetch, fetched, notice>>
          /\ shown' \in Looks /\ wanted' \in Looks /\ excused' \in BOOLEAN
          /\ \/ excused'
             \/ kind = "appearance" /\ fetch = "none" /\ shown' = appearance /\ ~excused
    <3>1. shown \in Looks /\ wanted \in Looks /\ "light" \in Looks /\ RolledBack \in Looks
          /\ excused \in BOOLEAN
      BY DEF CacheIInv, CacheTypeOK, RolledBack, Other, Looks
    <3>2. CASE AppearanceAnswered
      BY <3>1, <3>2, <1>0 DEF AppearanceAnswered, cacheServer
    <3>3. CASE \E kind \in Kinds : AnswerLost(kind)
      BY <3>1, <3>3 DEF AnswerLost, cacheServer
    <3> QED BY <1>2, <3>2, <3>3
  <2>2. calls' \in [Kinds -> {"none", "sent", "changed", "queued", "conflict", "refused"}]
    BY <2>1, CallsKeepType DEF CacheIInv
  <2>3. CacheTypeOK'
    BY <2>1, <2>2 DEF CacheIInv, CacheTypeOK
  <2>4. EntryServed' /\ LookServed'
    <3>1. CASE excused'
      BY <3>1 DEF EntryServed, LookServed
    <3>2. CASE ~excused'
      <4>1. Coming => Coming'
        BY <2>1, <3>2, OthersStillCome DEF CacheIInv
      <4>2. Mounted' = Mounted
        BY <2>1 DEF Mounted
      <4>3. EntryServed'
        BY <2>1, <3>2, <4>1, <4>2 DEF CacheIInv, EntryServed
      <4>4. LookServed'
        BY <2>1, <3>2 DEF LookServed
      <4> QED BY <4>3, <4>4
    <3> QED BY <3>1, <3>2
  <2> QED BY <2>1, <2>3, <2>4 DEF CacheIInv
<1> QED BY <1>1, <1>2

\* A resolution, and its notice, that arrives or is lost.
LEMMA NoticesCome ==
  ASSUME CacheIInv,
         (\E succeeds \in BOOLEAN : Resolve(succeeds)) \/ NoticeArrives \/ NoticeLost
         \/ SearchOverQuota
  PROVE  CacheIInv'
<1>1. CASE \E succeeds \in BOOLEAN : Resolve(succeeds)
  <2> PICK succeeds \in BOOLEAN : Resolve(succeeds)
    BY <1>1
  <2>1. /\ notice' = TRUE /\ EntryAges
        /\ UNCHANGED <<paid, appearance, watched, page, fetched, shown, wanted, calls, excused>>
    BY DEF Resolve
  <2>2. /\ catalog' \subseteq Theaters /\ selection' \subseteq catalog'
        /\ attempt' \in {"none", "pending", "succeeded", "failed"}
    <3>1. CASE succeeds
      <4>1. AddTo(Proposed) \subseteq selection \union {Proposed}
        BY AddsFromCatalog
      <4> QED BY <3>1, <4>1, MemberCacheAssumption DEF Resolve, CacheIInv, CacheTypeOK
    <3>2. CASE ~succeeds
      BY <3>2 DEF Resolve, CacheIInv, CacheTypeOK
    <3> QED BY <3>1, <3>2
  <2>3. CacheTypeOK'
    <3>1. data' \in {"absent", "fresh", "old"} /\ fetch' \in {"none", "asked", "fresh", "old"}
      BY <2>1, AgedType DEF CacheIInv
    <3> QED BY <2>1, <2>2, <3>1 DEF CacheIInv, CacheTypeOK
  <2>4. Coming'
    BY <2>1 DEF Coming
  <2>5. EntryServed'
    BY <2>1, <2>4, AgedIsServed DEF CacheIInv
  <2>6. LookServed'
    BY <2>1, AgedType DEF CacheIInv, LookServed
  <2> QED BY <2>2, <2>3, <2>5, <2>6 DEF CacheIInv
<1>2. CASE NoticeArrives
  <2>1. /\ Invalidate(SelectionKeys \union {MySubmissions})
        /\ UNCHANGED cacheServer /\ UNCHANGED <<watched, page, data, shown, wanted, calls>>
        /\ notice' = FALSE
    BY <1>2 DEF NoticeArrives
  <2>2. \E key \in SelectionKeys \union {MySubmissions} : Matches(key, watched)
    BY SelectionKeysReachAll DEF CacheIInv, CacheTypeOK
  <2> QED BY <2>1, <2>2, InvalidateServes DEF CacheIInv, CacheTypeOK
<1>3. CASE NoticeLost
  <2>1. CacheTypeOK'
    BY <1>3 DEF NoticeLost, CacheIInv, CacheTypeOK, cacheServer
  <2>2. EntryServed' /\ LookServed'
    BY <1>3 DEF NoticeLost, EntryServed, LookServed
  <2> QED BY <1>3, <2>1, <2>2 DEF NoticeLost, CacheIInv, cacheServer
<1>4. CASE SearchOverQuota
  <2>1. /\ Invalidate(SelectionKeys)
        /\ UNCHANGED cacheServer
        /\ UNCHANGED <<watched, page, data, shown, wanted, calls, notice>>
    BY <1>4 DEF SearchOverQuota
  <2>2. Coming' = Coming
    BY <2>1, NothingComesOrGoes
  <2> QED BY <2>1, <2>2, InvalidateServes DEF CacheIInv, CacheTypeOK
<1> QED BY <1>1, <1>2, <1>3, <1>4

\* What other browsers do excuses this one.
LEMMA OthersAct ==
  ASSUME CacheIInv, Elsewhere \/ AppearanceElsewhere
  PROVE  CacheIInv'
<1>1. CASE Elsewhere
  <2>1. /\ EntryAges /\ excused' = (excused \/ Outdates) /\ attempt' = attempt
        /\ UNCHANGED <<watched, page, fetched, shown, wanted, calls, notice, appearance>>
    BY <1>1 DEF Elsewhere, Untold
  <2>2. /\ catalog' \subseteq Theaters /\ selection' \subseteq catalog' /\ paid' \in BOOLEAN
    <3>1. \A t \in catalog : AddTo(t) \subseteq selection \union {t}
      BY AddsFromCatalog
    <3> QED BY <1>1, <3>1, MemberCacheAssumption DEF Elsewhere, CacheIInv, CacheTypeOK
  <2>3. CacheTypeOK'
    <3>1. data' \in {"absent", "fresh", "old"} /\ fetch' \in {"none", "asked", "fresh", "old"}
      BY <2>1, AgedType DEF CacheIInv
    <3>2. excused' \in BOOLEAN
      BY <2>1
    <3> QED BY <2>1, <2>2, <3>1, <3>2 DEF CacheIInv, CacheTypeOK
  <2>4. Coming' = Coming
    BY <2>1, NothingComesOrGoes
  <2>5. EntryServed'
    BY <2>1, <2>4, AgedIsServed DEF CacheIInv
  <2>6. LookServed'
    BY <2>1, AgedType DEF CacheIInv, LookServed
  <2> QED BY <2>2, <2>3, <2>5, <2>6 DEF CacheIInv
<1>2. CASE AppearanceElsewhere
  <2>1. CacheTypeOK'
    BY <1>2 DEF AppearanceElsewhere, CacheIInv, CacheTypeOK, Other, Looks
  <2>2. EntryServed' /\ LookServed'
    BY <1>2 DEF AppearanceElsewhere, EntryServed, LookServed
  <2> QED BY <1>2, <2>1, <2>2 DEF AppearanceElsewhere, CacheIInv
<1> QED BY <1>1, <1>2

\* Every step preserves the invariant.
LEMMA CacheSteps ==
  ASSUME CacheIInv, [CacheNext]_cacheVars
  PROVE  CacheIInv'
<1>1. CASE CacheNext
  <2>1. \/ (\E p \in Pages : Navigate(p)) \/ WindowFocus \/ FetchReads \/ FetchEnds
           \/ FetchFails \/ Collect
        \/ Toggle \/ \E kind \in Kinds : Send(kind)
        \/ \E kind \in Kinds : Serve(kind)
        \/ AppearanceAnswered \/ \E kind \in Kinds : Answered(kind) \/ AnswerLost(kind)
        \/ (\E succeeds \in BOOLEAN : Resolve(succeeds)) \/ NoticeArrives \/ NoticeLost
           \/ SearchOverQuota
        \/ Elsewhere \/ AppearanceElsewhere
    BY <1>1, Zenon DEF CacheNext
  <2> QED BY <2>1, QueriesFetch, BrowserSends, ServerAnswers, AnswersArrive, NoticesCome,
             OthersAct
<1>2. CASE UNCHANGED cacheVars
  <2>1. Coming' = Coming /\ Mounted' = Mounted
    BY <1>2, NothingComesOrGoes DEF cacheVars, Mounted
  <2> QED BY <1>2, <2>1 DEF cacheVars, cacheServer, CacheIInv, CacheTypeOK, EntryServed, LookServed
<1> QED BY <1>1, <1>2

\* The invariant implies that the screen is current once at rest.
LEMMA ServedIsCurrent ==
  ASSUME CacheIInv
  PROVE  CacheInv /\ ScreenIsCurrent
<1>1. AtRest => ~Coming /\ calls["appearance"] = "none"
  BY DEF AtRest, Coming, RefreshDue, Kinds
<1>2. ScreenIsCurrent
  BY <1>1 DEF ScreenIsCurrent, AtRest, CacheIInv, EntryServed, LookServed
<1> QED BY <1>2 DEF CacheIInv, CacheInv

\* Once nothing is in flight, what a page of the Member shows is what the server
\* would answer, whatever Theaters, quotas and number of writes in flight.
THEOREM ScreenKept == CacheSpec => [](CacheInv /\ ScreenIsCurrent)
<1>1. CacheIInv => CacheInv /\ ScreenIsCurrent
  BY ServedIsCurrent
<1>2. CacheInit => CacheIInv
  BY CacheStarts
<1>3. CacheIInv /\ [CacheNext]_cacheVars => CacheIInv'
  BY CacheSteps
<1> QED BY <1>1, <1>2, <1>3, PTL DEF CacheSpec

-----------------------------------------------------------------------------
(* The account pages.                                                      *)

\* A request of a page.
PostKinds == {"signup", "verify", "resend", "forgot", "reset", "change", "erase"}
Enders == {"reset", "change", "erase"}
Arrivals == {"sent", "ok", "refused", "expired", "lost"}

PostFits(c) ==
  /\ c = [id |-> c.id, kind |-> c.kind, shown |-> c.shown, link |-> c.link,
          secret |-> c.secret, guess |-> c.guess, at |-> c.at]
  /\ c.kind \in PostKinds /\ c.shown \in BOOLEAN /\ c.link \in Nat
  /\ c.secret \in Nat /\ c.at \in Arrivals

\* The pages, and where each one stands.
SheetNames == PublicSheets \union ProtectedSheets \union MailPurposes
SheetPhases == {"form", "waiting", "failed", "sent", "done"}

\* The types.
AccountFits ==
  /\ account \in [status : {"none", "unverified", "active"}, secret : Nat]
  /\ liveLink \in [MailPurposes -> Nat]
  /\ issuedLinks \in Nat
  /\ inbox \subseteq MailPurposes \X Nat
  /\ signedIn \in BOOLEAN /\ backed \in BOOLEAN /\ untold \in BOOLEAN
  /\ sheet \in [name : SheetNames, link : Nat, phase : SheetPhases,
                reran : BOOLEAN, doubt : BOOLEAN]
  /\ \A c \in posts : PostFits(c)

\* The sheet shown waits for at most one of its requests.
OneShown ==
  /\ \A c, d \in posts : c.shown /\ d.shown => c = d
  /\ \A c \in posts : c.shown => sheet.phase = "waiting"

\* Without a doubt, what the verification page waits for is its own link, and that
\* link is live until the answer is a confirmation.
LinkAwaited ==
  sheet.name = "verify" /\ ~sheet.doubt =>
    /\ sheet.phase # "failed"
    /\ \A c \in posts : c.shown =>
         /\ c.kind = "verify" /\ c.link = sheet.link
         /\ c.at = "ok" \/ (c.at = "sent" /\ liveLink["verify"] = sheet.link)

\* Links and sessions belong to an account.
LinksFit ==
  /\ backed => account.status # "none"
  /\ account.status = "none" => liveLink = [p \in MailPurposes |-> 0]
  /\ \A entry \in inbox : entry[2] <= issuedLinks
  /\ liveLink["verify"] # 0 => account.status = "unverified"

AccountIInv == AccountFits /\ OneShown /\ LinkAwaited /\ LinksFit /\ UserHasSession

-----------------------------------------------------------------------------
(* Requests and sheets.                                                    *)

\* A request as it is sent.
LEMMA NewPost ==
  ASSUME NEW kind \in PostKinds, NEW link \in Nat, NEW secret \in Nat, NEW guess
  PROVE  /\ PostFits(Post(kind, link, secret, guess))
         /\ Post(kind, link, secret, guess).kind = kind
         /\ Post(kind, link, secret, guess).link = link
         /\ Post(kind, link, secret, guess).shown
         /\ Post(kind, link, secret, guess).at = "sent"
<1> DEFINE i == CHOOSE i \in FreePost : TRUE
<1>1. Post(kind, link, secret, guess) =
        [id |-> i, kind |-> kind, shown |-> TRUE, link |-> link, secret |-> secret,
         guess |-> guess, at |-> "sent"]
  BY DEF Post
<1> HIDE DEF i
<1> QED BY <1>1 DEF PostFits, Arrivals

\* A request served, or lost, is the same request otherwise.
LEMMA AnsweredPost ==
  ASSUME NEW c, PostFits(c), NEW at \in Arrivals
  PROVE  LET d == [c EXCEPT !.at = at]
         IN  /\ PostFits(d) /\ d.at = at
             /\ d.kind = c.kind /\ d.shown = c.shown /\ d.link = c.link
<1> DEFINE d == [c EXCEPT !.at = at]
           e == [id |-> c.id, kind |-> c.kind, shown |-> c.shown, link |-> c.link,
                 secret |-> c.secret, guess |-> c.guess, at |-> at]
<1>1. c \in [id : {c.id}, kind : {c.kind}, shown : {c.shown}, link : {c.link},
             secret : {c.secret}, guess : {c.guess}, at : {c.at}]
  BY DEF PostFits
<1>2. d \in [id : {c.id}, kind : {c.kind}, shown : {c.shown}, link : {c.link},
             secret : {c.secret}, guess : {c.guess}, at : {at}]
  BY <1>1
<1> HIDE DEF d
<1>3. d = e
  BY <1>2
<1>4. PostFits(e) /\ e.at = at /\ e.kind = c.kind /\ e.shown = c.shown /\ e.link = c.link
  BY DEF PostFits
<1>5. PostFits(d) /\ d.at = at /\ d.kind = c.kind /\ d.shown = c.shown /\ d.link = c.link
  BY <1>3, <1>4
<1> QED BY <1>5 DEF d

\* A request whose page was left is the same request otherwise.
LEMMA LeftPost ==
  ASSUME NEW c, PostFits(c)
  PROVE  LET d == [c EXCEPT !.shown = FALSE]
         IN  /\ PostFits(d) /\ d.shown = FALSE
             /\ d.kind = c.kind /\ d.at = c.at
<1> DEFINE d == [c EXCEPT !.shown = FALSE]
           e == [id |-> c.id, kind |-> c.kind, shown |-> FALSE, link |-> c.link,
                 secret |-> c.secret, guess |-> c.guess, at |-> c.at]
<1>1. c \in [id : {c.id}, kind : {c.kind}, shown : {c.shown}, link : {c.link},
             secret : {c.secret}, guess : {c.guess}, at : {c.at}]
  BY DEF PostFits
<1>2. d \in [id : {c.id}, kind : {c.kind}, shown : {FALSE}, link : {c.link},
             secret : {c.secret}, guess : {c.guess}, at : {c.at}]
  BY <1>1
<1> HIDE DEF d
<1>3. d = e
  BY <1>2
<1>4. PostFits(e) /\ e.shown = FALSE /\ e.kind = c.kind /\ e.at = c.at
  BY DEF PostFits
<1>5. PostFits(d) /\ d.shown = FALSE /\ d.kind = c.kind /\ d.at = c.at
  BY <1>3, <1>4
<1> QED BY <1>5 DEF d

\* Requests of a page that was left are not heard of, and still arrive.
LEMMA LeftPosts ==
  ASSUME AccountFits, NEW X, X \subseteq posts
  PROVE  /\ \A d \in Left(X) : PostFits(d) /\ d.shown = FALSE
         /\ \A c \in X : \E d \in Left(X) : d.kind = c.kind /\ d.at = c.at
<1>1. \A c \in X : PostFits(c)
  BY DEF AccountFits
<1>2. \A d \in Left(X) : \E c \in X : d = [c EXCEPT !.shown = FALSE]
  BY DEF Left
<1>3. \A c \in X : [c EXCEPT !.shown = FALSE] \in Left(X)
  BY DEF Left
<1>4. \A c \in X : /\ PostFits([c EXCEPT !.shown = FALSE])
                   /\ [c EXCEPT !.shown = FALSE].shown = FALSE
                   /\ [c EXCEPT !.shown = FALSE].kind = c.kind
                   /\ [c EXCEPT !.shown = FALSE].at = c.at
  BY <1>1, LeftPost
<1>5. ASSUME NEW d \in Left(X)
      PROVE  PostFits(d) /\ d.shown = FALSE
  <2> PICK c \in X : d = [c EXCEPT !.shown = FALSE]
    BY <1>2
  <2> QED BY <1>4
<1>6. ASSUME NEW c \in X
      PROVE  \E d \in Left(X) : d.kind = c.kind /\ d.at = c.at
  BY <1>3, <1>4
<1> QED BY <1>5, <1>6

\* A page as it is opened.
LEMMA NewSheet ==
  ASSUME NEW name \in SheetNames, NEW link \in Nat, NEW phase \in SheetPhases
  PROVE  /\ Sheet(name, link, phase) \in [name : SheetNames, link : Nat, phase : SheetPhases,
                                          reran : BOOLEAN, doubt : BOOLEAN]
         /\ Sheet(name, link, phase).name = name
         /\ Sheet(name, link, phase).phase = phase
         /\ Sheet(name, link, phase).link = link
BY DEF Sheet

\* Another page, of no link.
LEMMA PageLeft ==
  ASSUME AccountFits, NEW X, X \subseteq posts, posts' = Left(X),
         NEW name \in PublicSheets \union ProtectedSheets, sheet' = Sheet(name, 0, "form")
  PROVE  /\ sheet' \in [name : SheetNames, link : Nat, phase : SheetPhases,
                        reran : BOOLEAN, doubt : BOOLEAN]
         /\ (\A c \in posts : PostFits(c))'
         /\ OneShown' /\ LinkAwaited'
         /\ \A c \in X : \E d \in posts' : d.kind = c.kind /\ d.at = c.at
<1>1. name \in SheetNames /\ "form" \in SheetPhases /\ name # "verify"
  BY DEF SheetNames, SheetPhases, PublicSheets, ProtectedSheets
<1>2. \A d \in posts' : PostFits(d) /\ d.shown = FALSE
  BY LeftPosts
<1>3. (\A c \in posts : PostFits(c))'
  BY <1>2 DEF PostFits
<1>4. sheet'.name # "verify"
  BY <1>1, NewSheet
<1>5. OneShown' /\ LinkAwaited'
  BY <1>2, <1>4 DEF OneShown, LinkAwaited
<1>6. sheet' \in [name : SheetNames, link : Nat, phase : SheetPhases,
                  reran : BOOLEAN, doubt : BOOLEAN]
  BY <1>1, NewSheet
<1>7. \A c \in X : \E d \in posts' : d.kind = c.kind /\ d.at = c.at
  BY LeftPosts
<1> QED BY <1>3, <1>5, <1>6, <1>7

\* A page that is only put in doubt.
LEMMA SheetDoubted ==
  ASSUME AccountFits, NEW b \in BOOLEAN, sheet' = [sheet EXCEPT !.doubt = @ \/ b]
  PROVE  /\ sheet' \in [name : SheetNames, link : Nat, phase : SheetPhases,
                        reran : BOOLEAN, doubt : BOOLEAN]
         /\ sheet'.name = sheet.name /\ sheet'.link = sheet.link /\ sheet'.phase = sheet.phase
         /\ sheet'.doubt <=> sheet.doubt \/ b
BY DEF AccountFits

\* What ended the session is still on its way.
LEMMA SessionAsBefore ==
  ASSUME UserHasSession, UNCHANGED <<signedIn, backed, untold>>,
         \A c \in posts : c.kind \in Enders /\ c.at \in {"ok", "lost"} =>
           \E d \in posts' : d.kind = c.kind /\ d.at \in {"ok", "lost"}
  PROVE  UserHasSession'
BY DEF UserHasSession, Enders

\* A request that is answered, or lost, stays what it is.
LEMMA PostAnswered ==
  ASSUME AccountFits, OneShown, NEW c \in posts, NEW at \in Arrivals, Answers(c, at),
         sheet'.phase = sheet.phase
  PROVE  /\ (\A e \in posts : PostFits(e))'
         /\ OneShown'
         /\ \E d : /\ posts' = (posts \ {c}) \union {d} /\ PostFits(d) /\ d.at = at
                   /\ d.kind = c.kind /\ d.shown = c.shown /\ d.link = c.link
<1> DEFINE d == [c EXCEPT !.at = at]
<1>1. /\ posts' = (posts \ {c}) \union {d} /\ PostFits(d) /\ d.at = at
      /\ d.kind = c.kind /\ d.shown = c.shown /\ d.link = c.link
  <2>1. PostFits(c)
    BY DEF AccountFits
  <2> QED BY <2>1, AnsweredPost DEF Answers
<1> HIDE DEF d
<1>2. (\A e \in posts : PostFits(e))'
  BY <1>1 DEF AccountFits, PostFits
<1>3. OneShown'
  BY <1>1 DEF OneShown
<1> QED BY <1>1, <1>2, <1>3

\* The invariant holds before anything is typed.
LEMMA AccountStarts ==
  ASSUME AccountInit
  PROVE  AccountIInv
<1> USE DEF AccountInit
<1>1. account \in [status : {"none", "unverified", "active"}, secret : Nat]
  BY DEF NoAccount
<1>2. sheet \in [name : SheetNames, link : Nat, phase : SheetPhases, reran : BOOLEAN, doubt : BOOLEAN]
      /\ sheet.name = "home"
  BY NewSheet DEF SheetNames, PublicSheets, SheetPhases
<1>3. AccountFits
  BY <1>1, <1>2 DEF AccountFits
<1>4. OneShown /\ LinkAwaited /\ UserHasSession
  BY <1>2 DEF OneShown, LinkAwaited, UserHasSession
<1>5. LinksFit
  <2>1. backed => account.status # "none"
    <3>1. CASE account = NoAccount
      <4>1. signedIn = FALSE
        BY <3>1
      <4> QED BY <4>1
    <3>2. CASE account # NoAccount
      BY <3>2
    <3> QED BY <3>1, <3>2
  <2> QED BY <2>1 DEF LinksFit, MailPurposes
<1> QED BY <1>3, <1>4, <1>5 DEF AccountIInv

\* The user goes to another page, signs in, or is sent away.
LEMMA UserLeaves ==
  ASSUME AccountIInv,
         (\E name \in PublicSheets \union ProtectedSheets : OpenSheet(name))
         \/ SignIn \/ HomeRefused \/ TimerFires
  PROVE  AccountIInv'
<1> USE DEF AccountIInv
<1>1. UNCHANGED <<account, liveLink, issuedLinks, inbox, toMail>>
  BY DEF OpenSheet, SignIn, HomeRefused, TimerFires, mailVars
<1>2. \E name \in PublicSheets \union ProtectedSheets :
        sheet' = Sheet(name, 0, "form") /\ posts' = Left(posts)
  BY DEF OpenSheet, SignIn, HomeRefused, TimerFires, SessionLost, PublicSheets
<1>3. /\ sheet' \in [name : SheetNames, link : Nat, phase : SheetPhases,
                     reran : BOOLEAN, doubt : BOOLEAN]
      /\ (\A c \in posts : PostFits(c))'
      /\ OneShown' /\ LinkAwaited'
      /\ \A c \in posts : \E d \in posts' : d.kind = c.kind /\ d.at = c.at
  BY <1>2, PageLeft
<1>4. signedIn' \in BOOLEAN /\ backed' \in BOOLEAN /\ untold' \in BOOLEAN
  BY DEF OpenSheet, SignIn, HomeRefused, TimerFires, SessionLost, AccountFits
<1>5. AccountFits'
  BY <1>1, <1>3, <1>4 DEF AccountFits
<1>6. backed' => backed \/ account.status # "none"
  BY DEF OpenSheet, SignIn, HomeRefused, TimerFires
<1>7. LinksFit'
  BY <1>1, <1>6 DEF LinksFit
<1>8. UserHasSession'
  <2>1. CASE UNCHANGED <<signedIn, backed, untold>>
    BY <2>1, <1>3, SessionAsBefore
  <2>2. CASE SignIn \/ HomeRefused
    BY <2>2 DEF SignIn, HomeRefused, SessionLost, UserHasSession
  <2> QED BY <2>1, <2>2 DEF OpenSheet, TimerFires
<1> QED BY <1>3, <1>5, <1>7, <1>8

\* The user asks: with a link, or with a form.
LEMMA UserAsks ==
  ASSUME AccountIInv,
         (\E entry \in inbox : FollowLink(entry[1], entry[2]))
         \/ EffectAgain \/ \E f \in FormPosts : SubmitSheet(f[1], f[2], f[3])
  PROVE  AccountIInv'
<1> USE DEF AccountIInv
<1>1. UNCHANGED <<account, liveLink, issuedLinks, inbox, toMail>> /\ UNCHANGED <<signedIn, backed, untold>>
  BY DEF FollowLink, EffectAgain, SubmitSheet, mailVars
<1>2. LinksFit'
  BY <1>1 DEF LinksFit
<1>3. ASSUME (sheet \in [name : SheetNames, link : Nat, phase : SheetPhases,
                         reran : BOOLEAN, doubt : BOOLEAN])',
             (\A c \in posts : PostFits(c))'
      PROVE  AccountFits'
  BY <1>1, <1>3 DEF AccountFits
<1>4. CASE \E entry \in inbox : FollowLink(entry[1], entry[2])
  <2> PICK entry \in inbox : FollowLink(entry[1], entry[2])
    BY <1>4
  <2> DEFINE purpose == entry[1]
             link == entry[2]
             phase == IF purpose = "verify" THEN "waiting" ELSE "form"
             left == Sheet(purpose, link, phase)
             new == Post("verify", link, 0, 0)
  <2>1. purpose \in MailPurposes /\ link \in Nat
    BY DEF AccountFits
  <2>2. /\ sheet' = [left EXCEPT !.doubt = liveLink[purpose] # link]
        /\ posts' = Left(posts) \union (IF purpose = "verify" THEN {new} ELSE {})
    BY DEF FollowLink
  <2>3. /\ PostFits(new) /\ new.kind = "verify" /\ new.link = link /\ new.shown
        /\ new.at = "sent"
    <3>1. "verify" \in PostKinds /\ 0 \in Nat
      BY DEF PostKinds
    <3> QED BY <2>1, <3>1, NewPost
  <2>4. /\ left \in [name : SheetNames, link : Nat, phase : SheetPhases,
                     reran : BOOLEAN, doubt : BOOLEAN]
        /\ left.name = purpose /\ left.link = link /\ left.phase = phase
    BY <2>1, NewSheet DEF SheetNames, SheetPhases
  <2> HIDE DEF left, new
  <2>5. /\ sheet' \in [name : SheetNames, link : Nat, phase : SheetPhases,
                       reran : BOOLEAN, doubt : BOOLEAN]
        /\ sheet'.name = purpose /\ sheet'.link = link /\ sheet'.phase = phase
        /\ sheet'.doubt <=> liveLink[purpose] # link
    BY <2>2, <2>4
  <2>6. \A d \in Left(posts) : PostFits(d) /\ d.shown = FALSE
    BY LeftPosts
  <2>7. (\A c \in posts : PostFits(c))'
    BY <2>2, <2>3, <2>6 DEF PostFits
  <2>8. \A d \in posts' : d.shown => d = new /\ purpose = "verify"
    BY <2>2, <2>6
  <2>9. OneShown'
    <3>1. \A d \in posts' : d.shown => sheet'.phase = "waiting"
      BY <2>5, <2>8
    <3> QED BY <2>8, <3>1 DEF OneShown
  <2>10. LinkAwaited'
    <3>1. sheet'.name = "verify" /\ ~sheet'.doubt => liveLink'["verify"] = sheet'.link
      BY <1>1, <2>5
    <3>2. sheet'.phase # "failed"
      BY <2>5
    <3> QED BY <2>3, <2>5, <2>8, <3>1, <3>2 DEF LinkAwaited
  <2>11. UserHasSession'
    <3>1. \A c \in posts : \E d \in posts' : d.kind = c.kind /\ d.at = c.at
      BY <2>2, LeftPosts
    <3> QED BY <1>1, <3>1, SessionAsBefore
  <2> QED BY <1>2, <1>3, <2>5, <2>7, <2>9, <2>10, <2>11
<1>5. CASE EffectAgain
  <2>1. /\ sheet' = [sheet EXCEPT !.reran = TRUE] /\ posts' = posts
    BY <1>5 DEF EffectAgain, Consumes
  <2>2. /\ sheet' \in [name : SheetNames, link : Nat, phase : SheetPhases,
                       reran : BOOLEAN, doubt : BOOLEAN]
        /\ sheet'.name = sheet.name /\ sheet'.link = sheet.link /\ sheet'.phase = sheet.phase
        /\ sheet'.doubt = sheet.doubt
    BY <2>1 DEF AccountFits
  <2>3. (\A c \in posts : PostFits(c))'
    BY <2>1 DEF AccountFits, PostFits
  <2>4. OneShown' /\ LinkAwaited'
    BY <1>1, <2>1, <2>2 DEF OneShown, LinkAwaited
  <2>5. UserHasSession'
    BY <1>1, <2>1, SessionAsBefore
  <2> QED BY <1>2, <1>3, <2>2, <2>3, <2>4, <2>5
<1>6. CASE \E f \in FormPosts : SubmitSheet(f[1], f[2], f[3])
  <2> PICK f \in FormPosts : SubmitSheet(f[1], f[2], f[3])
    BY <1>6
  <2> DEFINE new == Post(f[1], sheet.link, f[2], f[3])
  <2>1. f[1] \in PostKinds /\ f[2] \in Nat
    BY AccountPagesAssumption DEF FormPosts, PostKinds, Secrets
  <2>2. /\ sheet' = [sheet EXCEPT !.phase = "waiting"] /\ posts' = posts \union {new}
        /\ sheet.phase \in {"form", "failed"}
        /\ sheet.name = "verify" => sheet.phase = "failed"
    BY DEF SubmitSheet
  <2>3. /\ sheet' \in [name : SheetNames, link : Nat, phase : SheetPhases,
                       reran : BOOLEAN, doubt : BOOLEAN]
        /\ sheet'.name = sheet.name /\ sheet'.link = sheet.link /\ sheet'.phase = "waiting"
        /\ sheet'.doubt = sheet.doubt
    BY <2>2 DEF AccountFits, SheetPhases
  <2>4. PostFits(new) /\ sheet.link \in Nat
    <3>1. sheet.link \in Nat
      BY DEF AccountFits
    <3> QED BY <2>1, <3>1, NewPost
  <2> HIDE DEF new
  <2>5. (\A c \in posts : PostFits(c))'
    BY <2>2, <2>4 DEF AccountFits, PostFits
  <2>6. \A c \in posts : ~c.shown
    BY <2>2 DEF OneShown
  <2>7. OneShown'
    BY <2>2, <2>3, <2>6 DEF OneShown
  <2>8. LinkAwaited'
    BY <2>2, <2>3 DEF LinkAwaited
  <2>9. UserHasSession'
    BY <1>1, <2>2, SessionAsBefore
  <2> QED BY <1>2, <1>3, <2>3, <2>5, <2>7, <2>8, <2>9
<1> QED BY <1>4, <1>5, <1>6

\* What the server does with a request, as far as links and sessions go.
LEMMA PostServed ==
  ASSUME AccountIInv, NEW c \in posts, ServePost(c)
  PROVE  /\ c.at = "sent"
         /\ UNCHANGED <<issuedLinks, inbox, signedIn, untold>>
         /\ account' \in [status : {"none", "unverified", "active"}, secret : Nat]
         /\ liveLink' \in [MailPurposes -> Nat] /\ LinksFit'
         /\ \/ backed' = backed
            \/ backed' = FALSE /\ c.kind \in Enders /\ Answers(c, "ok")
         /\ \E at \in {"ok", "refused", "expired"} :
              /\ Answers(c, at)
              /\ c.kind = "verify" /\ c.link = liveLink["verify"] => at = "ok"
              /\ c.kind \notin {"change", "erase"} => at # "expired"
         /\ \E b \in BOOLEAN :
              /\ sheet' = [sheet EXCEPT !.doubt = @ \/ b]
              /\ liveLink'["verify"] # liveLink["verify"] =>
                   b \/ (c.kind = "verify" /\ c.link = liveLink["verify"]
                         /\ ~(~c.shown /\ c.link = sheet.link /\ sheet.name = "verify"))
<1> USE DEF AccountIInv
<1>1. /\ c.at = "sent" /\ UNCHANGED <<issuedLinks, inbox, signedIn, untold>>
  BY DEF ServePost
<1>2. PostFits(c) /\ c.kind \in PostKinds /\ c.secret \in Nat
  BY DEF AccountFits, PostFits
<1>3. sheet = [sheet EXCEPT !.doubt = @ \/ FALSE]
  BY DEF AccountFits
<1>4. /\ account \in [status : {"none", "unverified", "active"}, secret : Nat]
      /\ liveLink \in [MailPurposes -> Nat] /\ backed \in BOOLEAN
      /\ "verify" \in MailPurposes /\ "reset" \in MailPurposes /\ 0 \in Nat
  BY DEF AccountFits, MailPurposes
<1>5. CASE c.kind = "signup"
  <2>1. ServeSignup(c)
    BY <1>5 DEF ServePost
  <2>2. /\ UNCHANGED <<liveLink, backed, sheet>>
        /\ \/ account.status = "none" /\ account' = [status |-> "unverified", secret |-> c.secret]
              /\ Answers(c, "ok")
           \/ account' = account /\ Answers(c, "refused")
    BY <2>1 DEF ServeSignup
  <2>3. LinksFit'
    BY <1>1, <2>2, <1>4 DEF LinksFit
  <2>4. account' \in [status : {"none", "unverified", "active"}, secret : Nat]
    BY <1>2, <1>4, <2>2
  <2>5. \E at \in {"ok", "refused", "expired"} :
          /\ Answers(c, at)
          /\ c.kind = "verify" /\ c.link = liveLink["verify"] => at = "ok"
          /\ c.kind \notin {"change", "erase"} => at # "expired"
    <3>1. Answers(c, "ok") \/ Answers(c, "refused")
      BY <2>2
    <3> QED BY <1>5, <3>1
  <2> QED BY <1>1, <1>3, <1>4, <2>2, <2>3, <2>4, <2>5
<1>6. CASE c.kind \in {"resend", "forgot"}
  <2>1. \E p \in MailPurposes : ServeMail(c, p)
    BY <1>6, <1>4 DEF ServePost
  <2>2. UNCHANGED <<account, liveLink, backed, sheet>> /\ Answers(c, "ok")
    BY <2>1 DEF ServeMail
  <2>3. LinksFit'
    BY <1>1, <2>2 DEF LinksFit
  <2> QED BY <1>1, <1>3, <1>4, <1>6, <2>2, <2>3
<1>7. CASE c.kind = "verify"
  <2>1. ServeVerify(c)
    BY <1>7 DEF ServePost
  <2> DEFINE b == ~c.shown /\ c.link = sheet.link /\ c.kind = sheet.name
  <2>2. b \in BOOLEAN /\ sheet' = [sheet EXCEPT !.doubt = @ \/ b] /\ backed' = backed
    BY <2>1, <1>2 DEF ServeVerify, Doubted, PostFits
  <2>3. CASE c.link = liveLink["verify"]
    <3>1. /\ liveLink' = [liveLink EXCEPT !["verify"] = 0] /\ Answers(c, "ok")
          /\ account' = [account EXCEPT !.status = IF @ = "unverified" THEN "active" ELSE @]
      BY <2>1, <2>3 DEF ServeVerify
    <3>2. /\ account' \in [status : {"none", "unverified", "active"}, secret : Nat]
          /\ account'.status = "none" <=> account.status = "none"
          /\ liveLink' \in [MailPurposes -> Nat] /\ liveLink'["verify"] = 0
      BY <3>1, <1>4
    <3>3. LinksFit'
      BY <1>1, <1>4, <2>2, <3>1, <3>2 DEF LinksFit
    <3> HIDE DEF b
    <3>4. liveLink'["verify"] # liveLink["verify"] =>
            b \/ (c.kind = "verify" /\ c.link = liveLink["verify"]
                  /\ ~(~c.shown /\ c.link = sheet.link /\ sheet.name = "verify"))
      BY <1>7, <2>3 DEF b
    <3> QED BY <1>1, <1>7, <2>2, <2>3, <3>1, <3>2, <3>3, <3>4
  <2>4. CASE c.link # liveLink["verify"]
    <3>1. UNCHANGED <<liveLink, account>> /\ Answers(c, "refused")
      BY <2>1, <2>4 DEF ServeVerify
    <3>2. LinksFit'
      BY <1>1, <2>2, <3>1 DEF LinksFit
    <3> HIDE DEF b
    <3> QED BY <1>1, <1>4, <1>7, <2>2, <2>4, <3>1, <3>2
  <2> QED BY <2>3, <2>4
<1>8. CASE c.kind = "reset"
  <2>1. ServeNewPassword(c)
    BY <1>8 DEF ServePost
  <2> DEFINE b == ~c.shown /\ c.link = sheet.link /\ c.kind = sheet.name
  <2>2. b \in BOOLEAN /\ sheet' = [sheet EXCEPT !.doubt = @ \/ b]
    BY <2>1, <1>2 DEF ServeNewPassword, Doubted, PostFits
  <2>3. \/ /\ liveLink' = [liveLink EXCEPT !["reset"] = 0]
           /\ account' = [account EXCEPT !.secret = c.secret] /\ backed' = FALSE /\ Answers(c, "ok")
        \/ UNCHANGED <<liveLink, account, backed>> /\ Answers(c, "refused")
    BY <2>1 DEF ServeNewPassword
  <2>4. /\ account' \in [status : {"none", "unverified", "active"}, secret : Nat]
        /\ account'.status = account.status
        /\ liveLink' \in [MailPurposes -> Nat] /\ liveLink'["verify"] = liveLink["verify"]
        /\ account.status = "none" => liveLink' = [p \in MailPurposes |-> 0]
    BY <2>3, <1>2, <1>4 DEF LinksFit
  <2>5. LinksFit'
    BY <1>1, <2>3, <2>4 DEF LinksFit
  <2> HIDE DEF b
  <2> QED BY <1>1, <1>8, <2>2, <2>3, <2>4, <2>5 DEF Enders
<1>9. CASE c.kind = "change"
  <2>1. ServeChange(c)
    BY <1>9 DEF ServePost
  <2>2. /\ UNCHANGED <<liveLink, sheet>>
        /\ \/ account' = [account EXCEPT !.secret = c.secret] /\ backed' = FALSE /\ Answers(c, "ok")
           \/ UNCHANGED <<account, backed>> /\ (Answers(c, "refused") \/ Answers(c, "expired"))
    BY <2>1 DEF ServeChange
  <2>3. /\ account' \in [status : {"none", "unverified", "active"}, secret : Nat]
        /\ account'.status = account.status
    BY <2>2, <1>2, <1>4
  <2>4. LinksFit'
    BY <1>1, <2>2, <2>3 DEF LinksFit
  <2> QED BY <1>1, <1>3, <1>4, <1>9, <2>2, <2>3, <2>4 DEF Enders
<1>10. CASE c.kind = "erase"
  <2>1. ServeErasure(c)
    BY <1>10 DEF ServePost
  <2> DEFINE b == liveLink' # liveLink
  <2>2. /\ sheet' = [sheet EXCEPT !.doubt = @ \/ b]
        /\ \/ /\ account' = NoAccount /\ liveLink' = [p \in MailPurposes |-> 0]
              /\ backed' = FALSE /\ Answers(c, "ok")
           \/ UNCHANGED <<account, liveLink, backed>> /\ (Answers(c, "refused") \/ Answers(c, "expired"))
    BY <2>1 DEF ServeErasure
  <2>3. /\ account' \in [status : {"none", "unverified", "active"}, secret : Nat]
        /\ liveLink' \in [MailPurposes -> Nat]
    BY <2>2, <1>4 DEF NoAccount
  <2>4. LinksFit'
    <3>1. CASE account' = NoAccount /\ liveLink' = [p \in MailPurposes |-> 0] /\ backed' = FALSE
      BY <1>1, <1>4, <3>1 DEF LinksFit
    <3>2. CASE UNCHANGED <<account, liveLink, backed>>
      BY <1>1, <3>2 DEF LinksFit
    <3> QED BY <2>2, <3>1, <3>2
  <2>5. b \in BOOLEAN /\ (liveLink'["verify"] # liveLink["verify"] => b)
    OBVIOUS
  <2> HIDE DEF b
  <2> QED BY <1>1, <1>10, <2>2, <2>3, <2>4, <2>5 DEF Enders
<1> QED BY <1>2, <1>5, <1>6, <1>7, <1>8, <1>9, <1>10 DEF PostKinds

\* The server serves a request of a page, or loses it.
LEMMA RequestsServed ==
  ASSUME AccountIInv, NEW c \in posts, ServePost(c)
  PROVE  AccountIInv'
<1> USE DEF AccountIInv
<1>1. PICK at \in {"ok", "refused", "expired"} :
        /\ Answers(c, at)
        /\ c.kind = "verify" /\ c.link = liveLink["verify"] => at = "ok"
        /\ c.kind \notin {"change", "erase"} => at # "expired"
  BY PostServed
<1>2. PICK b \in BOOLEAN :
        /\ sheet' = [sheet EXCEPT !.doubt = @ \/ b]
        /\ liveLink'["verify"] # liveLink["verify"] =>
             b \/ (c.kind = "verify" /\ c.link = liveLink["verify"]
                   /\ ~(~c.shown /\ c.link = sheet.link /\ sheet.name = "verify"))
  BY PostServed
<1>3. /\ sheet' \in [name : SheetNames, link : Nat, phase : SheetPhases,
                     reran : BOOLEAN, doubt : BOOLEAN]
      /\ sheet'.name = sheet.name /\ sheet'.link = sheet.link /\ sheet'.phase = sheet.phase
      /\ sheet'.doubt <=> sheet.doubt \/ b
  BY <1>2, SheetDoubted
<1>4. at \in Arrivals
  BY DEF Arrivals
<1>5. (\A e \in posts : PostFits(e))' /\ OneShown'
  BY <1>1, <1>3, <1>4, PostAnswered
<1>6. PICK d : /\ posts' = (posts \ {c}) \union {d} /\ d.at = at
               /\ d.kind = c.kind /\ d.shown = c.shown /\ d.link = c.link
  BY <1>1, <1>3, <1>4, PostAnswered
<1>7. /\ c.at = "sent" /\ UNCHANGED <<issuedLinks, inbox, signedIn, untold>>
      /\ account' \in [status : {"none", "unverified", "active"}, secret : Nat]
      /\ liveLink' \in [MailPurposes -> Nat] /\ LinksFit'
      /\ \/ backed' = backed
         \/ backed' = FALSE /\ c.kind \in Enders /\ Answers(c, "ok")
  BY PostServed
<1>8. AccountFits'
  BY <1>3, <1>5, <1>7 DEF AccountFits
<1>9. LinkAwaited'
  <2> SUFFICES ASSUME sheet'.name = "verify", ~sheet'.doubt
               PROVE  /\ sheet'.phase # "failed"
                      /\ \A e \in posts' : e.shown =>
                           /\ e.kind = "verify" /\ e.link = sheet'.link
                           /\ e.at = "ok" \/ (e.at = "sent" /\ liveLink'["verify"] = sheet'.link)
    BY DEF LinkAwaited
  <2>1. /\ sheet.name = "verify" /\ ~sheet.doubt /\ ~b /\ sheet.phase # "failed"
        /\ \A e \in posts : e.shown =>
             /\ e.kind = "verify" /\ e.link = sheet.link
             /\ e.at = "ok" \/ (e.at = "sent" /\ liveLink["verify"] = sheet.link)
    BY <1>3 DEF LinkAwaited
  <2>2. ASSUME c.shown
        PROVE  /\ c.kind = "verify" /\ c.link = sheet.link /\ at = "ok"
               /\ \A e \in posts \ {c} : ~e.shown
    <3>1. c.kind = "verify" /\ c.link = sheet.link /\ liveLink["verify"] = sheet.link
      BY <1>7, <2>1, <2>2
    <3>2. \A e \in posts \ {c} : ~e.shown
      BY <2>2 DEF OneShown
    <3> QED BY <1>1, <3>1, <3>2
  <2>3. ASSUME ~c.shown, NEW e \in posts, e.shown
        PROVE  e.at = "ok" \/ (e.at = "sent" /\ liveLink'["verify"] = sheet.link)
    <3>1. CASE liveLink'["verify"] = liveLink["verify"]
      BY <2>1, <2>3, <3>1
    <3>2. CASE liveLink'["verify"] # liveLink["verify"]
      BY <1>2, <2>1, <2>3, <3>2
    <3> QED BY <3>1, <3>2
  <2>4. ASSUME NEW e \in posts', e.shown
        PROVE  /\ e.kind = "verify" /\ e.link = sheet'.link
               /\ e.at = "ok" \/ (e.at = "sent" /\ liveLink'["verify"] = sheet'.link)
    <3>1. CASE e = d
      BY <1>3, <1>6, <2>2, <2>4, <3>1
    <3>2. CASE e # d
      <4>1. e \in posts \ {c}
        BY <1>6, <3>2
      <4>2. ~c.shown
        BY <2>2, <2>4, <4>1
      <4> QED BY <1>3, <2>1, <2>3, <2>4, <4>1, <4>2
    <3> QED BY <3>1, <3>2
  <2> QED BY <1>3, <2>1, <2>4
<1>10. UserHasSession'
  <2>1. \A e \in posts : e.kind \in Enders /\ e.at \in {"ok", "lost"} => e \in posts'
    BY <1>6, <1>7
  <2>2. CASE backed' = backed
    BY <1>7, <2>1, <2>2, SessionAsBefore
  <2>3. CASE c.kind \in Enders /\ Answers(c, "ok")
    <3>1. "ok" \in Arrivals
      BY DEF Arrivals
    <3>2. \E e : e \in posts' /\ e.kind = c.kind /\ e.at = "ok"
      BY <1>3, <2>3, <3>1, PostAnswered
    <3> QED BY <2>3, <3>2 DEF UserHasSession, Enders
  <2> QED BY <1>7, <2>2, <2>3
<1> QED BY <1>5, <1>7, <1>8, <1>9, <1>10

\* The mail, the clock and the network.
LEMMA LinksMove ==
  ASSUME AccountIInv,
         (\E c \in posts : PostLost(c))
         \/ \E p \in MailPurposes : LinkLapses(p) \/ \E sent \in BOOLEAN : MailOut(p, sent)
  PROVE  AccountIInv'
<1> USE DEF AccountIInv
<1>1. UNCHANGED <<account, signedIn, backed, untold>>
  BY DEF PostLost, LinkLapses, MailOut
<1>2. CASE \E c \in posts : PostLost(c)
  <2> PICK c \in posts : PostLost(c)
    BY <1>2
  <2>1. c.at \in {"sent", "ok", "refused"} /\ Answers(c, "lost")
        /\ sheet' = [sheet EXCEPT !.doubt = @ \/ c.shown]
        /\ UNCHANGED <<liveLink, issuedLinks, inbox>>
    BY DEF PostLost, mailVars
  <2>2. c.shown \in BOOLEAN /\ "lost" \in Arrivals
    BY DEF AccountFits, PostFits, Arrivals
  <2>3. /\ sheet' \in [name : SheetNames, link : Nat, phase : SheetPhases,
                       reran : BOOLEAN, doubt : BOOLEAN]
        /\ sheet'.name = sheet.name /\ sheet'.link = sheet.link /\ sheet'.phase = sheet.phase
        /\ sheet'.doubt <=> sheet.doubt \/ c.shown
    BY <2>1, <2>2, SheetDoubted
  <2>4. (\A e \in posts : PostFits(e))' /\ OneShown'
    BY <2>1, <2>2, <2>3, PostAnswered
  <2>5. PICK d : /\ posts' = (posts \ {c}) \union {d} /\ d.at = "lost"
                 /\ d.kind = c.kind /\ d.shown = c.shown /\ d.link = c.link
    BY <2>1, <2>2, <2>3, PostAnswered
  <2>6. AccountFits'
    BY <1>1, <2>1, <2>3, <2>4 DEF AccountFits
  <2>7. LinksFit'
    BY <1>1, <2>1 DEF LinksFit
  <2>8. LinkAwaited'
    BY <2>1, <2>3, <2>5 DEF LinkAwaited
  <2>9. UserHasSession'
    <3>1. ASSUME NEW e \in posts, e.kind \in Enders, e.at \in {"ok", "lost"}
          PROVE  \E f \in posts' : f.kind = e.kind /\ f.at \in {"ok", "lost"}
      <4>1. CASE e = c
        BY <2>5, <4>1
      <4>2. CASE e # c
        BY <2>5, <3>1, <4>2
      <4> QED BY <4>1, <4>2
    <3> QED BY <1>1, <3>1, SessionAsBefore
  <2> QED BY <2>4, <2>6, <2>7, <2>8, <2>9
<1>3. ASSUME posts' = posts, NEW p \in MailPurposes, NEW n \in Nat,
             \/ liveLink' = [liveLink EXCEPT ![p] = n]
                /\ sheet' = [sheet EXCEPT !.doubt = @ \/ sheet.name = p]
             \/ UNCHANGED <<liveLink, sheet>>,
             issuedLinks' \in Nat, inbox' \subseteq MailPurposes \X Nat, LinksFit'
      PROVE  AccountIInv'
  <2>1. /\ sheet' \in [name : SheetNames, link : Nat, phase : SheetPhases,
                       reran : BOOLEAN, doubt : BOOLEAN]
        /\ sheet'.name = sheet.name /\ sheet'.link = sheet.link /\ sheet'.phase = sheet.phase
        /\ sheet.doubt => sheet'.doubt
        /\ liveLink'["verify"] # liveLink["verify"] /\ sheet.name = "verify" => sheet'.doubt
        /\ liveLink' \in [MailPurposes -> Nat]
    <3>1. CASE UNCHANGED <<liveLink, sheet>>
      BY <3>1 DEF AccountFits
    <3>2. CASE /\ liveLink' = [liveLink EXCEPT ![p] = n]
               /\ sheet' = [sheet EXCEPT !.doubt = @ \/ sheet.name = p]
      <4>1. (sheet.name = p) \in BOOLEAN
        OBVIOUS
      <4>2. /\ sheet' \in [name : SheetNames, link : Nat, phase : SheetPhases,
                           reran : BOOLEAN, doubt : BOOLEAN]
            /\ sheet'.name = sheet.name /\ sheet'.link = sheet.link /\ sheet'.phase = sheet.phase
            /\ sheet'.doubt <=> sheet.doubt \/ sheet.name = p
        BY <3>2, <4>1, SheetDoubted
      <4>3. liveLink' \in [MailPurposes -> Nat] /\ \A q \in MailPurposes \ {p} : liveLink'[q] = liveLink[q]
        BY <3>2 DEF AccountFits
      <4>4. "verify" \in MailPurposes
        BY DEF MailPurposes
      <4> QED BY <4>2, <4>3, <4>4
    <3> QED BY <1>3, <3>1, <3>2
  <2>2. (\A c \in posts : PostFits(c))'
    BY <1>3 DEF AccountFits, PostFits
  <2>3. AccountFits'
    BY <1>1, <1>3, <2>1, <2>2 DEF AccountFits
  <2>4. OneShown'
    BY <1>3, <2>1 DEF OneShown
  <2>5. LinkAwaited'
    BY <1>3, <2>1 DEF LinkAwaited
  <2>6. UserHasSession'
    BY <1>1, <1>3, SessionAsBefore
  <2> QED BY <1>3, <2>3, <2>4, <2>5, <2>6
<1>4. CASE \E p \in MailPurposes : LinkLapses(p)
  <2> PICK p \in MailPurposes : LinkLapses(p)
    BY <1>4
  <2>1. /\ liveLink' = [liveLink EXCEPT ![p] = 0]
        /\ sheet' = [sheet EXCEPT !.doubt = @ \/ sheet.name = p]
        /\ UNCHANGED <<issuedLinks, inbox, posts>>
    BY DEF LinkLapses
  <2>2. LinksFit'
    BY <1>1, <2>1 DEF LinksFit, AccountFits, MailPurposes
  <2>3. issuedLinks' \in Nat /\ inbox' \subseteq MailPurposes \X Nat /\ 0 \in Nat
    BY <2>1 DEF AccountFits
  <2> QED BY <1>3, <2>1, <2>2, <2>3
<1>5. CASE \E p \in MailPurposes : \E sent \in BOOLEAN : MailOut(p, sent)
  <2> PICK p \in MailPurposes, sent \in BOOLEAN : MailOut(p, sent)
    BY <1>5
  <2>0. posts' = posts /\ issuedLinks \in Nat /\ inbox \subseteq MailPurposes \X Nat
    BY DEF MailOut, AccountFits
  <2>1. CASE UNCHANGED <<liveLink, issuedLinks, inbox, sheet>>
    <3>1. LinksFit'
      BY <1>1, <2>1 DEF LinksFit
    <3> QED BY <1>3, <2>0, <2>1, <3>1
  <2>2. CASE ~UNCHANGED <<liveLink, issuedLinks, inbox, sheet>>
    <3> DEFINE n == issuedLinks + 1
    <3>1. /\ account.status # "none" /\ (p = "verify" => account.status = "unverified")
          /\ issuedLinks' = n /\ liveLink' = [liveLink EXCEPT ![p] = n]
          /\ inbox' \subseteq inbox \union {<<p, n>>}
          /\ sheet' = [sheet EXCEPT !.doubt = @ \/ sheet.name = p]
      BY <2>2 DEF MailOut
    <3>2. n \in Nat /\ issuedLinks <= n
      BY <2>0
    <3>3. inbox' \subseteq MailPurposes \X Nat
      BY <2>0, <3>1, <3>2
    <3>4. LinksFit'
      <4>1. \A entry \in inbox' : entry[2] <= issuedLinks'
        <5>1. ASSUME NEW entry \in inbox
              PROVE  entry[2] <= n
          <6>1. entry[2] \in Nat /\ entry[2] <= issuedLinks
            BY <2>0 DEF LinksFit
          <6> QED BY <2>0, <3>2, <6>1
        <5>2. <<p, n>>[2] = n
          OBVIOUS
        <5> QED BY <3>1, <3>2, <5>1, <5>2
      <4>2. liveLink'["verify"] # 0 => account'.status = "unverified"
        BY <1>1, <3>1 DEF LinksFit, AccountFits
      <4> QED BY <1>1, <3>1, <4>1, <4>2 DEF LinksFit
    <3> QED BY <1>3, <2>0, <3>1, <3>2, <3>3, <3>4
  <2> QED BY <2>1, <2>2
<1> QED BY <1>2, <1>4, <1>5

\* The page, or another one by now, goes on with the answer.
LEMMA AnswersContinue ==
  ASSUME AccountIInv, NEW c \in posts, Continue(c)
  PROVE  AccountIInv'
<1> USE DEF AccountIInv
<1>1. UNCHANGED <<account, liveLink, issuedLinks, inbox>> /\ c.at \in {"ok", "refused", "expired", "lost"}
  BY DEF Continue, mailVars
<1>2. signedIn' \in BOOLEAN /\ untold' \in BOOLEAN /\ backed' \in BOOLEAN
  BY DEF Continue, SessionLost, MoveOn, StayOn, AccountFits
<1>3. backed' => backed
  BY DEF Continue, SessionLost, MoveOn, StayOn
<1>4. LinksFit'
  BY <1>1, <1>3 DEF LinksFit
<1>5. ASSUME (sheet \in [name : SheetNames, link : Nat, phase : SheetPhases,
                         reran : BOOLEAN, doubt : BOOLEAN])',
             (\A e \in posts : PostFits(e))'
      PROVE  AccountFits'
  BY <1>1, <1>2, <1>5 DEF AccountFits
<1>6. CASE c.at = "expired"
  <2>1. /\ posts' = Left(posts \ {c}) /\ sheet' = Sheet("login", 0, "form") /\ signedIn' = FALSE
    BY <1>6 DEF Continue, SessionLost
  <2>2. /\ sheet' \in [name : SheetNames, link : Nat, phase : SheetPhases,
                       reran : BOOLEAN, doubt : BOOLEAN]
        /\ (\A e \in posts : PostFits(e))' /\ OneShown' /\ LinkAwaited'
    <3>1. "login" \in PublicSheets \union ProtectedSheets /\ posts \ {c} \subseteq posts
      BY DEF PublicSheets
    <3> QED BY <2>1, <3>1, PageLeft
  <2>3. UserHasSession'
    BY <2>1 DEF UserHasSession
  <2> QED BY <1>4, <1>5, <2>2, <2>3
<1>7. CASE c.at # "expired"
  <2>1. /\ signedIn' = (signedIn /\ ~Forgets(c))
        /\ untold' = (signedIn' /\ ~backed' /\ (untold \/ Silent(c)))
        /\ IF c.at = "ok" /\ c.kind \in {"reset", "erase"} THEN MoveOn(c) ELSE StayOn(c)
    BY <1>7 DEF Continue
  <2>2. ASSUME \A e \in posts \ {c} : \E f \in posts' : f.kind = e.kind /\ f.at = e.at
        PROVE  UserHasSession'
    <3> SUFFICES ASSUME signedIn', ~backed'
                 PROVE  untold' \/ \E f \in posts' : f.kind \in Enders /\ f.at \in {"ok", "lost"}
      BY DEF UserHasSession, Enders
    <3>1. signedIn /\ ~Forgets(c)
      BY <2>1
    <3>2. backed' = backed
      <4>1. CASE c.at = "ok" /\ c.kind \in {"reset", "erase"}
        BY <3>1, <4>1 DEF Forgets
      <4>2. CASE ~(c.at = "ok" /\ c.kind \in {"reset", "erase"})
        BY <2>1, <4>2 DEF StayOn
      <4> QED BY <4>1, <4>2
    <3>3. CASE untold
      BY <2>1, <3>3
    <3>4. CASE ~untold
      <4>1. PICK e \in posts : e.kind \in Enders /\ e.at \in {"ok", "lost"}
        BY <3>1, <3>2, <3>4 DEF UserHasSession, Enders
      <4>2. CASE e # c
        BY <2>2, <4>1, <4>2
      <4>3. CASE e = c
        <5>1. Silent(c)
          BY <3>1, <4>1, <4>3 DEF Silent, Forgets, Enders
        <5> QED BY <2>1, <5>1
      <4> QED BY <4>2, <4>3
    <3> QED BY <3>3, <3>4
  <2>3. CASE c.at = "ok" /\ c.kind \in {"reset", "erase"}
    <3>1. \E name \in {"login", "home"} :
            sheet' = Sheet(name, 0, "form") /\ posts' = Left(posts \ {c})
      BY <2>1, <2>3 DEF MoveOn
    <3>2. PICK name \in {"login", "home"} :
            sheet' = Sheet(name, 0, "form") /\ posts' = Left(posts \ {c})
      BY <3>1
    <3>3. name \in PublicSheets \union ProtectedSheets /\ posts \ {c} \subseteq posts
      BY DEF PublicSheets
    <3>4. /\ sheet' \in [name : SheetNames, link : Nat, phase : SheetPhases,
                         reran : BOOLEAN, doubt : BOOLEAN]
          /\ (\A e \in posts : PostFits(e))' /\ OneShown' /\ LinkAwaited'
          /\ \A e \in posts \ {c} : \E f \in posts' : f.kind = e.kind /\ f.at = e.at
      BY <3>2, <3>3, PageLeft
    <3> QED BY <1>4, <1>5, <2>2, <3>4
  <2>4. CASE ~(c.at = "ok" /\ c.kind \in {"reset", "erase"})
    <3>1. /\ sheet' = IF c.shown THEN [sheet EXCEPT !.phase = Outcome(c)] ELSE sheet
          /\ posts' = posts \ {c}
      BY <2>1, <2>4 DEF StayOn
    <3>2. Outcome(c) \in SheetPhases /\ (c.at = "ok" => Outcome(c) # "failed")
      BY DEF Outcome, SheetPhases
    <3>3. /\ sheet' \in [name : SheetNames, link : Nat, phase : SheetPhases,
                         reran : BOOLEAN, doubt : BOOLEAN]
          /\ sheet'.name = sheet.name /\ sheet'.link = sheet.link /\ sheet'.doubt = sheet.doubt
          /\ c.shown => sheet'.phase = Outcome(c)
          /\ ~c.shown => sheet'.phase = sheet.phase
      BY <3>1, <3>2 DEF AccountFits
    <3>4. (\A e \in posts : PostFits(e))'
      BY <3>1 DEF AccountFits, PostFits
    <3>5. OneShown'
      <4>1. CASE c.shown
        BY <3>1, <4>1 DEF OneShown
      <4>2. CASE ~c.shown
        BY <3>1, <3>3, <4>2 DEF OneShown
      <4> QED BY <4>1, <4>2
    <3>6. LinkAwaited'
      <4>1. sheet'.name = "verify" /\ ~sheet'.doubt => sheet'.phase # "failed"
        <5> SUFFICES ASSUME sheet'.name = "verify", ~sheet'.doubt
                     PROVE  sheet'.phase # "failed"
          OBVIOUS
        <5>1. sheet.phase # "failed" /\ (c.shown => c.at = "ok" \/ c.at = "sent")
          BY <3>3 DEF LinkAwaited
        <5> QED BY <1>1, <3>2, <3>3, <5>1
      <4> QED BY <1>1, <3>1, <3>3, <4>1 DEF LinkAwaited
    <3>7. UserHasSession'
      BY <2>2, <3>1
    <3> QED BY <1>4, <1>5, <3>3, <3>4, <3>5, <3>6, <3>7
  <2> QED BY <2>3, <2>4
<1> QED BY <1>6, <1>7

\* Every step preserves the invariant.
LEMMA AccountSteps ==
  ASSUME AccountIInv, [AccountNext]_accountVars
  PROVE  AccountIInv'
<1>1. CASE AccountNext
  <2>1. \/ (\E name \in PublicSheets \union ProtectedSheets : OpenSheet(name))
           \/ SignIn \/ HomeRefused \/ TimerFires
        \/ (\E entry \in inbox : FollowLink(entry[1], entry[2]))
           \/ EffectAgain \/ \E f \in FormPosts : SubmitSheet(f[1], f[2], f[3])
        \/ \E c \in posts : ServePost(c)
        \/ (\E c \in posts : PostLost(c))
           \/ \E p \in MailPurposes : LinkLapses(p) \/ \E sent \in BOOLEAN : MailOut(p, sent)
        \/ \E c \in posts : Continue(c)
    BY <1>1, Zenon DEF AccountNext
  <2> QED BY <2>1, UserLeaves, UserAsks, RequestsServed, LinksMove, AnswersContinue
<1>2. CASE UNCHANGED accountVars
  <2> USE <1>2 DEF accountVars, AccountIInv
  <2>1. AccountFits'
    BY DEF AccountFits, PostFits
  <2>2. OneShown' /\ LinkAwaited' /\ LinksFit' /\ UserHasSession'
    BY DEF OneShown, LinkAwaited, LinksFit, UserHasSession
  <2> QED BY <2>1, <2>2
<1> QED BY <1>1, <1>2

\* The inductive invariant implies what the pages promise.
LEMMA AccountInvFollows ==
  ASSUME AccountIInv
  PROVE  AccountInv
<1> USE DEF AccountIInv
<1>1. LiveLinkConfirms
  BY DEF LinkAwaited, LiveLinkConfirms
<1>2. Cardinality({c \in posts : c.shown}) <= 1
  <2> DEFINE S == {c \in posts : c.shown}
  <2>0. \A x, y \in S : x = y
    BY DEF OneShown
  <2> HIDE DEF S
  <2>1. ASSUME S # {}
        PROVE  \E x : S = {x}
    <3> PICK x \in S : TRUE
      BY <2>1
    <3>1. S = {x}
      BY <2>0
    <3> QED BY <3>1
  <2>2. Cardinality(S) = 0 \/ Cardinality(S) = 1
    BY <2>1, FS_EmptySet, FS_Singleton
  <2>3. Cardinality(S) <= 1
    BY <2>2
  <2> QED BY <2>3 DEF S
<1> QED BY <1>1, <1>2 DEF AccountInv, LinksFit

\* The account pages blame no live link, and drop the user with the session, for any
\* number of links, requests and passwords.
THEOREM AccountKept == AccountSpec => [](AccountInv /\ LiveLinkConfirms)
<1>1. AccountInit => AccountIInv
  BY AccountStarts
<1>2. AccountIInv /\ [AccountNext]_accountVars => AccountIInv'
  BY AccountSteps
<1>3. AccountIInv => AccountInv /\ LiveLinkConfirms
  BY AccountInvFollows DEF AccountInv
<1> QED BY <1>1, <1>2, <1>3, PTL DEF AccountSpec

-----------------------------------------------------------------------------
(* The Members section.                                                    *)

\* A row of the table.
MemberRows == [id : Nat, status : Lifecycle \union {"none"}]

\* The rows of one page.
APage(rows) == rows \subseteq MemberRows /\ IsFiniteSet(rows) /\ Cardinality(rows) <= PageSize

\* A request of an action, and of a page.
ActionFits(a) == /\ a.kind \in ActionKinds
                 /\ a = [kind |-> a.kind, member |-> a.member, offset |-> a.offset, at |-> a.at]
                 /\ a.member \in Nat /\ a.offset \in Nat

ListingFits(f) == /\ f.then \in ActionKinds \union {"page"}
                  /\ f = [id |-> f.id, offset |-> f.offset, then |-> f.then, at |-> f.at,
                          rows |-> f.rows, extra |-> f.extra]
                  /\ f.offset \in Nat
                  /\ APage(f.rows)

\* The types; a page starts at a multiple of the page size.
MembersFit ==
  /\ \E k \in Nat : offset = PageSize * k
  /\ APage(members)
  /\ viewed \in MemberRows
  /\ dialog = NoDialog \/ dialog \in [kind : {"suspend", "delete"}, member : Nat]
  /\ failed \in [ActionKinds -> Nat]
  /\ busy \in [status : BOOLEAN, delete : BOOLEAN]
  /\ \A a \in actions : ActionFits(a)
  /\ \A f \in listings : ListingFits(f)

\* The flag of a group is up from the click to the end of the reload: its action,
\* then the page that action asked for.
ActionsOf(group) == {a \in actions : a.kind \in group}
ListingsOf(group) == {f \in listings : f.then \in group}
RunsOne(group, flag) ==
  \/ flag /\ ListingsOf(group) = {} /\ \E a : ActionsOf(group) = {a}
  \/ flag /\ ActionsOf(group) = {} /\ \E f : ListingsOf(group) = {f}
  \/ ~flag /\ ActionsOf(group) = {} /\ ListingsOf(group) = {}
Switches == {"suspend", "reinstate"}
Deletions == {"delete"}
OneRuns == RunsOne(Switches, busy.status) /\ RunsOne(Deletions, busy.delete)

\* The confirmation of an action stays open, without an error, until its answer.
DialogHeld ==
  \A a \in actions :
    /\ failed[a.kind] = 0
    /\ a.kind # "reinstate" => dialog = [kind |-> a.kind, member |-> a.member]

MembersIInv ==
  /\ MembersFit /\ OneRuns /\ DialogHeld
  /\ DetailIsRow /\ DialogErrorIsItsOwn /\ NotStranded

\* A page has at most PageSize rows: every Member of it has a rank of its own.
LEMMA PagesAreSmall ==
  ASSUME NEW o \in Nat
  PROVE  APage(PageAt(o, 0))
<1> DEFINE P == {n \in Listed : Rank(n) >= o /\ Rank(n) < o + PageSize + 0}
           R == o..(o + PageSize - 1)
           rank == [n \in P |-> Rank(n)]
<1>0. PageSize \in Nat /\ PageSize # 0 /\ MaxMembers \in Nat
  BY MembersPageAssumption
<1>1. IsFiniteSet(Listed) /\ Listed \subseteq 1..MaxMembers
  <2>1. Listed \subseteq 1..MaxMembers
    BY DEF Listed, Ids
  <2>2. IsFiniteSet(1..MaxMembers)
    BY <1>0, FS_Interval
  <2> QED BY <2>1, <2>2, FS_Subset
<1>2. ASSUME NEW m \in Listed, NEW n \in Listed, m < n
      PROVE  Rank(n) \in Nat /\ Rank(n) < Rank(m)
  <2> DEFINE after(x) == {y \in Listed : y > x}
  <2>1. \A x : IsFiniteSet(after(x)) /\ Cardinality(after(x)) \in Nat
    <3> TAKE x
    <3>1. after(x) \subseteq Listed
      OBVIOUS
    <3> HIDE DEF after
    <3> QED BY <3>1, <1>1, FS_Subset, FS_CardinalityType
  <2>2. after(n) \subseteq after(m)
    <3>1. m \in Int /\ n \in Int /\ \A y \in Listed : y \in Int
      BY <1>1, <1>0
    <3>2. \A y \in Listed : y > n => y > m
      BY <1>2, <3>1
    <3> QED BY <3>2
  <2>3. n \in after(m) /\ n \notin after(n)
    BY <1>1, <1>2
  <2>4. Cardinality(after(n)) <= Cardinality(after(m)) /\ Cardinality(after(n)) # Cardinality(after(m))
    <3> HIDE DEF after
    <3> QED BY <2>1, <2>2, <2>3, FS_Subset
  <2>5. Rank(n) = Cardinality(after(n)) /\ Rank(m) = Cardinality(after(m))
    BY DEF Rank
  <2> HIDE DEF after
  <2> QED BY <2>1, <2>4, <2>5
<1>3. \A n \in P : Rank(n) \in R
  <2> TAKE n \in P
  <2>1. IsFiniteSet({y \in Listed : y > n})
    BY <1>1, FS_Subset
  <2>2. Rank(n) \in Nat
    BY <2>1, FS_CardinalityType DEF Rank
  <2> QED BY <2>2, <1>0
<1>4. rank \in Injection(P, R)
  <2>1. rank \in [P -> R]
    BY <1>3
  <2>2. ASSUME NEW m \in P, NEW n \in P, m # n
        PROVE  rank[m] # rank[n]
    <3>1. m \in Listed /\ n \in Listed /\ m \in Nat /\ n \in Nat
      BY <1>1, <1>0
    <3>2. m < n \/ n < m
      BY <2>2, <3>1
    <3>3. Rank(m) # Rank(n) /\ rank[m] = Rank(m) /\ rank[n] = Rank(n)
      <4>1. Rank(m) \in R /\ Rank(n) \in R
        BY <1>3
      <4> QED BY <3>1, <3>2, <4>1, <1>2
    <3> QED BY <3>3
  <2> HIDE DEF rank
  <2> QED BY <2>1, <2>2 DEF Injection, IsInjective
<1>5. IsFiniteSet(P) /\ Cardinality(P) <= PageSize
  <2>1. IsFiniteSet(R) /\ Cardinality(R) = PageSize
    <3>1. o \in Int /\ o + PageSize - 1 \in Int /\ ~(o > o + PageSize - 1)
          /\ (o + PageSize - 1) - o + 1 = PageSize
      BY <1>0
    <3> QED BY <3>1, FS_Interval
  <2> HIDE DEF P, R, rank
  <2> QED BY <1>4, <2>1, FS_Injection
<1>6. PageAt(o, 0) = {[id |-> m, status |-> roll[m]] : m \in P}
  BY DEF PageAt
<1>7. PageAt(o, 0) \subseteq MemberRows
  BY <1>6, <1>1, <1>0 DEF MemberRows, Listed
<1>8. IsFiniteSet(PageAt(o, 0)) /\ Cardinality(PageAt(o, 0)) <= PageSize
  <2> DEFINE T == PageAt(o, 0)
             row == [m \in P |-> [id |-> m, status |-> roll[m]]]
  <2>1. row \in Surjection(P, T)
    <3>1. row \in [P -> T]
      BY <1>6
    <3>2. \A t \in T : \E m \in P : row[m] = t
      BY <1>6
    <3> HIDE DEF row
    <3> QED BY <3>1, <3>2 DEF Surjection
  <2>2. IsFiniteSet(T) /\ Cardinality(T) <= Cardinality(P)
    <3> HIDE DEF row, T, P
    <3> QED BY <2>1, <1>5, FS_Surjection
  <2>3. Cardinality(T) \in Nat /\ Cardinality(P) \in Nat
    <3> HIDE DEF T, P
    <3> QED BY <2>2, <1>5, FS_CardinalityType
  <2> HIDE DEF T, P
  <2>4. Cardinality(T) <= PageSize
    BY <2>2, <2>3, <1>5, <1>0
  <2> QED BY <2>2, <2>4 DEF T
<1> QED BY <1>7, <1>8 DEF APage

\* The absent row is a row, the absent dialog no dialog.
LEMMA NoRowIsRow == NoRow \in MemberRows /\ NoDialog \notin [kind : {"suspend", "delete"}, member : Nat]
BY DEF NoRow, NoDialog, MemberRows

\* A page as it is asked for.
LEMMA NewListing ==
  ASSUME NEW o \in Nat, NEW then \in ActionKinds \union {"page"}, NEW others
  PROVE  /\ ListingFits(PageRequest(o, then, others))
         /\ PageRequest(o, then, others).then = then
         /\ PageRequest(o, then, others).offset = o
<1>1. APage({})
  BY FS_EmptySet, MembersPageAssumption DEF APage
<1> QED BY <1>1 DEF ListingFits, PageRequest

\* A page served is the same request otherwise.
LEMMA ServedListing ==
  ASSUME NEW f, ListingFits(f), NEW rows, APage(rows), NEW extra
  PROVE  /\ ListingFits([f EXCEPT !.at = "ok", !.rows = rows, !.extra = extra])
         /\ [f EXCEPT !.at = "ok", !.rows = rows, !.extra = extra].then = f.then
<1> DEFINE g == [id |-> f.id, offset |-> f.offset, then |-> f.then, at |-> "ok",
                 rows |-> rows, extra |-> extra]
<1>1. [f EXCEPT !.at = "ok", !.rows = rows, !.extra = extra] = g
  <2> DEFINE e == [f EXCEPT !.at = "ok", !.rows = rows, !.extra = extra]
  <2>1. f \in [id : {f.id}, offset : {f.offset}, then : {f.then}, at : {f.at},
               rows : {f.rows}, extra : {f.extra}]
    BY DEF ListingFits
  <2>2. e \in [id : {f.id}, offset : {f.offset}, then : {f.then}, at : {"ok"},
               rows : {rows}, extra : {extra}]
    BY <2>1
  <2> HIDE DEF e
  <2>3. e = g
    BY <2>2
  <2> QED BY <2>3 DEF e
<1>2. ListingFits(g) /\ g.then = f.then
  BY DEF ListingFits
<1> QED BY <1>1, <1>2

\* An action served is the same action otherwise.
LEMMA ServedAction ==
  ASSUME NEW a, ActionFits(a), NEW at
  PROVE  /\ ActionFits([a EXCEPT !.at = at])
         /\ [a EXCEPT !.at = at].kind = a.kind
         /\ [a EXCEPT !.at = at].member = a.member
<1> DEFINE b == [kind |-> a.kind, member |-> a.member, offset |-> a.offset, at |-> at]
<1>1. [a EXCEPT !.at = at] = b
  BY DEF ActionFits
<1>2. ActionFits(b) /\ b.kind = a.kind /\ b.member = a.member
  BY DEF ActionFits
<1> QED BY <1>1, <1>2

\* The pages before and after a page start at multiples of the page size.
LEMMA PreviousPage ==
  ASSUME NEW k \in Nat, NEW o, o = PageSize * k
  PROVE  /\ o \in Nat
         /\ \E j \in Nat : Previous(o) = PageSize * j
         /\ \E j \in Nat : o + PageSize = PageSize * j
         /\ Previous(o) = o => o = 0
<1> USE MembersPageAssumption
<1>1. o \in Nat
  OBVIOUS
<1>2. \E j \in Nat : o + PageSize = PageSize * j
  <2>1. o + PageSize = PageSize * (k + 1)
    OBVIOUS
  <2> QED BY <2>1
<1>3. CASE o > PageSize
  <2>1. k >= 1 /\ k - 1 \in Nat
    <3>1. k # 0
      BY <1>3
    <3> QED BY <3>1
  <2>2. Previous(o) = PageSize * (k - 1)
    BY <1>3, <2>1 DEF Previous
  <2> QED BY <1>1, <1>2, <1>3, <2>1, <2>2 DEF Previous
<1>4. CASE ~(o > PageSize)
  <2>1. Previous(o) = 0 /\ 0 = PageSize * 0
    BY <1>4 DEF Previous
  <2> QED BY <1>1, <1>2, <2>1
<1> QED BY <1>3, <1>4

\* What runs, when the requests in flight are the same, or those of the table alone.
LEMMA RunsAsBefore ==
  ASSUME OneRuns, busy' = busy, actions' = actions,
         \A f : f.then # "page" => (f \in listings' <=> f \in listings)
  PROVE  OneRuns'
<1>1. ASSUME NEW group, "page" \notin group
      PROVE  ActionsOf(group)' = ActionsOf(group) /\ ListingsOf(group)' = ListingsOf(group)
  BY <1>1 DEF ActionsOf, ListingsOf
<1>2. "page" \notin Switches /\ "page" \notin Deletions
  BY DEF Switches, Deletions
<1>3. /\ ActionsOf(Switches)' = ActionsOf(Switches) /\ ListingsOf(Switches)' = ListingsOf(Switches)
      /\ ActionsOf(Deletions)' = ActionsOf(Deletions) /\ ListingsOf(Deletions)' = ListingsOf(Deletions)
  BY <1>1, <1>2
<1> QED BY <1>3 DEF OneRuns, RunsOne

\* The action of a kind is the only one of its group.
LEMMA AloneInGroup ==
  ASSUME MembersFit, OneRuns, NEW a \in actions
  PROVE  /\ Flag(a.kind)
         /\ a.kind \in Switches => ActionsOf(Switches) = {a} /\ ListingsOf(Switches) = {}
         /\ a.kind \in Deletions => ActionsOf(Deletions) = {a} /\ ListingsOf(Deletions) = {}
         /\ a.kind \in Switches \/ a.kind \in Deletions
         /\ \A b \in actions \ {a} : ~(a.kind \in Switches /\ b.kind \in Switches)
                                     /\ ~(a.kind \in Deletions /\ b.kind \in Deletions)
<1>1. a.kind \in {"suspend", "reinstate", "delete"}
  BY DEF MembersFit, ActionFits, ActionKinds
<1>2. a.kind \in Switches => a \in ActionsOf(Switches)
  BY DEF ActionsOf
<1>3. a.kind \in Deletions => a \in ActionsOf(Deletions)
  BY DEF ActionsOf
<1>4. a.kind \in Switches => busy.status /\ ActionsOf(Switches) = {a} /\ ListingsOf(Switches) = {}
  BY <1>2, Zenon DEF OneRuns, RunsOne
<1>5. a.kind \in Deletions => busy.delete /\ ActionsOf(Deletions) = {a} /\ ListingsOf(Deletions) = {}
  BY <1>3, Zenon DEF OneRuns, RunsOne
<1>6. /\ a.kind \in Switches \/ a.kind \in Deletions
      /\ a.kind = "delete" <=> a.kind \in Deletions
  BY <1>1 DEF Switches, Deletions
<1>7. Flag(a.kind)
  BY <1>4, <1>5, <1>6 DEF Flag
<1>8. \A b \in actions \ {a} : ~(a.kind \in Switches /\ b.kind \in Switches)
                               /\ ~(a.kind \in Deletions /\ b.kind \in Deletions)
  BY <1>4, <1>5 DEF ActionsOf
<1> QED BY <1>4, <1>5, <1>6, <1>7, <1>8

\* The invariant holds when the page opens.
LEMMA MembersStarts ==
  ASSUME MembersInit
  PROVE  MembersIInv
<1> USE DEF MembersInit
<1>1. MembersFit
  <2>1. offset = PageSize * 0
    BY MembersPageAssumption
  <2>2. APage(members)
    BY FS_EmptySet, MembersPageAssumption DEF APage
  <2>3. \A f \in listings : ListingFits(f)
    BY NewListing
  <2>4. failed \in [ActionKinds -> Nat] /\ busy \in [status : BOOLEAN, delete : BOOLEAN]
    OBVIOUS
  <2> QED BY <2>1, <2>2, <2>3, <2>4, NoRowIsRow DEF MembersFit
<1>2. OneRuns
  <2>1. \A f \in listings : f.then = "page"
    BY NewListing
  <2>2. /\ ActionsOf(Switches) = {} /\ ActionsOf(Deletions) = {}
        /\ ListingsOf(Switches) = {} /\ ListingsOf(Deletions) = {}
    BY <2>1 DEF ActionsOf, ListingsOf, Switches, Deletions
  <2> QED BY <2>2 DEF OneRuns, RunsOne
<1>3. DialogHeld /\ DetailIsRow /\ DialogErrorIsItsOwn
  BY DEF DialogHeld, DetailIsRow, DialogErrorIsItsOwn, ActionKinds
<1>4. NotStranded
  BY DEF NotStranded
<1> QED BY <1>1, <1>2, <1>3, <1>4 DEF MembersIInv

\* What the Admin does on the table, without a request of an action.
LEMMA AdminLooks ==
  ASSUME MembersIInv,
         (\E row \in members \union {viewed} :
             View(row) \/ \E kind \in {"suspend", "delete"} : OpenDialog(kind, row))
         \/ CloseDetail \/ CloseDialog
  PROVE  MembersIInv'
<1> USE DEF MembersIInv
<1>1. /\ UNCHANGED <<offset, members, hasNext, strayed, refreshing, listings, listError>>
      /\ UNCHANGED <<roll, actions, busy>>
  BY DEF View, OpenDialog, CloseDetail, CloseDialog, tableVars, fetchVars
<1>2. OneRuns'
  BY <1>1, RunsAsBefore
<1>3. NotStranded'
  BY <1>1 DEF NotStranded
<1>4. ASSUME viewed' \in MemberRows, failed' \in [ActionKinds -> Nat],
             dialog' = NoDialog \/ dialog' \in [kind : {"suspend", "delete"}, member : Nat]
      PROVE  MembersFit'
  BY <1>1, <1>4 DEF MembersFit, APage
<1>5. viewed' \in MemberRows /\ DetailIsRow'
  <2>1. viewed' = viewed \/ viewed' = NoRow \/ viewed' \in members
    BY DEF View, OpenDialog, CloseDetail, CloseDialog
  <2> QED BY <1>1, <2>1, NoRowIsRow DEF MembersFit, APage, DetailIsRow
<1>6. ASSUME dialog' = dialog, failed' = [failed EXCEPT !["reinstate"] = 0]
      PROVE  MembersIInv'
  <2>1. failed' \in [ActionKinds -> Nat]
    BY <1>6 DEF MembersFit
  <2>2. DialogHeld'
    BY <1>1, <1>6 DEF DialogHeld, MembersFit, ActionFits
  <2>3. DialogErrorIsItsOwn'
    BY <1>6 DEF DialogErrorIsItsOwn, MembersFit, ActionKinds
  <2> QED BY <1>2, <1>3, <1>4, <1>5, <1>6, <2>1, <2>2, <2>3 DEF MembersFit
<1>7. CASE (\E row \in members \union {viewed} : View(row)) \/ CloseDetail
  BY <1>6, <1>7 DEF View, CloseDetail
<1>8. CASE \E row \in members \union {viewed} : \E kind \in {"suspend", "delete"} : OpenDialog(kind, row)
  <2> PICK row \in members \union {viewed}, kind \in {"suspend", "delete"} : OpenDialog(kind, row)
    BY <1>8
  <2>1. dialog = NoDialog /\ dialog' = [kind |-> kind, member |-> row.id] /\ failed' = failed
    BY DEF OpenDialog
  <2>2. \A k, m : NoDialog = [kind |-> k, member |-> m] => k = "none"
    BY DEF NoDialog
  <2>3. dialog' \in [kind : {"suspend", "delete"}, member : Nat]
    BY <2>1 DEF MembersFit, APage, MemberRows
  <2>4. DialogHeld'
    <3>1. \A a \in actions : a.kind = "reinstate"
      BY <2>1, <2>2 DEF DialogHeld, MembersFit, ActionFits, ActionKinds
    <3> QED BY <1>1, <2>1, <3>1 DEF DialogHeld
  <2>5. DialogErrorIsItsOwn'
    BY <2>1, <2>2 DEF DialogErrorIsItsOwn
  <2> QED BY <1>2, <1>3, <1>4, <1>5, <2>1, <2>3, <2>4, <2>5 DEF MembersFit
<1>9. CASE CloseDialog
  <2>1. /\ dialog # NoDialog /\ ~Flag(dialog.kind) /\ dialog' = NoDialog
        /\ failed' = [failed EXCEPT ![dialog.kind] = 0]
    BY <1>9 DEF CloseDialog, Dismissed
  <2>2. failed' \in [ActionKinds -> Nat]
    BY <2>1 DEF MembersFit
  <2>3. DialogHeld'
    <3>1. ASSUME NEW a \in actions
          PROVE  a.kind = "reinstate" /\ failed'[a.kind] = 0
      <4>1. Flag(a.kind) /\ a.kind \in ActionKinds
        BY AloneInGroup DEF MembersFit, ActionFits
      <4>2. a.kind # "reinstate" => dialog.kind = a.kind
        BY DEF DialogHeld
      <4>3. failed[a.kind] = 0
        BY DEF DialogHeld
      <4> QED BY <2>1, <4>1, <4>2, <4>3 DEF MembersFit
    <3> QED BY <1>1, <3>1 DEF DialogHeld
  <2>4. DialogErrorIsItsOwn'
    <3>1. ASSUME NEW kind \in {"suspend", "delete"}
          PROVE  failed'[kind] = 0
      <4>1. failed[kind] # 0 => dialog.kind = kind
        BY DEF DialogErrorIsItsOwn
      <4> QED BY <2>1, <4>1 DEF MembersFit, ActionKinds
    <3> QED BY <3>1 DEF DialogErrorIsItsOwn
  <2> QED BY <1>2, <1>3, <1>4, <1>5, <2>1, <2>2, <2>3, <2>4
<1> QED BY <1>7, <1>8, <1>9

\* The Admin turns the page.
LEMMA AdminTurnsPage ==
  ASSUME MembersIInv, \E o \in {offset + PageSize, Previous(offset)} : TurnPage(o)
  PROVE  MembersIInv'
<1> USE DEF MembersIInv
<1> PICK o \in {offset + PageSize, Previous(offset)} : TurnPage(o)
  OBVIOUS
<1>1. /\ offset' = o /\ listings' = listings \union {PageRequest(o, "page", listings)}
      /\ UNCHANGED <<members, actions, busy, viewed, dialog, failed>>
  BY DEF TurnPage, Ask
<1>2. PICK k \in Nat : offset = PageSize * k
  BY DEF MembersFit
<1>3. o \in Nat /\ \E j \in Nat : o = PageSize * j
  <2>1. PICK j \in Nat : o = PageSize * j
    BY <1>2, PreviousPage
  <2> QED BY <2>1, PreviousPage
<1>4. ListingFits(PageRequest(o, "page", listings)) /\ PageRequest(o, "page", listings).then = "page"
  BY <1>3, NewListing
<1>5. MembersFit'
  <2>1. \A f \in listings' : ListingFits(f)
    BY <1>1, <1>4 DEF MembersFit
  <2>2. (\A f \in listings : ListingFits(f))'
    BY <2>1 DEF ListingFits, APage
  <2> QED BY <1>1, <1>3, <2>2 DEF MembersFit, APage, ActionFits
<1>6. OneRuns'
  BY <1>1, <1>4, RunsAsBefore
<1>7. DialogHeld' /\ DetailIsRow' /\ DialogErrorIsItsOwn'
  BY <1>1 DEF DialogHeld, DetailIsRow, DialogErrorIsItsOwn
<1>8. NotStranded'
  BY <1>1 DEF NotStranded
<1> QED BY <1>5, <1>6, <1>7, <1>8

\* A click that starts an action finds the flag of its group down.
LEMMA ActionStarts ==
  ASSUME MembersIInv, NEW kind \in ActionKinds, NEW m \in Nat, Start(kind, m),
         kind # "reinstate" => dialog = [kind |-> kind, member |-> m]
  PROVE  MembersIInv'
<1> USE DEF MembersIInv
<1> DEFINE new == [kind |-> kind, member |-> m, offset |-> offset, at |-> "sent"]
<1>1. /\ ~Flag(kind) /\ busy' = SetFlag(kind, TRUE) /\ failed' = [failed EXCEPT ![kind] = 0]
      /\ actions' = actions \union {new}
      /\ UNCHANGED <<offset, members, hasNext, strayed, refreshing, listings, listError>>
      /\ UNCHANGED <<roll, viewed, dialog>>
  BY DEF Start, tableVars, fetchVars
<1>2. offset \in Nat
  BY PreviousPage DEF MembersFit
<1>3. ActionFits(new) /\ new.kind = kind /\ new.member = m
  BY <1>2 DEF ActionFits
<1>4. busy' \in [status : BOOLEAN, delete : BOOLEAN] /\ failed' \in [ActionKinds -> Nat]
  BY <1>1 DEF SetFlag, MembersFit
<1> HIDE DEF new
<1>5. MembersFit'
  <2>1. (\A a \in actions : ActionFits(a))'
    BY <1>1, <1>3 DEF MembersFit, ActionFits
  <2>2. (\A f \in listings : ListingFits(f))'
    BY <1>1 DEF MembersFit, ListingFits, APage
  <2> QED BY <1>1, <1>4, <2>1, <2>2 DEF MembersFit, APage
<1>6. OneRuns'
  <2>1. ASSUME NEW group
        PROVE  /\ ListingsOf(group)' = ListingsOf(group)
               /\ kind \in group => ActionsOf(group)' = ActionsOf(group) \union {new}
               /\ kind \notin group => ActionsOf(group)' = ActionsOf(group)
    BY <1>1, <1>3 DEF ListingsOf, ActionsOf
  <2>2. CASE kind = "delete"
    <3>1. ~busy.delete /\ busy'.delete = TRUE /\ busy'.status = busy.status
      BY <1>1, <2>2 DEF Flag, SetFlag, MembersFit
    <3>2. /\ ListingsOf(Switches)' = ListingsOf(Switches) /\ ActionsOf(Switches)' = ActionsOf(Switches)
          /\ ListingsOf(Deletions)' = ListingsOf(Deletions)
          /\ ActionsOf(Deletions)' = ActionsOf(Deletions) \union {new}
      BY <2>1, <2>2 DEF Switches, Deletions
    <3>3. ListingsOf(Deletions)' = {} /\ ActionsOf(Deletions)' = {new}
      BY <3>1, <3>2 DEF OneRuns, RunsOne
    <3> QED BY <3>1, <3>2, <3>3 DEF OneRuns, RunsOne
  <2>3. CASE kind # "delete"
    <3>1. ~busy.status /\ busy'.status = TRUE /\ busy'.delete = busy.delete
      BY <1>1, <2>3 DEF Flag, SetFlag, MembersFit
    <3>2. /\ ListingsOf(Deletions)' = ListingsOf(Deletions) /\ ActionsOf(Deletions)' = ActionsOf(Deletions)
          /\ ListingsOf(Switches)' = ListingsOf(Switches)
          /\ ActionsOf(Switches)' = ActionsOf(Switches) \union {new}
      BY <2>1, <2>3 DEF Switches, Deletions, ActionKinds
    <3>3. ListingsOf(Switches)' = {} /\ ActionsOf(Switches)' = {new}
      BY <3>1, <3>2 DEF OneRuns, RunsOne
    <3> QED BY <3>1, <3>2, <3>3 DEF OneRuns, RunsOne
  <2> QED BY <2>2, <2>3
<1>7. DialogHeld'
  BY <1>1, <1>3 DEF DialogHeld, MembersFit, ActionFits
<1>8. DetailIsRow' /\ NotStranded'
  BY <1>1 DEF DetailIsRow, NotStranded
<1>9. DialogErrorIsItsOwn'
  BY <1>1 DEF DialogErrorIsItsOwn, MembersFit, ActionKinds
<1> QED BY <1>5, <1>6, <1>7, <1>8, <1>9

\* The Admin starts an action.
LEMMA AdminConfirms ==
  ASSUME MembersIInv, Confirm \/ \E row \in members \union {viewed} : Reinstate(row)
  PROVE  MembersIInv'
<1>1. CASE Confirm
  <2>1. dialog \in [kind : {"suspend", "delete"}, member : Nat] /\ Start(dialog.kind, dialog.member)
    BY <1>1 DEF Confirm, MembersIInv, MembersFit
  <2>2. dialog.kind \in ActionKinds /\ dialog.member \in Nat
        /\ dialog = [kind |-> dialog.kind, member |-> dialog.member]
    BY <2>1 DEF ActionKinds
  <2> QED BY <2>1, <2>2, ActionStarts
<1>2. CASE \E row \in members \union {viewed} : Reinstate(row)
  <2> PICK row \in members \union {viewed} : Reinstate(row)
    BY <1>2
  <2>1. row.id \in Nat /\ "reinstate" \in ActionKinds /\ Start("reinstate", row.id)
    BY DEF Reinstate, MembersIInv, MembersFit, APage, MemberRows, ActionKinds
  <2> QED BY <2>1, ActionStarts
<1> QED BY <1>1, <1>2

\* The server, and what others do to the base.
LEMMA ServerActs ==
  ASSUME MembersIInv,
         (\E a \in actions : ServeAction(a)) \/ (\E f \in listings : ServeListing(f))
         \/ \E m \in Ids, status \in Lifecycle \union {"none"} : ChangesElsewhere(m, status)
  PROVE  MembersIInv'
<1> USE DEF MembersIInv
<1>1. /\ UNCHANGED <<offset, members, hasNext, strayed, listError, busy, viewed, dialog, failed>>
  BY DEF ServeAction, ServeListing, ChangesElsewhere, tableVars, fetchVars
<1>2. DetailIsRow' /\ DialogErrorIsItsOwn'
  BY <1>1 DEF DetailIsRow, DialogErrorIsItsOwn
<1>3. ASSUME (\A a \in actions : ActionFits(a))', (\A f \in listings : ListingFits(f))'
      PROVE  MembersFit'
  BY <1>1, <1>3 DEF MembersFit, APage
<1>4. CASE \E m \in Ids, status \in Lifecycle \union {"none"} : ChangesElsewhere(m, status)
  <2>1. UNCHANGED <<actions, listings>>
    BY <1>4 DEF ChangesElsewhere, fetchVars
  <2>2. (\A a \in actions : ActionFits(a))' /\ (\A f \in listings : ListingFits(f))'
    BY <2>1 DEF MembersFit, ActionFits, ListingFits, APage
  <2>3. OneRuns'
    BY <1>1, <2>1, RunsAsBefore
  <2>4. DialogHeld' /\ NotStranded'
    BY <1>1, <2>1 DEF DialogHeld, NotStranded
  <2> QED BY <1>2, <1>3, <2>2, <2>3, <2>4
<1>5. CASE \E a \in actions : ServeAction(a)
  <2> PICK a \in actions : ServeAction(a)
    BY <1>5
  <2>1. PICK b : /\ ActionFits(b) /\ b.kind = a.kind /\ b.member = a.member
                 /\ actions' = (actions \ {a}) \union {b}
    <3>1. ActionFits(a)
      BY DEF MembersFit
    <3>2. actions' = (actions \ {a}) \union {[a EXCEPT !.at = "ok"]}
          \/ actions' = (actions \ {a}) \union {[a EXCEPT !.at = "refused"]}
      BY DEF ServeAction
    <3> QED BY <3>1, <3>2, ServedAction, Zenon
  <2>2. listings' = listings
    BY DEF ServeAction, fetchVars
  <2>3. (\A c \in actions : ActionFits(c))' /\ (\A f \in listings : ListingFits(f))'
    BY <2>1, <2>2 DEF MembersFit, ActionFits, ListingFits, APage
  <2>4. OneRuns'
    <3>1. ASSUME NEW group
          PROVE  /\ ListingsOf(group)' = ListingsOf(group)
                 /\ a.kind \notin group => ActionsOf(group)' = ActionsOf(group)
                 /\ a.kind \in group /\ ActionsOf(group) = {a} => ActionsOf(group)' = {b}
      BY <2>1, <2>2 DEF ListingsOf, ActionsOf
    <3>2. ASSUME NEW group, NEW flag \in BOOLEAN, RunsOne(group, flag),
                 a.kind \in group => ActionsOf(group) = {a} /\ ListingsOf(group) = {}
          PROVE  \/ flag /\ ListingsOf(group)' = {} /\ \E x : ActionsOf(group)' = {x}
                 \/ flag /\ ActionsOf(group)' = {} /\ \E f : ListingsOf(group)' = {f}
                 \/ ~flag /\ ActionsOf(group)' = {} /\ ListingsOf(group)' = {}
      <4>1. CASE a.kind \in group
        <5>1. flag
          BY <3>2, <4>1 DEF RunsOne
        <5> QED BY <3>1, <3>2, <4>1, <5>1
      <4>2. CASE a.kind \notin group
        BY <3>1, <3>2, <4>2 DEF RunsOne
      <4> QED BY <4>1, <4>2
    <3>3. busy.status \in BOOLEAN /\ busy.delete \in BOOLEAN
      BY DEF MembersFit
    <3> QED BY <3>2, <3>3, <1>1, AloneInGroup DEF OneRuns, RunsOne
  <2>5. DialogHeld'
    BY <1>1, <2>1 DEF DialogHeld
  <2>6. NotStranded'
    BY <1>1, <2>2 DEF NotStranded
  <2> QED BY <1>2, <1>3, <2>3, <2>4, <2>5, <2>6
<1>6. CASE \E f \in listings : ServeListing(f)
  <2> PICK f \in listings : ServeListing(f)
    BY <1>6
  <2>0. ListingFits(f) /\ APage(PageAt(f.offset, 0))
    BY PagesAreSmall DEF MembersFit, ListingFits
  <2>1. PICK g : /\ ListingFits(g) /\ g.then = f.then
                 /\ listings' = (listings \ {f}) \union {g}
    <3>1. listings' = (listings \ {f})
            \union {[f EXCEPT !.at = "ok", !.rows = PageAt(f.offset, 0),
                              !.extra = PageAt(f.offset, 1) # PageAt(f.offset, 0)]}
      BY DEF ServeListing
    <3> QED BY <2>0, <3>1, ServedListing
  <2>2. actions' = actions
    BY DEF ServeListing
  <2>3. (\A c \in actions : ActionFits(c))' /\ (\A h \in listings : ListingFits(h))'
    BY <2>1, <2>2 DEF MembersFit, ActionFits, ListingFits, APage
  <2>4. OneRuns'
    <3>1. ASSUME NEW group
          PROVE  /\ ActionsOf(group)' = ActionsOf(group)
                 /\ f.then \notin group => ListingsOf(group)' = ListingsOf(group)
                 /\ ListingsOf(group) = {f} => ListingsOf(group)' = {g}
                 /\ f.then \in group => f \in ListingsOf(group)
      BY <2>1, <2>2 DEF ListingsOf, ActionsOf
    <3>2. ASSUME NEW group, NEW flag \in BOOLEAN, RunsOne(group, flag)
          PROVE  \/ flag /\ ListingsOf(group)' = {} /\ \E x : ActionsOf(group)' = {x}
                 \/ flag /\ ActionsOf(group)' = {} /\ \E h : ListingsOf(group)' = {h}
                 \/ ~flag /\ ActionsOf(group)' = {} /\ ListingsOf(group)' = {}
      <4>1. CASE f.then \in group
        <5>1. flag /\ ActionsOf(group) = {} /\ ListingsOf(group) = {f}
          BY <3>1, <3>2, <4>1 DEF RunsOne
        <5> QED BY <3>1, <5>1
      <4>2. CASE f.then \notin group
        BY <3>1, <3>2, <4>2 DEF RunsOne
      <4> QED BY <4>1, <4>2
    <3>3. busy.status \in BOOLEAN /\ busy.delete \in BOOLEAN
      BY DEF MembersFit
    <3> QED BY <3>2, <3>3, <1>1 DEF OneRuns, RunsOne
  <2>5. DialogHeld'
    BY <1>1, <2>2 DEF DialogHeld
  <2>6. NotStranded'
    BY <2>1 DEF NotStranded
  <2> QED BY <1>2, <1>3, <2>3, <2>4, <2>5, <2>6
<1> QED BY <1>4, <1>5, <1>6

\* The answer or failure of an action, and the reload it asks for.
LEMMA ActionsAnswer ==
  ASSUME MembersIInv, \E a \in actions : ActionDone(a) \/ ActionFails(a)
  PROVE  MembersIInv'
<1> USE DEF MembersIInv
<1> PICK a \in actions : ActionDone(a) \/ ActionFails(a)
  OBVIOUS
<1>1. /\ UNCHANGED <<offset, members, hasNext, strayed>> /\ actions' = actions \ {a}
  BY DEF ActionDone, ActionFails, tableVars
<1>2. ActionFits(a) /\ a.kind \in ActionKinds /\ a.member \in Nat /\ a.offset \in Nat
  BY DEF MembersFit, ActionFits
<1>3. (\A b \in actions : ActionFits(b))'
  BY <1>1 DEF MembersFit, ActionFits
<1>4. ASSUME NEW group
      PROVE  /\ a.kind \notin group => ActionsOf(group)' = ActionsOf(group)
             /\ ActionsOf(group) = {a} => ActionsOf(group)' = {}
  BY <1>1 DEF ActionsOf
<1>5. \A b \in actions \ {a} : ~(a.kind \in Switches /\ b.kind \in Switches)
                               /\ ~(a.kind \in Deletions /\ b.kind \in Deletions)
  BY AloneInGroup
<1>6. \A b \in actions \ {a} : b.kind # a.kind
  BY <1>5, AloneInGroup
<1>7. CASE ActionDone(a)
  <2> DEFINE f == PageRequest(a.offset, a.kind, listings)
  <2>1. /\ listings' = listings \union {f} /\ UNCHANGED <<busy, failed>>
        /\ dialog' = IF a.kind = "reinstate" THEN dialog ELSE NoDialog
        /\ viewed' = IF a.kind = "delete" THEN NoRow ELSE viewed
    BY <1>7 DEF ActionDone, Ask
  <2>2. ListingFits(f) /\ f.then = a.kind
    BY <1>2, NewListing
  <2> HIDE DEF f
  <2>3. MembersFit'
    <3>1. (\A g \in listings : ListingFits(g))'
      BY <2>1, <2>2 DEF MembersFit, ListingFits, APage
    <3> QED BY <1>1, <1>3, <2>1, <3>1, NoRowIsRow DEF MembersFit, APage
  <2>4. OneRuns'
    <3>1. ASSUME NEW group, NEW flag \in BOOLEAN, RunsOne(group, flag),
                 a.kind \in group => flag /\ ActionsOf(group) = {a} /\ ListingsOf(group) = {}
          PROVE  \/ flag /\ ListingsOf(group)' = {} /\ \E x : ActionsOf(group)' = {x}
                 \/ flag /\ ActionsOf(group)' = {} /\ \E h : ListingsOf(group)' = {h}
                 \/ ~flag /\ ActionsOf(group)' = {} /\ ListingsOf(group)' = {}
      <4>1. a.kind \notin group => ListingsOf(group)' = ListingsOf(group)
        BY <2>1, <2>2 DEF ListingsOf
      <4>2. a.kind \in group => ListingsOf(group)' = ListingsOf(group) \union {f}
        BY <2>1, <2>2 DEF ListingsOf
      <4>3. CASE a.kind \in group
        BY <1>4, <3>1, <4>2, <4>3
      <4>4. CASE a.kind \notin group
        BY <1>4, <3>1, <4>1, <4>4 DEF RunsOne
      <4> QED BY <4>3, <4>4
    <3>2. /\ a.kind \in Switches => busy.status /\ ActionsOf(Switches) = {a} /\ ListingsOf(Switches) = {}
          /\ a.kind \in Deletions => busy.delete /\ ActionsOf(Deletions) = {a} /\ ListingsOf(Deletions) = {}
      BY <1>2, AloneInGroup DEF Flag, Switches, Deletions
    <3>3. busy.status \in BOOLEAN /\ busy.delete \in BOOLEAN
      BY DEF MembersFit
    <3> QED BY <3>1, <3>2, <3>3, <2>1 DEF OneRuns, RunsOne
  <2>5. DialogHeld'
    <3>1. ASSUME NEW b \in actions \ {a}, b.kind # "reinstate"
          PROVE  a.kind = "reinstate"
      <4>1. dialog = [kind |-> b.kind, member |-> b.member]
        BY <3>1 DEF DialogHeld
      <4>2. a.kind # "reinstate" => dialog = [kind |-> a.kind, member |-> a.member]
        BY DEF DialogHeld
      <4> QED BY <4>1, <4>2, <1>6
    <3> QED BY <1>1, <2>1, <3>1 DEF DialogHeld
  <2>6. DialogErrorIsItsOwn'
    <3>1. ASSUME NEW kind \in {"suspend", "delete"}, failed[kind] # 0
          PROVE  a.kind = "reinstate"
      <4>1. dialog = [kind |-> kind, member |-> failed[kind]]
        BY <3>1 DEF DialogErrorIsItsOwn
      <4>2. failed[a.kind] = 0 /\ (a.kind # "reinstate" => dialog = [kind |-> a.kind, member |-> a.member])
        BY DEF DialogHeld
      <4> QED BY <3>1, <4>1, <4>2
    <3> QED BY <2>1, <3>1 DEF DialogErrorIsItsOwn
  <2>7. DetailIsRow' /\ NotStranded'
    BY <1>1, <2>1 DEF DetailIsRow, NotStranded
  <2> QED BY <2>3, <2>4, <2>5, <2>6, <2>7
<1>8. CASE ActionFails(a)
  <2>1. /\ busy' = SetFlag(a.kind, FALSE) /\ failed' = [failed EXCEPT ![a.kind] = a.member]
        /\ UNCHANGED <<viewed, dialog, listings, listError>>
    BY <1>8 DEF ActionFails, fetchVars
  <2>2. busy' \in [status : BOOLEAN, delete : BOOLEAN] /\ failed' \in [ActionKinds -> Nat]
    BY <1>2, <2>1 DEF SetFlag, MembersFit
  <2>3. MembersFit'
    <3>1. (\A g \in listings : ListingFits(g))'
      BY <2>1 DEF MembersFit, ListingFits, APage
    <3> QED BY <1>1, <1>3, <2>1, <2>2, <3>1 DEF MembersFit, APage
  <2>4. OneRuns'
    <3>1. \A group : ListingsOf(group)' = ListingsOf(group)
      BY <2>1 DEF ListingsOf
    <3>2. CASE a.kind = "delete"
      <4>1. a.kind \in Deletions /\ a.kind \notin Switches
        BY <3>2 DEF Deletions, Switches
      <4>2. busy'.delete = FALSE /\ busy'.status = busy.status
        BY <2>1, <3>2 DEF SetFlag, MembersFit
      <4>3. ListingsOf(Deletions)' = {} /\ ActionsOf(Deletions)' = {}
        BY <1>4, <3>1, <4>1, AloneInGroup
      <4>4. ListingsOf(Switches)' = ListingsOf(Switches) /\ ActionsOf(Switches)' = ActionsOf(Switches)
        BY <1>4, <3>1, <4>1
      <4> QED BY <4>2, <4>3, <4>4 DEF OneRuns, RunsOne
    <3>3. CASE a.kind # "delete"
      <4>1. a.kind \in Switches /\ a.kind \notin Deletions
        BY <3>3, <1>2 DEF Deletions, Switches, ActionKinds
      <4>2. busy'.status = FALSE /\ busy'.delete = busy.delete
        BY <2>1, <3>3 DEF SetFlag, MembersFit
      <4>3. ListingsOf(Switches)' = {} /\ ActionsOf(Switches)' = {}
        BY <1>4, <3>1, <4>1, AloneInGroup
      <4>4. ListingsOf(Deletions)' = ListingsOf(Deletions) /\ ActionsOf(Deletions)' = ActionsOf(Deletions)
        BY <1>4, <3>1, <4>1
      <4> QED BY <4>2, <4>3, <4>4 DEF OneRuns, RunsOne
    <3> QED BY <3>2, <3>3
  <2>5. DialogHeld'
    BY <1>1, <1>2, <1>6, <2>1 DEF DialogHeld, MembersFit, ActionFits
  <2>6. DialogErrorIsItsOwn'
    <3>1. a.kind # "reinstate" => dialog = [kind |-> a.kind, member |-> a.member]
      BY DEF DialogHeld
    <3>2. ASSUME NEW kind \in {"suspend", "delete"}
          PROVE  failed'[kind] # 0 => dialog = [kind |-> kind, member |-> failed'[kind]]
      <4>1. CASE kind = a.kind
        <5>1. failed'[kind] = a.member
          BY <2>1, <4>1, <1>2 DEF MembersFit
        <5> QED BY <3>1, <4>1, <5>1
      <4>2. CASE kind # a.kind
        <5>1. failed'[kind] = failed[kind]
          BY <2>1, <4>2 DEF MembersFit, ActionKinds
        <5> QED BY <5>1 DEF DialogErrorIsItsOwn
      <4> QED BY <4>1, <4>2
    <3> QED BY <2>1, <3>2 DEF DialogErrorIsItsOwn
  <2>7. DetailIsRow' /\ NotStranded'
    BY <1>1, <2>1 DEF DetailIsRow, NotStranded
  <2> QED BY <2>3, <2>4, <2>5, <2>6, <2>7
<1> QED BY <1>7, <1>8

\* The end of a reload frees the flag of the action it followed, and no other.
LEMMA ReloadFrees ==
  ASSUME MembersFit, OneRuns, NEW f \in listings, Released(f), actions' = actions,
         listings \ {f} \subseteq listings',
         \A g \in listings' : g \in listings \ {f} \/ g.then = "page"
  PROVE  OneRuns' /\ busy' \in [status : BOOLEAN, delete : BOOLEAN]
<1>1. f.then \in {"page", "delete", "suspend", "reinstate"}
  BY DEF MembersFit, ListingFits, ActionKinds
<1>2. ASSUME NEW group, "page" \notin group
      PROVE  /\ ActionsOf(group)' = ActionsOf(group)
             /\ f.then \notin group => ListingsOf(group)' = ListingsOf(group)
             /\ ListingsOf(group) = {f} => ListingsOf(group)' = {}
             /\ f.then \in group => f \in ListingsOf(group)
  BY <1>2 DEF ActionsOf, ListingsOf
<1>3. "page" \notin Switches /\ "page" \notin Deletions
  BY DEF Switches, Deletions
<1>4. busy' \in [status : BOOLEAN, delete : BOOLEAN]
  BY DEF Released, SetFlag, MembersFit
<1>5. CASE f.then = "page"
  <2>1. busy' = busy
    BY <1>5 DEF Released
  <2> QED BY <1>2, <1>3, <1>4, <1>5, <2>1 DEF OneRuns, RunsOne
<1>6. CASE f.then = "delete"
  <2>1. busy'.delete = FALSE /\ busy'.status = busy.status
    BY <1>6 DEF Released, SetFlag, MembersFit
  <2>2. f.then \in Deletions /\ f.then \notin Switches
    BY <1>6 DEF Deletions, Switches
  <2>3. ActionsOf(Deletions) = {} /\ ListingsOf(Deletions) = {f}
    BY <1>2, <1>3, <2>2 DEF OneRuns, RunsOne
  <2> QED BY <1>2, <1>3, <1>4, <2>1, <2>2, <2>3 DEF OneRuns, RunsOne
<1>7. CASE f.then \in {"suspend", "reinstate"}
  <2>1. busy'.status = FALSE /\ busy'.delete = busy.delete
    BY <1>7 DEF Released, SetFlag, MembersFit
  <2>2. f.then \in Switches /\ f.then \notin Deletions
    BY <1>7 DEF Deletions, Switches
  <2>3. ActionsOf(Switches) = {} /\ ListingsOf(Switches) = {f}
    BY <1>2, <1>3, <2>2 DEF OneRuns, RunsOne
  <2> QED BY <1>2, <1>3, <1>4, <2>1, <2>2, <2>3 DEF OneRuns, RunsOne
<1> QED BY <1>1, <1>5, <1>6, <1>7

\* A page arrives, or fails to.
LEMMA PagesArrive ==
  ASSUME MembersIInv, \E f \in listings : ListingDone(f) \/ ListingFails(f)
  PROVE  MembersIInv'
<1> USE DEF MembersIInv
<1> PICK f \in listings : ListingDone(f) \/ ListingFails(f)
  OBVIOUS
<1>1. /\ UNCHANGED <<actions, dialog, failed>> /\ Released(f)
  BY DEF ListingDone, ListingFails
<1>2. ListingFits(f) /\ f.offset \in Nat /\ APage(f.rows)
  BY DEF MembersFit, ListingFits
<1>3. DialogHeld' /\ DialogErrorIsItsOwn'
  BY <1>1 DEF DialogHeld, DialogErrorIsItsOwn
<1>4. (\A a \in actions : ActionFits(a))'
  BY <1>1 DEF MembersFit, ActionFits
<1>5. PICK k \in Nat : offset = PageSize * k
  BY DEF MembersFit
<1>6. ASSUME listings \ {f} \subseteq listings',
             \A g \in listings' : g \in listings \ {f} \/ (g.then = "page" /\ ListingFits(g)),
             \E j \in Nat : offset' = PageSize * j, APage(members'), viewed' \in MemberRows
      PROVE  MembersFit' /\ OneRuns'
  <2>1. OneRuns' /\ busy' \in [status : BOOLEAN, delete : BOOLEAN]
    BY <1>1, <1>6, ReloadFrees
  <2>2. (\A g \in listings : ListingFits(g))'
    <3>1. \A g \in listings' : ListingFits(g)
      BY <1>6 DEF MembersFit
    <3> QED BY <3>1 DEF ListingFits, APage
  <2>3. APage(members)'
    BY <1>6 DEF APage, MemberRows, Lifecycle
  <2>4. (viewed \in MemberRows)'
    BY <1>6 DEF MemberRows, Lifecycle
  <2> QED BY <1>1, <1>4, <1>6, <2>1, <2>2, <2>3, <2>4 DEF MembersFit
<1>7. CASE ListingFails(f)
  <2>1. /\ listings' = listings \ {f} /\ listError'
        /\ UNCHANGED <<offset, members, viewed>>
    BY <1>7 DEF ListingFails, tableVars
  <2>2. MembersFit' /\ OneRuns'
    <3>1. (\E j \in Nat : offset' = PageSize * j) /\ APage(members') /\ viewed' \in MemberRows
      BY <1>5, <2>1 DEF MembersFit
    <3> QED BY <1>6, <2>1, <3>1
  <2>3. DetailIsRow' /\ NotStranded'
    BY <2>1 DEF DetailIsRow, NotStranded
  <2> QED BY <1>3, <2>2, <2>3
<1>8. CASE ListingDone(f) /\ Emptied(f)
  <2> DEFINE back == Previous(offset)
             next == PageRequest(back, "page", listings \ {f})
  <2>1. /\ offset' = back /\ UNCHANGED <<members, viewed>>
        /\ IF back = offset THEN listings' = listings \ {f}
                            ELSE listings' = (listings \ {f}) \union {next}
    BY <1>8 DEF ListingDone, StepBack
  <2>2. PICK i \in Nat : back = PageSize * i
    BY <1>5, PreviousPage
  <2>3. back \in Nat /\ (back = offset => offset = 0)
    BY <1>5, <2>2, PreviousPage
  <2>4. next.then = "page" /\ ListingFits(next)
    BY <2>3, NewListing
  <2> HIDE DEF back, next
  <2>5. viewed' \in MemberRows /\ APage(members')
    BY <2>1 DEF MembersFit
  <2>6. MembersFit' /\ OneRuns'
    <3>1. \E j \in Nat : offset' = PageSize * j
      BY <2>1, <2>2
    <3>2. /\ listings \ {f} \subseteq listings'
          /\ \A g \in listings' : g \in listings \ {f} \/ (g.then = "page" /\ ListingFits(g))
      BY <2>1, <2>4
    <3> QED BY <1>6, <2>5, <3>1, <3>2
  <2>7. DetailIsRow' /\ NotStranded'
    <3>1. DetailIsRow'
      BY <2>1 DEF DetailIsRow
    <3>2. listings' = {} => offset' = 0
      BY <2>1, <2>3
    <3> QED BY <3>1, <3>2 DEF NotStranded
  <2> QED BY <1>3, <2>6, <2>7
<1>9. CASE ListingDone(f) /\ ~Emptied(f)
  <2>1. /\ members' = f.rows /\ viewed' = Synced(f.rows) /\ strayed' = (f.offset # offset)
        /\ offset' = offset /\ listings' = listings \ {f}
    BY <1>9 DEF ListingDone
  <2>2. Synced(f.rows) \in f.rows \/ Synced(f.rows) = NoRow
    BY DEF Synced
  <2>3. viewed' \in MemberRows /\ DetailIsRow'
    BY <1>2, <2>1, <2>2, NoRowIsRow DEF DetailIsRow, APage
  <2>4. MembersFit' /\ OneRuns'
    <3>1. (\E j \in Nat : offset' = PageSize * j) /\ APage(members')
      BY <1>2, <1>5, <2>1
    <3> QED BY <1>6, <2>1, <2>3, <3>1
  <2>5. NotStranded'
    <3> SUFFICES ASSUME members' = {}
                 PROVE  offset' = 0 \/ strayed'
      BY DEF NotStranded
    <3>1. f.offset = 0
      BY <1>2, <1>9, <2>1 DEF Emptied
    <3>2. CASE f.offset = offset
      BY <2>1, <3>1, <3>2
    <3>3. CASE f.offset # offset
      BY <2>1, <3>3
    <3> QED BY <3>2, <3>3
  <2> QED BY <1>3, <2>3, <2>4, <2>5
<1> QED BY <1>7, <1>8, <1>9

\* Every step preserves the invariant.
LEMMA MembersSteps ==
  ASSUME MembersIInv, [MembersNext]_membersVars
  PROVE  MembersIInv'
<1>1. CASE MembersNext
  <2>1. \/ \E o \in {offset + PageSize, Previous(offset)} : TurnPage(o)
        \/ (\E row \in members \union {viewed} :
              View(row) \/ \E kind \in {"suspend", "delete"} : OpenDialog(kind, row))
           \/ CloseDetail \/ CloseDialog
        \/ Confirm \/ \E row \in members \union {viewed} : Reinstate(row)
        \/ (\E a \in actions : ServeAction(a)) \/ (\E f \in listings : ServeListing(f))
           \/ \E m \in Ids, status \in Lifecycle \union {"none"} : ChangesElsewhere(m, status)
        \/ \E a \in actions : ActionDone(a) \/ ActionFails(a)
        \/ \E f \in listings : ListingDone(f) \/ ListingFails(f)
    BY <1>1, Zenon DEF MembersNext
  <2> QED BY <2>1, AdminTurnsPage, AdminLooks, AdminConfirms, ServerActs, ActionsAnswer, PagesArrive
<1>2. CASE UNCHANGED membersVars
  <2> USE <1>2 DEF membersVars, MembersIInv
  <2>1. MembersFit'
    BY DEF MembersFit, APage, ActionFits, ListingFits
  <2>2. OneRuns'
    BY RunsAsBefore
  <2>3. DialogHeld' /\ DetailIsRow' /\ DialogErrorIsItsOwn' /\ NotStranded'
    BY DEF DialogHeld, DetailIsRow, DialogErrorIsItsOwn, NotStranded
  <2> QED BY <2>1, <2>2, <2>3
<1> QED BY <1>1, <1>2

\* The inductive invariant implies what the page promises.
LEMMA MembersInvFollows ==
  ASSUME MembersIInv
  PROVE  MembersInv
<1> USE DEF MembersIInv
<1>1. offset % PageSize = 0
  <2>1. PICK k \in Nat : offset = PageSize * k
    BY DEF MembersFit
  <2>2. (PageSize * k) % PageSize = 0
    BY MembersPageAssumption
  <2> QED BY <2>1, <2>2
<1>2. Cardinality(members) <= PageSize
  BY DEF MembersFit, APage
<1>3. ASSUME NEW group, NEW flag \in BOOLEAN, RunsOne(group, flag)
      PROVE  /\ Cardinality(ActionsOf(group) \union ListingsOf(group)) <= 1
             /\ flag <=> ActionsOf(group) \union ListingsOf(group) # {}
  <2>1. CASE flag
    <3>1. PICK x : ActionsOf(group) \union ListingsOf(group) = {x}
      BY <1>3, <2>1 DEF RunsOne
    <3>2. Cardinality({x}) = 1
      BY FS_Singleton
    <3> QED BY <2>1, <3>1, <3>2
  <2>2. CASE ~flag
    <3>1. ActionsOf(group) \union ListingsOf(group) = {}
      BY <1>3, <2>2 DEF RunsOne
    <3>2. Cardinality({}) = 0
      BY FS_EmptySet
    <3> QED BY <2>2, <3>1, <3>2
  <2> QED BY <2>1, <2>2
<1>4. OneSwitchAtATime
  <2>1. /\ Cardinality(ActionsOf(Switches) \union ListingsOf(Switches)) <= 1
        /\ busy.status <=> ActionsOf(Switches) \union ListingsOf(Switches) # {}
        /\ Cardinality(ActionsOf(Deletions) \union ListingsOf(Deletions)) <= 1
        /\ busy.delete <=> ActionsOf(Deletions) \union ListingsOf(Deletions) # {}
    BY <1>3 DEF OneRuns, MembersFit
  <2>2. \A kind \in Switches : Flag(kind) = busy.status
    BY DEF Flag, Switches
  <2>3. \A kind \in Deletions : Flag(kind) = busy.delete
    BY DEF Flag, Deletions
  <2>4. \A group \in {Switches, Deletions} :
          LET running == ActionsOf(group) \union ListingsOf(group)
          IN /\ Cardinality(running) <= 1
             /\ \A kind \in group : Flag(kind) <=> running # {}
    BY <2>1, <2>2, <2>3
  <2> QED BY <2>4, Zenon DEF OneSwitchAtATime, ActionsOf, ListingsOf, Switches, Deletions
<1> QED BY <1>1, <1>2, <1>4 DEF MembersInv

\* The Members section keeps its detail, dialogs, flags and pages in step with the
\* answers, for any number of Members, page size and requests in flight.
THEOREM MembersKept == MembersSpec => [](MembersInv /\ NotStranded)
<1>1. MembersInit => MembersIInv
  BY MembersStarts
<1>2. MembersIInv /\ [MembersNext]_membersVars => MembersIInv'
  BY MembersSteps
<1>3. MembersIInv => MembersInv /\ NotStranded
  BY MembersInvFollows DEF MembersIInv
<1> QED BY <1>1, <1>2, <1>3, PTL DEF MembersSpec

-----------------------------------------------------------------------------
(* The web client together: one component moves at a time, and every       *)
(* behaviour of the whole is a behaviour of each component.                *)

\* A step of the whole is a step of a component or leaves it alone.
LEMMA OnePageMoves ==
  ASSUME [Next]_vars
  PROVE  /\ [BrowserNext]_browserVars /\ [CacheNext]_cacheVars /\ [FormsNext]_formVars
         /\ [CronNext]_cronVars /\ [HomeNext]_homeVars /\ [SearchNext]_searchVars
         /\ [AccountNext]_accountVars /\ [MembersNext]_membersVars
<1>1. ASSUME Rest
      PROVE  /\ part # "browser" => UNCHANGED browserVars
             /\ part # "cache" => UNCHANGED cacheVars
             /\ part # "forms" => UNCHANGED formVars
             /\ part # "cron" => UNCHANGED cronVars
             /\ part # "home" => UNCHANGED homeVars
             /\ part # "search" => UNCHANGED searchVars
             /\ part # "account" => UNCHANGED accountVars
             /\ part # "members" => UNCHANGED membersVars
  BY <1>1 DEF Rest
<1>2. CASE Next
  <2>1. Rest
    BY <1>2 DEF Next
  <2>2. /\ part = "browser" => BrowserNext
        /\ part = "cache" => CacheNext
        /\ part = "forms" => FormsNext
        /\ part = "cron" => CronNext
        /\ part = "home" => HomeNext
        /\ part = "search" => SearchNext
        /\ part = "account" => AccountNext
        /\ part = "members" => MembersNext
    BY <1>2 DEF Next
  <2> QED BY <1>1, <2>1, <2>2
<1>3. CASE UNCHANGED vars
  BY <1>3 DEF vars
<1> QED BY <1>2, <1>3

\* The whole behaves as each of its components.
LEMMA PagesBehave ==
  Spec => /\ BrowserSpec /\ CacheSpec /\ FormsSpec /\ CronSpec /\ HomeSpec /\ SearchSpec
          /\ AccountSpec /\ MembersSpec
<1>1. Init => /\ BrowserInit /\ CacheInit /\ FormsInit /\ CronInit /\ HomeInit /\ SearchInit
              /\ AccountInit /\ MembersInit
  BY DEF Init
<1>2. [Next]_vars => /\ [BrowserNext]_browserVars /\ [CacheNext]_cacheVars /\ [FormsNext]_formVars
                     /\ [CronNext]_cronVars /\ [HomeNext]_homeVars /\ [SearchNext]_searchVars
                     /\ [AccountNext]_accountVars /\ [MembersNext]_membersVars
  BY OnePageMoves
<1> QED
  BY <1>1, <1>2, PTL DEF Spec, BrowserSpec, CacheSpec, FormsSpec, CronSpec, HomeSpec, SearchSpec,
                         AccountSpec, MembersSpec

\* Whatever component runs, what its steps preserve holds between any two of its
\* actions: the tabs and their session, the kept queries, the forms and the
\* schedule's expression, the Homepage, the search box, the account pages and the
\* Members section.
THEOREM PagesKeepInv == Spec => []PagesInv
<1>1. BrowserSpec => []BrowserInv
  BY BrowserStarts, BrowserSteps, PTL DEF BrowserSpec
<1>2. CronSpec => []CronInv
  BY CronStarts, CronSteps, FitsShow, PTL DEF CronSpec
<1>3. BrowserInv /\ CacheInv /\ FormsInv /\ CronInv /\ HomeInv /\ SearchInv /\ AccountInv /\ MembersInv
        => PagesInv
  BY DEF PagesInv
<1>4. (CacheInv /\ ScreenIsCurrent => CacheInv) /\ (HomeInv /\ CardsHaveShowtimes => HomeInv)
      /\ (AccountInv /\ LiveLinkConfirms => AccountInv) /\ (MembersInv /\ NotStranded => MembersInv)
  OBVIOUS
<1> QED
  BY <1>1, <1>2, <1>3, <1>4, PagesBehave, ScreenKept, Forms, CardsShown, SearchKept, AccountKept,
     MembersKept, PTL
=============================================================================
