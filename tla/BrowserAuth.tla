---------------------------- MODULE BrowserAuth ----------------------------
(***************************************************************************)
(* The Session of one browser: several tabs of the web client share one    *)
(* cookie jar, and each has its own memory.  A call answered 401 waits for *)
(* the tab's one refresh in flight; the refresh travels to the server with *)
(* the cookie of its moment, and its answer changes the jar when it        *)
(* arrives.  A call that is answered otherwise changes nothing and is not  *)
(* a step.  The password and the reasons why the server ends a Session are *)
(* left to Sessions.                                                       *)
(***************************************************************************)
EXTENDS Naturals, FiniteSets

CONSTANTS
  Tabs,          \* the tabs of the browser
  Calls,         \* slots for the calls in flight
  MaxLogins      \* bound on the refresh tokens ever issued

ASSUME BrowserAssumption ==
  /\ MaxLogins \in Nat
  /\ "none" \notin Tabs

VARIABLES
  jar,       \* the cookies: a valid access token or not, the refresh token, 0 for none
  live,      \* the refresh tokens the server would accept
  given,     \* how many refresh tokens it issued
  user,      \* AuthProvider's user, tab by tab
  stored,    \* localStorage's user
  told,      \* unauthorizedDispatched, tab by tab
  call,      \* the calls in flight
  excuse     \* whether the Session may be lost (history, no part of the code)

browserVars == <<jar, live, given, user, stored, told, call, excuse>>

Key == 1 .. MaxLogins
NoCall == [tab |-> "none", pc |-> "idle", sent |-> 0, got |-> 0]
NoCookies == [access |-> FALSE, refresh |-> 0]

\* A refresh on its way to the server, or on its way back.
Refreshing == {"leading", "checked", "rotated", "rejected", "failed"}
Leads(c, t) == call[c].tab = t /\ call[c].pc \in Refreshing

BrowserTypeOK ==
  /\ jar \in [access : BOOLEAN, refresh : 0 .. MaxLogins]
  /\ live \subseteq Key
  /\ given \in 0 .. MaxLogins
  /\ user \in [Tabs -> BOOLEAN]
  /\ stored \in BOOLEAN
  /\ told \in [Tabs -> BOOLEAN]
  /\ call \in [Calls -> [tab : Tabs \cup {"none"},
                         pc : {"idle", "refused", "joined", "leaving"} \cup Refreshing,
                         sent : 0 .. MaxLogins, got : 0 .. MaxLogins]]
  /\ excuse \in BOOLEAN

BrowserInit ==
  /\ jar = NoCookies
  /\ live = {}
  /\ given = 0
  /\ user = [t \in Tabs |-> FALSE]
  /\ stored = FALSE
  /\ told = [t \in Tabs |-> FALSE]
  /\ call = [c \in Calls |-> NoCall]
  /\ excuse = FALSE

-----------------------------------------------------------------------------
(* The user.                                                               *)

Quiet == \A c \in Calls : call[c].pc = "idle"

\* The login page: new cookies; the flag of the tab keeps its value.
LogIn(t) ==
  /\ ~user[t]
  /\ given < MaxLogins
  /\ given' = given + 1
  /\ live' = live \cup {given + 1}
  /\ jar' = [access |-> TRUE, refresh |-> given + 1]
  /\ user' = [user EXCEPT ![t] = TRUE]
  /\ stored' = TRUE
  /\ excuse' = IF Quiet /\ \A s \in Tabs : ~user[s] THEN FALSE ELSE excuse \/ ~Quiet
  /\ UNCHANGED <<told, call>>

\* AuthProvider mounts with the stored user and drops it unless /auth/me accepts
\* the access token; the calls of the page before are gone.
LoadPage(t) ==
  /\ user' = [user EXCEPT ![t] = stored /\ jar.access]
  /\ stored' = (stored /\ jar.access)
  /\ told' = [told EXCEPT ![t] = FALSE]
  /\ call' = [c \in Calls |-> IF call[c].tab = t THEN NoCall ELSE call[c]]
  /\ excuse' = (excuse \/ ~jar.access \/ \E c \in Calls : call[c].tab = t)
  /\ UNCHANGED <<jar, live, given>>

\* Logging out sends the refresh token of the jar to be revoked.
LogOut(c, t) ==
  /\ user[t]
  /\ call[c].pc = "idle"
  /\ call' = [call EXCEPT ![c] = [NoCall EXCEPT !.tab = t, !.pc = "leaving"]]
  /\ live' = live \ {jar.refresh}
  /\ excuse' = TRUE
  /\ UNCHANGED <<jar, given, user, stored, told>>

\* The answer clears the cookies that are there by then, and the tab its user;
\* an answer that never comes leaves the cookies.
LoggedOut(c) ==
  /\ call[c].pc = "leaving"
  /\ jar' \in {jar, NoCookies}
  /\ user' = [user EXCEPT ![call[c].tab] = FALSE]
  /\ stored' = FALSE
  /\ call' = [call EXCEPT ![c] = NoCall]
  /\ UNCHANGED <<live, given, told, excuse>>

-----------------------------------------------------------------------------
(* Calls and the refresh they share.                                       *)

\* A call whose access token is missing or expired is answered 401.
Refused(c, t) ==
  /\ user[t]
  /\ ~jar.access
  /\ call[c].pc = "idle"
  /\ call' = [call EXCEPT ![c] = [NoCall EXCEPT !.tab = t, !.pc = "refused"]]
  /\ UNCHANGED <<jar, live, given, user, stored, told, excuse>>

\* Every refused call starts a refresh of its own.
InFlight_Ignored(t) == FALSE

\* refreshPromise of the tab.
InFlight(t) == \E d \in Calls : Leads(d, t)

LeadRefresh(c) ==
  LET t == call[c].tab IN
  /\ call[c].pc = "refused"
  /\ ~InFlight(t)
  /\ call' = [call EXCEPT ![c].pc = "leading", ![c].sent = jar.refresh]
  /\ excuse' = (excuse \/ \E s \in Tabs \ {t} : \E d \in Calls : Leads(d, s))
  /\ UNCHANGED <<jar, live, given, user, stored, told>>

JoinRefresh(c) ==
  /\ call[c].pc = "refused"
  /\ InFlight(call[c].tab)
  /\ call' = [call EXCEPT ![c].pc = "joined"]
  /\ UNCHANGED <<jar, live, given, user, stored, told, excuse>>

\* validateRefreshToken on the server: no token or a dead one is answered 401.
ServerValidates(c) ==
  /\ call[c].pc = "leading"
  /\ call' = [call EXCEPT ![c].pc = IF call[c].sent \in live THEN "checked" ELSE "rejected"]
  /\ UNCHANGED <<jar, live, given, user, stored, told, excuse>>

\* The rotation; a token consumed since is answered 500, and the cookies stay.
ServerRotates(c) ==
  /\ call[c].pc = "checked"
  /\ IF call[c].sent \in live
       THEN /\ given < MaxLogins
            /\ given' = given + 1
            /\ live' = (live \ {call[c].sent}) \cup {given + 1}
            /\ call' = [call EXCEPT ![c].pc = "rotated", ![c].got = given + 1]
       ELSE /\ call' = [call EXCEPT ![c].pc = "failed"]
            /\ UNCHANGED <<given, live>>
  /\ UNCHANGED <<jar, user, stored, told, excuse>>

\* The calls of a tab that wait for its refresh, all answered by it.
Settled(c) == [d \in Calls |->
  IF d = c \/ (call[d].tab = call[c].tab /\ call[d].pc = "joined") THEN NoCall ELSE call[d]]

\* New cookies; the waiting calls are sent again, and whatever is answered then is final.
Refreshed(c) ==
  /\ call[c].pc = "rotated"
  /\ jar' = [access |-> TRUE, refresh |-> call[c].got]
  /\ told' = [told EXCEPT ![call[c].tab] = FALSE]
  /\ stored' = TRUE
  /\ call' = Settled(c)
  /\ UNCHANGED <<live, given, user, excuse>>

\* A 401 clears the cookies, whoever set them meanwhile.  The first failure of the
\* tab raises auth:unauthorized, whose handler logs out with the cookies there are;
\* the flag keeps the later ones silent.
RefreshFailed(c, cookies) ==
  LET t == call[c].tab IN
  /\ jar' = cookies
  /\ told' = [told EXCEPT ![t] = TRUE]
  /\ IF told[t]
       THEN call' = Settled(c) /\ UNCHANGED live
       ELSE /\ call' = [Settled(c) EXCEPT ![c] = [NoCall EXCEPT !.tab = t, !.pc = "leaving"]]
            /\ live' = live \ {cookies.refresh}
  /\ UNCHANGED <<given, user, stored>>

AnsweredFailure(c) ==
  /\ call[c].pc \in {"rejected", "failed"}
  /\ RefreshFailed(c, IF call[c].pc = "rejected" THEN NoCookies ELSE jar)
  /\ UNCHANGED excuse

\* Ten seconds without an answer, or a network error: the client gives up, and
\* never sees the token that the server may have issued.
RefreshAborts(c) ==
  /\ call[c].pc \in {"leading", "checked", "rotated"}
  /\ RefreshFailed(c, jar)
  /\ excuse' = TRUE

-----------------------------------------------------------------------------
(* Time and the server.                                                    *)

AccessExpires ==
  /\ jar.access
  /\ jar' = [jar EXCEPT !.access = FALSE]
  /\ UNCHANGED <<live, given, user, stored, told, call, excuse>>

\* Suspension, erasure, a new password or the expiry of the token.
SessionEnds ==
  /\ live # {}
  /\ live' = {}
  /\ excuse' = TRUE
  /\ UNCHANGED <<jar, given, user, stored, told, call>>

BrowserNext ==
  \/ \E t \in Tabs : LogIn(t) \/ LoadPage(t)
  \/ \E c \in Calls, t \in Tabs : LogOut(c, t) \/ Refused(c, t)
  \/ \E c \in Calls :
       \/ LoggedOut(c)
       \/ LeadRefresh(c)
       \/ JoinRefresh(c)
       \/ ServerValidates(c)
       \/ ServerRotates(c)
       \/ Refreshed(c)
       \/ AnsweredFailure(c)
       \/ RefreshAborts(c)
  \/ AccessExpires
  \/ SessionEnds

BrowserSpec == BrowserInit /\ [][BrowserNext]_browserVars

-----------------------------------------------------------------------------
(* Properties.                                                             *)

\* The calls of one tab never end the Session by themselves: however many are
\* refused together, and however late their answers come, a tab is signed out only
\* after the Session ended elsewhere, a logout, a refresh of two tabs at once, an
\* answer that never came, or a page loaded with an expired access token.
TabKeepsSession ==
  [][\A t \in Tabs : user[t] /\ ~user'[t] => excuse']_browserVars

\* Somebody is signed in, or was when a call was sent that is not answered yet.
Attended == stored \/ ~Quiet \/ \E t \in Tabs : user[t]

CallsKnown ==
  /\ \A c \in Calls : call[c].pc = "idle" <=> call[c] = NoCall
  /\ \A c \in Calls : call[c].pc # "idle" => call[c].tab \in Tabs
  /\ \A k \in Key : k > given => k \notin live

\* Without an excuse the jar holds a live token, or the answer that brings it is on
\* its way: a tab has one refresh at most, and it carries the token of the jar.
SessionKept ==
  ~excuse /\ Attended =>
    /\ stored
    /\ \A c \in Calls :
         /\ call[c].pc \notin {"rejected", "failed", "leaving"}
         /\ call[c].pc \in {"leading", "checked"} =>
              call[c].sent = jar.refresh /\ jar.refresh \in live
         /\ call[c].pc = "rotated" => call[c].got \in live
    /\ \A c, d \in Calls : call[c].pc \in Refreshing /\ call[d].pc \in Refreshing => c = d
    /\ jar.refresh \in live \/ \E c \in Calls : call[c].pc = "rotated"

BrowserInv == BrowserTypeOK /\ CallsKnown /\ SessionKept
=============================================================================
