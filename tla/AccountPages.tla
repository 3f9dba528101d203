---------------------------- MODULE AccountPages ----------------------------
(***************************************************************************)
(* The pages on which one person signs up, confirms the address, recovers  *)
(* or changes the password and erases the account, in one tab, with the    *)
(* links that reach the inbox.  A request is served in one step (Sessions  *)
(* has its statements); it or its answer may be lost, and its answer may   *)
(* come after the page was left.                                           *)
(***************************************************************************)
EXTENDS Naturals, FiniteSets

CONSTANTS MaxMails,      \* bound on the links ever issued
          MaxPosts,      \* bound on the requests of pages at one time
          MaxSecrets,    \* bound on the passwords ever typed
          MaxGestures    \* bound on what the user does

ASSUME AccountPagesAssumption ==
    MaxMails \in Nat /\ MaxPosts \in Nat /\ MaxSecrets \in Nat \ {0} /\ MaxGestures \in Nat

VARIABLES
  account,     \* users: [status, secret], "none" without a row
  liveLink,    \* auth_email_tokens: purpose -> the live link, 0 if none
  issuedLinks, \* links issued so far
  inbox,       \* links that reached the inbox
  toMail,      \* purposes whose e-mail is dispatched and not yet issued
  signedIn,    \* the tab shows a user
  backed,      \* the browser's refresh token is live
  sheet,       \* the page shown
  posts,       \* the requests of pages, answered or not
  leaving,     \* the timer of a changed password: to the Homepage in 2 s
  untold,      \* history: no answer told the tab that its session has ended
  gestures     \* of the user so far

accountVars == <<account, liveLink, issuedLinks, inbox, toMail, signedIn, backed, sheet, posts, leaving, untold, gestures>>
mailVars == <<liveLink, issuedLinks, inbox, toMail>>

NoAccount == [status |-> "none", secret |-> 0]
Secrets == 1 .. MaxSecrets
Wrong == 0      \* a password that never was the account's
MailPurposes == {"verify", "reset"}
PublicSheets == {"home", "login", "signup", "forgot"}
ProtectedSheets == {"change", "account"}

\* link: of the sheet's address, 0 if it has none.  reran: its effect has run
\* twice.  doubt: the link was not live
\* when the sheet was opened, was spent or superseded elsewhere since, or a
\* request of the sheet was lost (history).
Sheet(name, link, phase) == [name |-> name, link |-> link, phase |-> phase, reran |-> FALSE, doubt |-> FALSE]

\* An account may exist, and the tab be signed in to it.
AccountInit ==
    /\ account \in {NoAccount, [status |-> "unverified", secret |-> 1], [status |-> "active", secret |-> 1]}
    /\ liveLink = [p \in MailPurposes |-> 0]
    /\ issuedLinks = 0
    /\ inbox = {} /\ toMail = {}
    /\ signedIn \in {FALSE, account # NoAccount}
    /\ backed = signedIn
    /\ sheet = Sheet("home", 0, "form")
    /\ posts = {}
    /\ leaving = FALSE
    /\ untold = FALSE
    /\ gestures = 0

------------------------------------------------------------------------------
(* Pages.                                                                   *)

FreePost == (1 .. MaxPosts) \ {c.id : c \in posts}

\* shown: the sheet that sent it is still shown, and hears of the answer.
Post(kind, link, secret, guess) ==
    [id |-> CHOOSE i \in FreePost : TRUE, kind |-> kind, shown |-> TRUE,
     link |-> link, secret |-> secret, guess |-> guess, at |-> "sent"]

Left(set) == {[c EXCEPT !.shown = FALSE] : c \in set}

Gesture == gestures < MaxGestures /\ gestures' = gestures + 1

\* The user may leave any page at any time.
OpenSheet(name) ==
    /\ Gesture
    /\ name \in PublicSheets \/ (name \in ProtectedSheets /\ signedIn)
    /\ sheet' = Sheet(name, 0, "form")
    /\ posts' = Left(posts)
    /\ UNCHANGED <<account, mailVars, signedIn, backed, leaving, untold>>

\* The reset page waits for a password; the verification page sends the link at once.
FollowLink(purpose, link) ==
    /\ Gesture
    /\ <<purpose, link>> \in inbox
    /\ FreePost # {}
    /\ sheet' = [Sheet(purpose, link, IF purpose = "verify" THEN "waiting" ELSE "form")
                   EXCEPT !.doubt = liveLink[purpose] # link]
    /\ posts' = Left(posts) \union (IF purpose = "verify" THEN {Post("verify", link, 0, 0)} ELSE {})
    /\ UNCHANGED <<account, mailVars, signedIn, backed, leaving, untold>>

\* consumed.current: set before the first request, it keeps later ones back.
Consumes(send) == {}

\* StrictMode, or new search parameters, run the effect again.
EffectAgain ==
    /\ sheet.name = "verify" /\ ~sheet.reran
    /\ FreePost # {}
    /\ sheet' = [sheet EXCEPT !.reran = TRUE]
    /\ posts' = posts \union Consumes({Post("verify", sheet.link, 0, 0)})
    /\ UNCHANGED <<account, mailVars, signedIn, backed, leaving, untold, gestures>>

\* What a form sends: `guess' is the current password as it was typed.
FormPosts ==
    CASE sheet.name = "signup" -> {<<"signup", s, 0>> : s \in Secrets}
      [] sheet.name = "forgot" -> {<<"forgot", 0, 0>>}
      [] sheet.name = "verify" -> {<<"resend", 0, 0>>}
      [] sheet.name = "reset" -> {<<"reset", s, 0>> : s \in Secrets}
      [] sheet.name = "change" -> {<<"change", s, g>> : s \in Secrets, g \in Secrets \union {Wrong}}
      [] sheet.name = "account" -> {<<"erase", 0, g>> : g \in Secrets \union {Wrong}}
      [] OTHER -> {}

\* The fields and the button are disabled while the request is in flight.
SubmitSheet(kind, secret, guess) ==
    /\ Gesture
    /\ <<kind, secret, guess>> \in FormPosts
    /\ sheet.phase \in IF sheet.name = "verify" THEN {"failed"} ELSE {"form", "failed"}
    /\ FreePost # {}
    /\ sheet' = [sheet EXCEPT !.phase = "waiting"]
    /\ posts' = posts \union {Post(kind, sheet.link, secret, guess)}
    /\ UNCHANGED <<account, mailVars, signedIn, backed, leaving, untold>>

\* The login page, with the right password; BrowserAuth has its steps.
SignIn == /\ Gesture
          /\ sheet.name = "login"
          /\ account.status # "none"
          /\ signedIn' = TRUE /\ backed' = TRUE /\ untold' = FALSE
          /\ sheet' = Sheet("home", 0, "form")
          /\ posts' = Left(posts)
          /\ UNCHANGED <<account, mailVars, leaving>>

\* A protected request without a live session: the refresh fails, the user is
\* dropped and sent to the login page.
SessionLost(left) == /\ signedIn' = FALSE
                     /\ untold' = FALSE
                     /\ sheet' = Sheet("login", 0, "form")
                     /\ posts' = Left(left)

\* The Homepage asks for the profile of the user it shows.
HomeRefused == /\ sheet.name = "home" /\ signedIn /\ ~backed
               /\ SessionLost(posts)
               /\ UNCHANGED <<account, mailVars, backed, leaving, gestures>>

------------------------------------------------------------------------------
(* The server.                                                              *)

Answers(c, at) == posts' = (posts \ {c}) \union {[c EXCEPT !.at = at]}

\* A link spent on behalf of another sheet leaves the one shown in doubt.
Doubted(c) == sheet' = [sheet EXCEPT !.doubt = @ \/ (~c.shown /\ c.link = sheet.link /\ c.kind = sheet.name)]

ServeSignup(c) ==
    /\ IF account.status = "none"
       THEN /\ account' = [status |-> "unverified", secret |-> c.secret]
            /\ toMail' = toMail \union {"verify"}
            /\ Answers(c, "ok")
       ELSE Answers(c, "refused") /\ UNCHANGED <<account, toMail>>
    /\ UNCHANGED <<liveLink, backed, sheet>>

ServeVerify(c) ==
    /\ IF c.link = liveLink["verify"]
       THEN /\ liveLink' = [liveLink EXCEPT !["verify"] = 0]
            /\ account' = [account EXCEPT !.status = IF @ = "unverified" THEN "active" ELSE @]
            /\ Answers(c, "ok")
       ELSE Answers(c, "refused") /\ UNCHANGED <<liveLink, account>>
    /\ Doubted(c)
    /\ UNCHANGED <<toMail, backed>>

\* Both answer the same whatever the address is.
ServeMail(c, purpose) ==
    /\ toMail' = toMail \union {purpose}
    /\ Answers(c, "ok")
    /\ UNCHANGED <<account, liveLink, backed, sheet>>

\* Ends the session of every browser, this one included.
ServeNewPassword(c) ==
    /\ IF c.link = liveLink["reset"]
       THEN /\ liveLink' = [liveLink EXCEPT !["reset"] = 0]
            /\ account' = [account EXCEPT !.secret = c.secret]
            /\ backed' = FALSE
            /\ Answers(c, "ok")
       ELSE Answers(c, "refused") /\ UNCHANGED <<liveLink, account, backed>>
    /\ Doubted(c)
    /\ UNCHANGED toMail

\* A refused password is answered 401, which costs a refresh and a replay.
ServeChange(c) ==
    /\ IF ~backed THEN Answers(c, "expired") /\ UNCHANGED <<account, backed>>
       ELSE IF c.guess # account.secret THEN Answers(c, "refused") /\ UNCHANGED <<account, backed>>
       ELSE /\ account' = [account EXCEPT !.secret = c.secret]
            /\ backed' = FALSE
            /\ Answers(c, "ok")
    /\ UNCHANGED <<liveLink, toMail, sheet>>

ServeErasure(c) ==
    /\ IF ~backed THEN Answers(c, "expired") /\ UNCHANGED <<account, liveLink, backed>>
       ELSE IF c.guess # account.secret THEN Answers(c, "refused") /\ UNCHANGED <<account, liveLink, backed>>
       ELSE /\ account' = NoAccount
            /\ liveLink' = [p \in MailPurposes |-> 0]
            /\ backed' = FALSE
            /\ Answers(c, "ok")
    /\ sheet' = [sheet EXCEPT !.doubt = @ \/ liveLink' # liveLink]
    /\ UNCHANGED toMail

ServePost(c) ==
    /\ c.at = "sent"
    /\ CASE c.kind = "signup" -> ServeSignup(c)
         [] c.kind = "verify" -> ServeVerify(c)
         [] c.kind = "resend" -> ServeMail(c, "verify")
         [] c.kind = "forgot" -> ServeMail(c, "reset")
         [] c.kind = "reset" -> ServeNewPassword(c)
         [] c.kind = "change" -> ServeChange(c)
         [] c.kind = "erase" -> ServeErasure(c)
    /\ UNCHANGED <<issuedLinks, inbox, signedIn, leaving, untold, gestures>>

\* The request or its answer does not arrive: the page sees a failure.
PostLost(c) == /\ c.at \in {"sent", "ok", "refused"}
               /\ Answers(c, "lost")
               /\ sheet' = [sheet EXCEPT !.doubt = @ \/ c.shown]
               /\ UNCHANGED <<account, mailVars, signedIn, backed, leaving, untold, gestures>>

\* sendAuthLinkEmail, after the answer: a new link supersedes the live one,
\* before the mailer is tried; its failure is swallowed.
MailOut(purpose, sent) ==
    /\ purpose \in toMail
    /\ toMail' = toMail \ {purpose}
    /\ IF account.status = "none" \/ (purpose = "verify" /\ account.status # "unverified")
       THEN UNCHANGED <<liveLink, issuedLinks, inbox, sheet>>
       ELSE /\ issuedLinks < MaxMails
            /\ issuedLinks' = issuedLinks + 1
            /\ liveLink' = [liveLink EXCEPT ![purpose] = issuedLinks']
            /\ inbox' = IF sent THEN inbox \union {<<purpose, issuedLinks'>>} ELSE inbox
            /\ sheet' = [sheet EXCEPT !.doubt = @ \/ sheet.name = purpose]
    /\ UNCHANGED <<account, signedIn, backed, posts, leaving, untold, gestures>>

LinkLapses(purpose) ==
    /\ liveLink[purpose] # 0
    /\ liveLink' = [liveLink EXCEPT ![purpose] = 0]
    /\ sheet' = [sheet EXCEPT !.doubt = @ \/ sheet.name = purpose]
    /\ UNCHANGED <<account, issuedLinks, inbox, toMail, signedIn, backed, posts, leaving, untold, gestures>>

------------------------------------------------------------------------------
(* Answers.                                                                 *)

\* handleDelete and the reset page drop the user with the server's session; the
\* page of a changed password does not.
Forgets(c) == c.at = "ok" /\ c.kind \in {"reset", "erase"}

\* What ends a session without the tab being told by the answer.
Silent(c) == c.kind \in {"reset", "change", "erase"} /\ (c.at = "lost" \/ (c.at = "ok" /\ c.kind = "change"))

\* What the page still shown makes of an answer.
Outcome(c) == IF c.at # "ok" THEN "failed" ELSE IF c.kind = "resend" THEN "sent" ELSE "done"

\* After a reset or an erasure the tab moves on, whatever page is shown by then;
\* the reset page logs out on the server too, which ends a session begun since.
MoveOn(c) == /\ sheet' = Sheet(IF c.kind = "reset" THEN "login" ELSE "home", 0, "form")
             /\ posts' = Left(posts \ {c})
             /\ backed' = (backed /\ c.kind # "reset")
             /\ UNCHANGED leaving

StayOn(c) == /\ sheet' = IF c.shown THEN [sheet EXCEPT !.phase = Outcome(c)] ELSE sheet
             /\ posts' = posts \ {c}
             /\ leaving' = (leaving \/ (c.at = "ok" /\ c.kind = "change"))
             /\ UNCHANGED backed

Continue(c) ==
    /\ c.at \in {"ok", "refused", "expired", "lost"}
    /\ IF c.at = "expired" THEN SessionLost(posts \ {c}) /\ UNCHANGED <<backed, leaving>>
       ELSE /\ IF c.at = "ok" /\ c.kind \in {"reset", "erase"} THEN MoveOn(c) ELSE StayOn(c)
            /\ signedIn' = (signedIn /\ ~Forgets(c))
            /\ untold' = (signedIn' /\ ~backed' /\ (untold \/ Silent(c)))
    /\ UNCHANGED <<account, mailVars, gestures>>

\* setTimeout(navigate): not cancelled by leaving the page.
TimerFires == /\ leaving
              /\ leaving' = FALSE
              /\ sheet' = Sheet("home", 0, "form")
              /\ posts' = Left(posts)
              /\ UNCHANGED <<account, mailVars, signedIn, backed, untold, gestures>>

AccountNext ==
    \/ \E name \in PublicSheets \union ProtectedSheets : OpenSheet(name)
    \/ \E entry \in inbox : FollowLink(entry[1], entry[2])
    \/ EffectAgain
    \/ \E f \in FormPosts : SubmitSheet(f[1], f[2], f[3])
    \/ SignIn \/ HomeRefused \/ TimerFires
    \/ \E c \in posts : ServePost(c) \/ PostLost(c) \/ Continue(c)
    \/ \E p \in MailPurposes : LinkLapses(p) \/ \E sent \in BOOLEAN : MailOut(p, sent)

AccountSpec == AccountInit /\ [][AccountNext]_accountVars

------------------------------------------------------------------------------
(* Properties.                                                              *)

\* The verification page reports a failure only if a request of its was lost or
\* its link was not live when the page was opened, or was superseded, spent or
\* void since: never because the page itself spends the link twice
\* (VerifyEmailPage.tsx:24-40).
LiveLinkConfirms == sheet.name = "verify" /\ sheet.phase = "failed" => sheet.doubt

\* A tab shows a user without a session only while the answer that ended the
\* session is on its way or was lost, or after a change of the password, whose
\* page leaves the user to a later refusal (AccountPage.tsx:73-92,
\* reset-password-page.tsx:51-56, ChangePasswordPage.tsx:29-66).
UserHasSession ==
    signedIn /\ ~backed =>
        untold \/ \E c \in posts : c.kind \in {"reset", "change", "erase"} /\ c.at \in {"ok", "lost"}

AccountInv == /\ LiveLinkConfirms /\ UserHasSession
              /\ backed => account.status # "none"
              /\ account.status = "none" => liveLink = [p \in MailPurposes |-> 0]
              /\ \A entry \in inbox : entry[2] <= issuedLinks
              /\ liveLink["verify"] # 0 => account.status = "unverified"
              /\ Cardinality({c \in posts : c.shown}) <= 1
=============================================================================
