------------------------------ MODULE Sessions ------------------------------
(***************************************************************************)
(* Sessions of Members against the rows of PostgreSQL: sign-up, e-mailed   *)
(* links, login, rotation of refresh tokens, logout, password change and   *)
(* reset, suspension and erasure.                                          *)
(*                                                                         *)
(* A request in flight is a record of `request`.  It advances from one     *)
(* statement to the next, so that requests interleave as their statements  *)
(* do at READ COMMITTED.  The row locks that decide the races are derived  *)
(* from where each request stands: FOR UPDATE on a users row keeps the     *)
(* foreign-key check of an INSERT into refresh_tokens waiting, a plain     *)
(* UPDATE of the row does not.  The writes of a transaction appear at its  *)
(* commit.  A rejected attempt changes no row and is not a step; neither   *)
(* is the expiry of a refresh token, which only makes validation refuse.   *)
(***************************************************************************)
EXTENDS Naturals, FiniteSets

CONSTANTS
  Members,        \* rows of users with the role member, each created at most once
  Requests,       \* slots for the requests in flight
  MaxTokens,      \* bound on the refresh tokens ever issued
  MaxLinks,       \* bound on the links ever mailed
  MaxPasswords    \* bound on the passwords a Member ever has

ASSUME SessionsAssumption ==
  /\ MaxTokens \in Nat
  /\ MaxLinks \in Nat
  /\ MaxPasswords \in Nat \ {0}
  /\ "none" \notin Members

VARIABLES
  account,    \* users: [Members -> status, email_verified_at, password_hash]
  tokens,     \* refresh_tokens, by the order of their insertion
  issued,     \* how many refresh tokens were inserted
  links,      \* auth_email_tokens: the outstanding link of a Member and purpose, 0 for none
  mailed,     \* how many links were issued
  spent,      \* how often a link changed an account (history)
  request     \* the requests in flight

sessionVars == <<account, tokens, issued, links, mailed, spent, request>>

Purposes == {"email_verification", "password_reset"}
Token == 1 .. MaxTokens
Link == 1 .. MaxLinks

NoToken == [member |-> "none", state |-> "none", parent |-> 0]
NoRequest == [op |-> "none", pc |-> "idle", member |-> "none", purpose |-> "none",
              token |-> 0, link |-> 0, password |-> 0, seen |-> {}]

Present(m) == account[m].status \in {"unverified", "active", "suspended"}
LiveTokens(m) == {t \in Token : tokens[t].member = m /\ tokens[t].state = "live"}
Linked(m, l) == l # 0 /\ \E p \in Purposes : links[m][p] = l

SessionsTypeOK ==
  /\ account \in [Members -> [status : {"none", "unverified", "active", "suspended", "erased"},
                              verified : BOOLEAN, password : 0 .. MaxPasswords]]
  /\ tokens \in [Token -> [member : Members \cup {"none"}, state : {"none", "live", "revoked"},
                           parent : 0 .. MaxTokens]]
  /\ issued \in 0 .. MaxTokens
  /\ links \in [Members -> [Purposes -> 0 .. MaxLinks]]
  /\ mailed \in 0 .. MaxLinks
  /\ spent \in [Link -> Nat]
  /\ request \in [Requests -> [op : {"none", "login", "refresh", "change", "mail", "verify",
                                     "reset", "suspend", "delete", "erase"},
                               pc : {"idle", "checked", "inserting", "changed", "consumed",
                                     "locked", "revoking"},
                               member : Members \cup {"none"}, purpose : Purposes \cup {"none"},
                               token : 0 .. MaxTokens, link : 0 .. MaxLinks,
                               password : 0 .. MaxPasswords, seen : SUBSET Token]]

SessionsInit ==
  /\ account = [m \in Members |-> [status |-> "none", verified |-> FALSE, password |-> 0]]
  /\ tokens = [t \in Token |-> NoToken]
  /\ issued = 0
  /\ links = [m \in Members |-> [p \in Purposes |-> 0]]
  /\ mailed = 0
  /\ spent = [l \in Link |-> 0]
  /\ request = [r \in Requests |-> NoRequest]

-----------------------------------------------------------------------------
(* Row locks, by where the requests stand.                                 *)

At(r, op, pc) == request[r].op = op /\ request[r].pc = pc

\* The lifecycle row read without its lock.
HoldsRow_Unlocked(r, m) == FALSE

\* SELECT ... FOR UPDATE OF u, until the transaction ends.
HoldsRow(r, m) ==
  /\ request[r].member = m
  /\ request[r].op \in {"suspend", "delete", "erase"}
  /\ request[r].pc \in {"locked", "revoking"}

\* UPDATE users ... inside the reset transaction, until it ends.
UpdatesRow(r, m) ==
  /\ request[r].member = m
  /\ request[r].op = "reset"
  /\ request[r].pc \in {"locked", "revoking"}

\* The link read first and deleted at the end.
HoldsLink_ReadOnly(r, l) == FALSE

HoldsToken(r, t) == At(r, "refresh", "inserting") /\ request[r].token = t
HoldsLink(r, l) == request[r].op = "reset" /\ request[r].pc # "checked" /\ request[r].link = l

RowFree(m) == \A q \in Requests : ~HoldsRow(q, m) /\ ~UpdatesRow(q, m)
KeyFree(m) == \A q \in Requests : ~HoldsRow(q, m)
TokenFree(t) == \A q \in Requests : ~HoldsToken(q, t)
LinkFree(l) == \A q \in Requests : ~HoldsLink(q, l)

\* A request arrives, goes on, or answers.
Begin(r, req) == request[r].pc = "idle" /\ request' = [request EXCEPT ![r] = req]
Advance(r, pc) == request' = [request EXCEPT ![r].pc = pc]
Answer(r) == request' = [request EXCEPT ![r] = NoRequest]

-----------------------------------------------------------------------------
(* Sign-up and e-mailed links.                                             *)

SignUp(m) ==
  /\ account[m].status = "none"
  /\ account' = [account EXCEPT ![m] = [status |-> "unverified", verified |-> FALSE, password |-> 1]]
  /\ UNCHANGED <<tokens, issued, links, mailed, spent, request>>

\* A Member awaiting verification may be sent a verification link, any Member a reset link.
Eligible(m, p) ==
  /\ Present(m)
  /\ p = "email_verification" => ~account[m].verified

\* The lookup of the pipeline; the answer to the requester does not wait for the rest.
RequestLink(r, m, p) ==
  /\ Eligible(m, p)
  /\ mailed < MaxLinks
  /\ Begin(r, [NoRequest EXCEPT !.op = "mail", !.pc = "checked", !.member = m, !.purpose = p])
  /\ UNCHANGED <<account, tokens, issued, links, mailed, spent>>

\* One upsert: the new link supersedes the outstanding one, and the mail may get lost.
IssueLink(r) ==
  LET m == request[r].member
      p == request[r].purpose IN
  /\ At(r, "mail", "checked")
  /\ IF Present(m) /\ mailed < MaxLinks
       THEN /\ KeyFree(m)
            /\ LinkFree(links[m][p])
            /\ mailed' = mailed + 1
            /\ links' = [links EXCEPT ![m][p] = mailed + 1]
       ELSE UNCHANGED <<links, mailed>>
  /\ Answer(r)
  /\ UNCHANGED <<account, tokens, issued, spent>>

\* A link passes its 30 minutes, and the sweep deletes the row.
LinkExpires(m, p) ==
  /\ links[m][p] # 0
  /\ LinkFree(links[m][p])
  /\ links' = [links EXCEPT ![m][p] = 0]
  /\ UNCHANGED <<account, tokens, issued, mailed, spent, request>>

\* The DELETE ... RETURNING of a verification link, a statement of its own.
ConsumeVerification(r, m) ==
  LET l == links[m]["email_verification"] IN
  /\ l # 0
  /\ Begin(r, [NoRequest EXCEPT !.op = "verify", !.pc = "consumed", !.member = m, !.link = l])
  /\ links' = [links EXCEPT ![m]["email_verification"] = 0]
  /\ spent' = [spent EXCEPT ![l] = @ + 1]
  /\ UNCHANGED <<account, tokens, issued, mailed>>

\* The UPDATE that follows; a suspended Member stays suspended.
MarkVerified(r) ==
  LET m == request[r].member IN
  /\ At(r, "verify", "consumed")
  /\ RowFree(m)
  /\ account' = IF Present(m)
                  THEN [account EXCEPT ![m].verified = TRUE,
                          ![m].status = IF @ = "unverified" THEN "active" ELSE @]
                  ELSE account
  /\ Answer(r)
  /\ UNCHANGED <<tokens, issued, links, mailed, spent>>

-----------------------------------------------------------------------------
(* Login, rotation and logout.                                             *)

\* The password matches and the Member is not suspended, as read now.
Login(r, m) ==
  /\ account[m].status \in {"unverified", "active"}
  /\ issued < MaxTokens
  /\ Begin(r, [NoRequest EXCEPT !.op = "login", !.pc = "checked", !.member = m])
  /\ UNCHANGED <<account, tokens, issued, links, mailed, spent>>

\* The row of the new token; its foreign key waits for a FOR UPDATE lock on the Member.
Inserted(m, parent) == [tokens EXCEPT ![issued + 1] =
                          [member |-> m, state |-> "live", parent |-> parent]]

IssueToken(r) ==
  LET m == request[r].member IN
  /\ At(r, "login", "checked")
  /\ IF Present(m) /\ issued < MaxTokens
       THEN KeyFree(m) /\ tokens' = Inserted(m, 0) /\ issued' = issued + 1
       ELSE UNCHANGED <<tokens, issued>>
  /\ Answer(r)
  /\ UNCHANGED <<account, links, mailed, spent>>

\* The token is live, and the row of its user is read without its status.
ValidateToken(r, t) ==
  /\ tokens[t].state = "live"
  /\ issued < MaxTokens
  /\ Begin(r, [NoRequest EXCEPT !.op = "refresh", !.pc = "checked",
                 !.member = tokens[t].member, !.token = t])
  /\ UNCHANGED <<account, tokens, issued, links, mailed, spent>>

\* A rotation that does not look at the row count of its UPDATE.
ConsumeToken_NoRowCount(r) ==
  /\ At(r, "refresh", "checked")
  /\ TokenFree(request[r].token)
  /\ Advance(r, "inserting")
  /\ UNCHANGED <<account, tokens, issued, links, mailed, spent>>

\* UPDATE ... WHERE revoked_at IS NULL: no row means the token was consumed meanwhile.
ConsumeToken(r) ==
  LET t == request[r].token IN
  /\ At(r, "refresh", "checked")
  /\ TokenFree(t)
  /\ IF tokens[t].state = "live" THEN Advance(r, "inserting") ELSE Answer(r)
  /\ UNCHANGED <<account, tokens, issued, links, mailed, spent>>

\* The INSERT and the commit of the rotation.
Rotate(r) ==
  LET m == request[r].member
      t == request[r].token IN
  /\ At(r, "refresh", "inserting")
  /\ IF issued < MaxTokens
       THEN /\ KeyFree(m)
            /\ tokens' = [Inserted(m, t) EXCEPT ![t].state = "revoked"]
            /\ issued' = issued + 1
       ELSE UNCHANGED <<tokens, issued>>
  /\ Answer(r)
  /\ UNCHANGED <<account, links, mailed, spent>>

Logout(t) ==
  /\ tokens[t].state = "live"
  /\ TokenFree(t)
  /\ tokens' = [tokens EXCEPT ![t].state = "revoked"]
  /\ UNCHANGED <<account, issued, links, mailed, spent, request>>

-----------------------------------------------------------------------------
(* Revocation of all tokens of a Member: one UPDATE, which revokes what it *)
(* saw when it started, after the rotations that hold one of those rows.   *)

Revokes(r) ==
  \/ At(r, "change", "changed")
  \/ At(r, "reset", "locked")
  \/ At(r, "suspend", "locked")

StartRevocation(r) ==
  /\ Revokes(r)
  /\ request' = [request EXCEPT ![r].pc = "revoking",
                                ![r].seen = LiveTokens(request[r].member)]
  /\ UNCHANGED <<account, tokens, issued, links, mailed, spent>>

Revoked(seen) == [t \in Token |-> IF t \in seen THEN [tokens[t] EXCEPT !.state = "revoked"]
                                                ELSE tokens[t]]

\* The rows a revocation updates: those it saw that are still live.
Revocable(r) == {t \in request[r].seen : tokens[t].state = "live"}

RevocationDone(r) ==
  /\ request[r].pc = "revoking"
  /\ \A t \in request[r].seen : TokenFree(t)
  /\ tokens' = Revoked(Revocable(r))

-----------------------------------------------------------------------------
(* Password change and reset.                                              *)

\* The current password matches, as read now.
ChangePassword(r, m) ==
  /\ Present(m)
  /\ account[m].password < MaxPasswords
  /\ Begin(r, [NoRequest EXCEPT !.op = "change", !.pc = "checked", !.member = m])
  /\ UNCHANGED <<account, tokens, issued, links, mailed, spent>>

StorePassword(r) ==
  LET m == request[r].member IN
  /\ At(r, "change", "checked")
  /\ RowFree(m)
  /\ account' = IF Present(m) /\ account[m].password < MaxPasswords
                  THEN [account EXCEPT ![m].password = @ + 1]
                  ELSE account
  /\ Advance(r, "changed")
  /\ UNCHANGED <<tokens, issued, links, mailed, spent>>

\* The revocation is a statement of its own, after the password was stored.
EndChange(r) ==
  /\ request[r].op = "change"
  /\ RevocationDone(r)
  /\ Answer(r)
  /\ UNCHANGED <<account, issued, links, mailed, spent>>

\* The DELETE ... RETURNING of a reset link locks its row until the transaction ends.
ConsumeReset(r, m) ==
  LET l == links[m]["password_reset"] IN
  /\ l # 0
  /\ LinkFree(l)
  /\ account[m].password < MaxPasswords
  /\ Begin(r, [NoRequest EXCEPT !.op = "reset", !.pc = "consumed", !.member = m, !.link = l])
  /\ UNCHANGED <<account, tokens, issued, links, mailed, spent>>

ResetPassword(r) ==
  /\ At(r, "reset", "consumed")
  /\ RowFree(request[r].member)
  /\ Advance(r, "locked")
  /\ UNCHANGED <<account, tokens, issued, links, mailed, spent>>

\* The commit: the link is gone, the password is new, the tokens are revoked.
EndReset(r) ==
  LET m == request[r].member IN
  /\ request[r].op = "reset"
  /\ RevocationDone(r)
  /\ account' = [account EXCEPT ![m].password = IF @ < MaxPasswords THEN @ + 1 ELSE @]
  /\ links' = [links EXCEPT ![m]["password_reset"] = 0]
  /\ spent' = [spent EXCEPT ![request[r].link] = @ + 1]
  /\ Answer(r)
  /\ UNCHANGED <<issued, mailed>>

-----------------------------------------------------------------------------
(* Suspension, reinstatement and erasure.                                  *)

\* The SELECT ... FOR UPDATE of a lifecycle transaction, and its check.
Lock(r, m, op) ==
  /\ RowFree(m)
  /\ Begin(r, [NoRequest EXCEPT !.op = op, !.pc = "locked", !.member = m])
  /\ UNCHANGED <<account, tokens, issued, links, mailed, spent>>

\* A suspension open to every present Member.
Suspend_AnyStatus(r, m) == Present(m) /\ Lock(r, m, "suspend")

Suspend(r, m) == account[m].status = "active" /\ Lock(r, m, "suspend")

EndSuspension(r) ==
  /\ request[r].op = "suspend"
  /\ RevocationDone(r)
  /\ account' = [account EXCEPT ![request[r].member].status = "suspended"]
  /\ Answer(r)
  /\ UNCHANGED <<issued, links, mailed, spent>>

Reinstate(m) ==
  /\ account[m].status = "suspended"
  /\ RowFree(m)
  /\ account' = [account EXCEPT ![m].status = "active"]
  /\ UNCHANGED <<tokens, issued, links, mailed, spent, request>>

DeleteMember(r, m) == Present(m) /\ Lock(r, m, "delete")

\* The password is compared before the transaction and its hash kept.
EraseSelf(r, m) ==
  /\ Present(m)
  /\ Begin(r, [NoRequest EXCEPT !.op = "erase", !.pc = "checked", !.member = m,
                 !.password = account[m].password])
  /\ UNCHANGED <<account, tokens, issued, links, mailed, spent>>

\* The hash is not read again.
MayErase_HashOnce(r) == account[request[r].member].status \in {"unverified", "active"}

\* Under the lock: not suspended meanwhile, and still the hash that was compared.
MayErase(r) ==
  LET m == request[r].member IN
  /\ account[m].status \in {"unverified", "active"}
  /\ account[m].password = request[r].password

EraseLocks(r) ==
  /\ At(r, "erase", "checked")
  /\ RowFree(request[r].member)
  /\ IF MayErase(r) THEN Advance(r, "locked") ELSE Answer(r)
  /\ UNCHANGED <<account, tokens, issued, links, mailed, spent>>

\* The DELETE waits for the rows its cascade takes along.
DeleteRow(r) ==
  LET m == request[r].member IN
  /\ request[r].op \in {"delete", "erase"}
  /\ request[r].pc = "locked"
  /\ \A t \in LiveTokens(m) : TokenFree(t)
  /\ \A p \in Purposes : LinkFree(links[m][p])
  /\ account' = [account EXCEPT ![m].status = "erased"]
  /\ tokens' = [t \in Token |-> IF tokens[t].member = m THEN NoToken ELSE tokens[t]]
  /\ links' = [links EXCEPT ![m] = [p \in Purposes |-> 0]]
  /\ Answer(r)
  /\ UNCHANGED <<issued, mailed, spent>>

-----------------------------------------------------------------------------
(* Failures.                                                               *)

\* Request r waits for a row that request q holds.
Waits(r, q) ==
  LET m == request[r].member IN
  \/ At(r, "refresh", "inserting") /\ HoldsRow(q, m)
  \/ request[r].pc = "revoking" /\ \E t \in request[r].seen : HoldsToken(q, t)
  \/ /\ request[r].op \in {"delete", "erase"}
     /\ request[r].pc = "locked"
     /\ \/ \E t \in LiveTokens(m) : HoldsToken(q, t)
        \/ \E p \in Purposes : HoldsLink(q, links[m][p])
  \/ At(r, "reset", "consumed") /\ (HoldsRow(q, m) \/ UpdatesRow(q, m))

\* No deadlock detection.
Victim_Never(r) == FALSE

\* Two transactions wait for each other.
Victim(r) == \E q \in Requests : Waits(r, q) /\ Waits(q, r)

\* PostgreSQL rolls one of them back.
DeadlockAborts(r) ==
  /\ Victim(r)
  /\ Answer(r)
  /\ UNCHANGED <<account, tokens, issued, links, mailed, spent>>

\* A statement fails or the process dies: what is not committed is rolled back.
Fails(r) ==
  /\ request[r].pc # "idle"
  /\ Answer(r)
  /\ UNCHANGED <<account, tokens, issued, links, mailed, spent>>

-----------------------------------------------------------------------------
Arrive(r, m) ==
  \/ \E p \in Purposes : RequestLink(r, m, p)
  \/ ConsumeVerification(r, m)
  \/ Login(r, m)
  \/ ChangePassword(r, m)
  \/ ConsumeReset(r, m)
  \/ Suspend(r, m)
  \/ DeleteMember(r, m)
  \/ EraseSelf(r, m)

Continue(r) ==
  \/ IssueLink(r)
  \/ MarkVerified(r)
  \/ IssueToken(r)
  \/ ConsumeToken(r)
  \/ Rotate(r)
  \/ StorePassword(r)
  \/ StartRevocation(r)
  \/ EndChange(r)
  \/ ResetPassword(r)
  \/ EndReset(r)
  \/ EndSuspension(r)
  \/ EraseLocks(r)
  \/ DeleteRow(r)
  \/ DeadlockAborts(r)

SessionsNext ==
  \/ \E m \in Members :
       \/ SignUp(m)
       \/ Reinstate(m)
       \/ \E p \in Purposes : LinkExpires(m, p)
  \/ \E t \in Token : Logout(t)
  \/ \E r \in Requests :
       \/ \E m \in Members : Arrive(r, m)
       \/ \E t \in Token : ValidateToken(r, t)
       \/ Continue(r)
       \/ Fails(r)

SessionsSpec == SessionsInit /\ [][SessionsNext]_sessionVars

-----------------------------------------------------------------------------
(* Properties.                                                             *)

\* A refresh token has at most one successor, and none while it is live: two
\* refreshes that present one token never leave two live tokens behind.
OneSuccessor ==
  \A t \in Token : tokens[t].state = "live" =>
    /\ \A c \in Token : tokens[c].parent # t
    /\ \A s \in Token \ {t} : tokens[t].parent # 0 => tokens[s].parent # tokens[t].parent

\* A Member who may act on the account beyond verification proved the address,
\* through suspensions, reinstatements and a verification that races them.
ActiveIsVerified ==
  \A m \in Members : account[m].status \in {"active", "suspended"} => account[m].verified

\* Nothing refers to a Member who is gone: an insertion in flight loses to the cascade.
ErasedLeavesNothing ==
  \A m \in Members : ~Present(m) =>
    /\ \A t \in Token : tokens[t].member # m
    /\ \A p \in Purposes : links[m][p] = 0

\* A link changes an account at most once, however many requests present it.
LinkSpentOnce == \A l \in Link : spent[l] <= 1

\* The step that suspends a Member leaves no live refresh token of theirs,
\* whatever logins and rotations are in flight.
SuspensionEndsSessions ==
  [][\A m \in Members :
       account[m].status = "active" /\ account'[m].status = "suspended" =>
         \A t \in Token : ~(tokens'[t].member = m /\ tokens'[t].state = "live")]_sessionVars

\* A Member erases the own account only with the password that is current at
\* that moment: a change or reset that commits after the check voids it.
ErasureKnowsPassword ==
  [][\A m \in Members : Present(m) /\ account'[m].status = "erased" =>
       \E r \in Requests :
         /\ request[r].member = m
         /\ request[r].pc # "idle" /\ request'[r].pc = "idle"
         /\ \/ request[r].op = "delete"
            \/ /\ request[r].op = "erase"
               /\ account[m].status # "suspended"
               /\ request[r].password = account[m].password]_sessionVars

\* The rows that the next statement of request r needs are locked by nobody.
Granted(r) ==
  LET m == request[r].member IN
  /\ At(r, "mail", "checked") => KeyFree(m) /\ LinkFree(links[m][request[r].purpose])
  /\ At(r, "login", "checked") \/ At(r, "refresh", "inserting") => KeyFree(m)
  /\ At(r, "refresh", "checked") => TokenFree(request[r].token)
  /\ \/ At(r, "verify", "consumed") \/ At(r, "change", "checked")
     \/ At(r, "reset", "consumed") \/ At(r, "erase", "checked")
     => RowFree(m)
  /\ request[r].pc = "revoking" => \A t \in request[r].seen : TokenFree(t)
  /\ At(r, "delete", "locked") \/ At(r, "erase", "locked") =>
       /\ \A t \in LiveTokens(m) : TokenFree(t)
       /\ \A p \in Purposes : LinkFree(links[m][p])

\* As long as requests are in flight one of them has its locks, or two wait for each
\* other and PostgreSQL takes one of them back: no chain of waits holds up everybody.
SomeoneProceeds ==
  (\E r \in Requests : request[r].pc # "idle") =>
    \E r \in Requests : request[r].pc # "idle" /\ (Granted(r) \/ Victim(r))

\* Accounts, tokens and links without the requests that change them.
Ledger == INSTANCE SessionLedger WITH
  status <- [m \in Members |-> account[m].status],
  password <- [m \in Members |-> account[m].password],
  used <- 1 .. issued,
  sent <- 1 .. mailed,
  spent <- {l \in Link : spent[l] # 0}

\* Every statement of every request is one step of the ledger or none: what a
\* transaction does appears at once, whatever the others do between its statements.
ImplementsLedger == Ledger!Spec

-----------------------------------------------------------------------------
(* The inductive invariant: what holds between two statements.             *)

\* A rotation about to insert holds a live token, and holds it alone.
RotationHoldsLive ==
  \A r \in Requests : At(r, "refresh", "inserting") =>
    /\ request[r].token \in Token
    /\ tokens[request[r].token].state = "live"
    /\ tokens[request[r].token].member = request[r].member
    /\ \A q \in Requests \ {r} : ~HoldsToken(q, request[r].token)

\* Rows are inserted in order, for Members who exist, after their parent was revoked.
TokenRows ==
  \A t \in Token :
    /\ t > issued => tokens[t] = NoToken
    /\ tokens[t].state # "none" => tokens[t].member \in Members
    /\ tokens[t].state = "none" => tokens[t] = NoToken
    /\ tokens[t].parent # 0 =>
         /\ tokens[t].parent < t
         /\ tokens[tokens[t].parent].state = "revoked"
         /\ tokens[tokens[t].parent].member = tokens[t].member
         /\ \A s \in Token \ {t} : tokens[s].parent # tokens[t].parent

\* A lock on a users row is held alone, on a row that is there.
RowHolders ==
  \A r \in Requests, m \in Members : HoldsRow(r, m) \/ UpdatesRow(r, m) =>
    /\ Present(m)
    /\ \A q \in Requests \ {r} : ~HoldsRow(q, m) /\ ~UpdatesRow(q, m)

\* What a holder of the lock has checked stays so.
CheckedUnderLock ==
  \A r \in Requests :
    /\ request[r].op = "suspend" => account[request[r].member].status = "active"
    /\ At(r, "suspend", "revoking") => LiveTokens(request[r].member) \subseteq request[r].seen
    /\ At(r, "erase", "locked") => MayErase(r)

\* An outstanding link is unspent and stands for one Member and purpose; a reset
\* in flight holds its link alone.
LinkRows ==
  /\ \A m \in Members, p \in Purposes : links[m][p] # 0 =>
       /\ links[m][p] <= mailed
       /\ spent[links[m][p]] = 0
       /\ \A n \in Members, q \in Purposes : links[n][q] = links[m][p] => n = m /\ q = p
  /\ \A l \in Link : l > mailed => spent[l] = 0
  /\ \A r \in Requests : request[r].op = "reset" =>
       /\ request[r].link # 0
       /\ links[request[r].member]["password_reset"] = request[r].link
       /\ \A q \in Requests \ {r} : ~HoldsLink(q, request[r].link)

\* Where the requests may stand.
RequestShapes ==
  \A r \in Requests :
    LET q == request[r] IN
    /\ q.pc = "idle" => q = NoRequest
    /\ q.pc # "idle" => q.member \in Members /\ q.op # "none"
    /\ q.op = "mail" => q.purpose \in Purposes
    /\ q.pc = "checked" => q.op \in {"login", "refresh", "change", "mail", "erase"}
    /\ q.pc = "inserting" => q.op = "refresh"
    /\ q.pc = "changed" => q.op = "change"
    /\ q.pc = "consumed" => q.op \in {"verify", "reset"}
    /\ q.pc = "locked" => q.op \in {"reset", "suspend", "delete", "erase"}
    /\ q.pc = "revoking" => q.op \in {"change", "reset", "suspend"}
    /\ q.op \in {"suspend", "delete"} => q.pc \in {"locked", "revoking"}
    /\ q.op = "reset" => q.pc \in {"consumed", "locked", "revoking"}
    /\ q.op = "refresh" => q.token \in Token /\ q.pc \in {"checked", "inserting"}

\* Every statement of every request preserves all of it.
SessionsInv ==
  /\ SessionsTypeOK
  /\ RequestShapes
  /\ RotationHoldsLive
  /\ TokenRows
  /\ RowHolders
  /\ CheckedUnderLock
  /\ LinkRows
  /\ LinkSpentOnce
  /\ ActiveIsVerified
  /\ ErasedLeavesNothing
=============================================================================
