--------------------------- MODULE SessionLedger ---------------------------
(***************************************************************************)
(* What accounts, refresh tokens and e-mailed links promise, without       *)
(* requests, statements and row locks: a token is succeeded in one step, a *)
(* reset is one step, a suspension ends every session in the step in which *)
(* it happens, and neither a token nor a link ever comes back.  Sessions   *)
(* implements this specification.                                          *)
(***************************************************************************)
EXTENDS Naturals

CONSTANTS Members, Token, Link, Purposes, MaxPasswords

VARIABLES
  status, password,   \* of each Member
  tokens, used,       \* the tokens, and which of them were ever issued
  links, sent, spent  \* outstanding links, all that were mailed, those that did their work

ledgerVars == <<status, password, tokens, used, links, sent, spent>>
accountVars == <<status, password>>
tokenVars == <<tokens, used>>
linkVars == <<links, sent, spent>>

NoToken == [member |-> "none", state |-> "none", parent |-> 0]
Present(m) == status[m] \in {"unverified", "active", "suspended"}
Live(t) == tokens[t].state = "live"
LiveTokens(m) == {t \in Token : tokens[t].member = m /\ Live(t)}
Renewed(p) == IF p < MaxPasswords THEN p + 1 ELSE p

Init ==
  /\ status = [m \in Members |-> "none"] /\ password = [m \in Members |-> 0]
  /\ tokens = [t \in Token |-> NoToken] /\ used = {}
  /\ links = [m \in Members |-> [p \in Purposes |-> 0]] /\ sent = {} /\ spent = {}

-----------------------------------------------------------------------------
Becomes(m, from, to) == status[m] = from /\ status' = [status EXCEPT ![m] = to]

Join(m) ==
  /\ Becomes(m, "none", "unverified")
  /\ password' = [password EXCEPT ![m] = 1]
  /\ UNCHANGED <<tokenVars, linkVars>>

Verify(m) == Becomes(m, "unverified", "active") /\ UNCHANGED <<password, tokenVars, linkVars>>
Reinstate(m) == Becomes(m, "suspended", "active") /\ UNCHANGED <<password, tokenVars, linkVars>>

Change(m) ==
  /\ Present(m)
  /\ password' = [password EXCEPT ![m] = Renewed(@)]
  /\ UNCHANGED <<status, tokenVars, linkVars>>

-----------------------------------------------------------------------------
Issued(t, m, parent) == [tokens EXCEPT ![t] = [member |-> m, state |-> "live", parent |-> parent]]
Revoked(gone) == [t \in Token |-> IF t \in gone THEN [tokens[t] EXCEPT !.state = "revoked"] ELSE tokens[t]]

\* A login, of a Member who may be suspended by now.
Grant(m, t) ==
  /\ Present(m) /\ t \notin used
  /\ tokens' = Issued(t, m, 0) /\ used' = used \cup {t}
  /\ UNCHANGED <<accountVars, linkVars>>

\* A live token ends where its only successor begins.
Succeed(t, next) ==
  /\ Live(t) /\ next \notin used
  /\ tokens' = [Issued(next, tokens[t].member, t) EXCEPT ![t].state = "revoked"]
  /\ used' = used \cup {next}
  /\ UNCHANGED <<accountVars, linkVars>>

\* Logout, or what follows a change of the password.
Revoke(m, gone) ==
  /\ gone \subseteq LiveTokens(m)
  /\ tokens' = Revoked(gone)
  /\ UNCHANGED <<accountVars, used, linkVars>>

-----------------------------------------------------------------------------
Send(m, p, l) ==
  /\ Present(m) /\ l \notin sent
  /\ links' = [links EXCEPT ![m][p] = l] /\ sent' = sent \cup {l}
  /\ UNCHANGED <<accountVars, tokenVars, spent>>

Expire(m, p) == links' = [links EXCEPT ![m][p] = 0] /\ UNCHANGED <<accountVars, tokenVars, sent, spent>>

\* An outstanding link does its work, once.
Spend(m, p) ==
  /\ links[m][p] \in sent \ spent
  /\ links' = [links EXCEPT ![m][p] = 0] /\ spent' = spent \cup {links[m][p]}
  /\ UNCHANGED sent

Prove(m) == Spend(m, "email_verification") /\ UNCHANGED <<accountVars, tokenVars>>

\* Link, password and tokens in one step.
Reset(m, gone) ==
  /\ Spend(m, "password_reset")
  /\ Present(m) /\ password' = [password EXCEPT ![m] = Renewed(@)]
  /\ gone \subseteq LiveTokens(m) /\ tokens' = Revoked(gone)
  /\ UNCHANGED <<status, used>>

-----------------------------------------------------------------------------
\* Only an active Member is suspended, and no session outlives it.
Suspend(m) ==
  /\ Becomes(m, "active", "suspended")
  /\ tokens' = Revoked(LiveTokens(m))
  /\ UNCHANGED <<password, used, linkVars>>

\* Whatever belongs to the Member goes with the account.
Erase(m) ==
  /\ Present(m) /\ status' = [status EXCEPT ![m] = "erased"]
  /\ tokens' = [t \in Token |-> IF tokens[t].member = m THEN NoToken ELSE tokens[t]]
  /\ links' = [links EXCEPT ![m] = [p \in Purposes |-> 0]]
  /\ UNCHANGED <<password, used, sent, spent>>

Next ==
  \/ \E m \in Members :
       \/ Join(m) \/ Verify(m) \/ Reinstate(m) \/ Change(m) \/ Prove(m) \/ Suspend(m) \/ Erase(m)
       \/ \E t \in Token : Grant(m, t)
       \/ \E p \in Purposes : Expire(m, p) \/ \E l \in Link : Send(m, p, l)
       \/ \E gone \in SUBSET Token : Revoke(m, gone) \/ Reset(m, gone)
  \/ \E t, next \in Token : Succeed(t, next)

Spec == Init /\ [][Next]_ledgerVars
=============================================================================
