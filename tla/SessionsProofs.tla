--------------------------- MODULE SessionsProofs ---------------------------
(***************************************************************************)
(* Proofs about Sessions, for any sets of Members and of requests, and any *)
(* number of tokens, links and passwords.  The invariant is restated in    *)
(* terms of the request records: what each of them relies on (Lasting),    *)
(* and what no two of them hold at once (Apart).                           *)
(***************************************************************************)
EXTENDS Sessions, TLAPS

AccountType == [status : {"none", "unverified", "active", "suspended", "erased"},
                verified : BOOLEAN, password : 0 .. MaxPasswords]
TokenType == [member : Members \cup {"none"}, state : {"none", "live", "revoked"}, parent : 0 .. MaxTokens]
Ops == {"none", "login", "refresh", "change", "mail", "verify", "reset", "suspend", "delete", "erase"}
Places == {"idle", "checked", "inserting", "changed", "consumed", "locked", "revoking"}
RequestType == [op : Ops, pc : Places, member : Members \cup {"none"}, purpose : Purposes \cup {"none"},
                token : 0 .. MaxTokens, link : 0 .. MaxLinks,
                password : 0 .. MaxPasswords, seen : SUBSET Token]

-----------------------------------------------------------------------------
(* The inductive invariant.                                                *)

Typed ==
  /\ account \in [Members -> AccountType]
  /\ tokens \in [Token -> TokenType]
  /\ issued \in 0 .. MaxTokens
  /\ links \in [Members -> [Purposes -> 0 .. MaxLinks]]
  /\ mailed \in 0 .. MaxLinks
  /\ spent \in [Link -> Nat]
  /\ request \in [Requests -> RequestType]

\* Where a request may stand.
Shape(s) ==
  /\ s.pc = "idle" => s = NoRequest
  /\ s.pc # "idle" => s.member \in Members /\ s.op # "none"
  /\ s.op = "mail" => s.purpose \in Purposes
  /\ s.pc = "checked" => s.op \in {"login", "refresh", "change", "mail", "erase"}
  /\ s.pc = "inserting" => s.op = "refresh"
  /\ s.pc = "changed" => s.op = "change"
  /\ s.pc = "consumed" => s.op \in {"verify", "reset"}
  /\ s.pc = "locked" => s.op \in {"reset", "suspend", "delete", "erase"}
  /\ s.pc = "revoking" => s.op \in {"change", "reset", "suspend"}
  /\ s.op \in {"suspend", "delete"} => s.pc \in {"locked", "revoking"}
  /\ s.op = "reset" => s.pc \in {"consumed", "locked", "revoking"}
  /\ s.op = "refresh" => s.token \in Token /\ s.pc \in {"checked", "inserting"}

Inserts(s) == s.op = "refresh" /\ s.pc = "inserting"
Locks(s) == s.op \in {"suspend", "delete", "erase", "reset"} /\ s.pc \in {"locked", "revoking"}

\* What a request relies on from one statement to the next.
Lasting(s) ==
  /\ s.op = "refresh" =>
       /\ s.token <= issued
       /\ tokens[s.token].state = "live" => tokens[s.token].member = s.member
  /\ Inserts(s) => tokens[s.token].state = "live"
  /\ Locks(s) => Present(s.member)
  /\ s.op = "suspend" => account[s.member].status = "active"
  /\ s.op = "suspend" /\ s.pc = "revoking" =>
       \A t \in Token : tokens[t].member = s.member /\ tokens[t].state = "live" => t \in s.seen
  /\ s.op = "erase" /\ s.pc = "locked" =>
       account[s.member].status \in {"unverified", "active"} /\ account[s.member].password = s.password
  /\ s.op = "reset" => s.link # 0 /\ links[s.member]["password_reset"] = s.link

\* What no two requests hold at once.
Apart(s, u) ==
  /\ Inserts(s) /\ Inserts(u) => s.token # u.token
  /\ Locks(s) /\ Locks(u) => s.member # u.member
  /\ s.op = "reset" /\ u.op = "reset" => s.link # u.link

Shapes == \A q \in Requests : Shape(request[q])
Standing == \A q \in Requests : Lasting(request[q])
Exclusive == \A p, q \in Requests : p # q => Apart(request[p], request[q])

\* An outstanding link is unspent and stands for one Member and purpose.
LinkTable ==
  /\ \A m \in Members, p \in Purposes : links[m][p] # 0 =>
       /\ links[m][p] <= mailed
       /\ spent[links[m][p]] = 0
       /\ \A n \in Members, q \in Purposes : links[n][q] = links[m][p] => n = m /\ q = p
  /\ \A l \in Link : l > mailed => spent[l] = 0

IInv == /\ Typed /\ Shapes /\ Standing /\ Exclusive /\ TokenRows /\ LinkTable
        /\ LinkSpentOnce /\ ActiveIsVerified /\ ErasedLeavesNothing

\* The restated invariant implies the one that is model-checked.
LEMMA Restated == IInv => SessionsInv
<1> SUFFICES ASSUME IInv PROVE SessionsInv
  OBVIOUS
<1> USE DEF IInv
<1>1. SessionsTypeOK
  BY DEF Typed, SessionsTypeOK, AccountType, TokenType, RequestType, Ops, Places
<1>2. RequestShapes
  BY DEF Shapes, Shape, RequestShapes
<1>3. RotationHoldsLive
  BY DEF RotationHoldsLive, HoldsToken, At, Standing, Lasting, Exclusive, Apart, Inserts, Shapes, Shape
<1>4. RowHolders
  <2>1. ASSUME NEW q \in Requests, NEW m \in Members
        PROVE  HoldsRow(q, m) \/ UpdatesRow(q, m) <=> Locks(request[q]) /\ request[q].member = m
    BY DEF HoldsRow, UpdatesRow, Locks
  <2> QED BY <2>1 DEF RowHolders, Standing, Lasting, Exclusive, Apart
<1>5. CheckedUnderLock
  BY DEF CheckedUnderLock, MayErase, LiveTokens, At, Standing, Lasting
<1>6. LinkRows
  BY DEF LinkRows, LinkTable, HoldsLink, Standing, Lasting, Exclusive, Apart
<1> QED BY <1>1, <1>2, <1>3, <1>4, <1>5, <1>6 DEF SessionsInv

-----------------------------------------------------------------------------
(* How a request moves.                                                    *)

\* What the parameters are.
LEMMA Constants ==
  /\ MaxTokens \in Nat /\ MaxLinks \in Nat /\ MaxPasswords \in Nat \ {0} /\ "none" \notin Members
  /\ 0 \in 0 .. MaxTokens /\ 0 \in 0 .. MaxLinks /\ 0 \in 0 .. MaxPasswords
  /\ Token = 1 .. MaxTokens /\ Link = 1 .. MaxLinks /\ Token \subseteq 0 .. MaxTokens
  /\ Purposes = {"email_verification", "password_reset"}
BY SessionsAssumption DEF SessionsAssumption, Token, Link, Purposes

\* A free slot relies on nothing and holds nothing.
LEMMA Nothing ==
  /\ NoRequest \in RequestType /\ Shape(NoRequest) /\ Lasting(NoRequest) /\ Lasting(NoRequest)'
  /\ \A u : Apart(NoRequest, u) /\ Apart(u, NoRequest)
  /\ NoRequest.op = "none" /\ NoRequest.pc = "idle"
<1>1. NoRequest \in RequestType
  BY Constants DEF NoRequest, RequestType, Ops, Places
<1> QED BY <1>1 DEF NoRequest, Shape, Lasting, Apart, Inserts, Locks

\* One request moves to a place of its own, the others stay.
LEMMA Moves ==
  ASSUME IInv, NEW r \in Requests, NEW s \in RequestType, Shape(s),
         request' = [request EXCEPT ![r] = s],
         \A q \in Requests \ {r} : Apart(s, request[q])
  PROVE  /\ Shapes' /\ Exclusive' /\ request' \in [Requests -> RequestType]
         /\ request'[r] = s /\ \A q \in Requests \ {r} : request'[q] = request[q]
<1>1. /\ request' \in [Requests -> RequestType]
      /\ request'[r] = s /\ \A q \in Requests \ {r} : request'[q] = request[q]
  BY DEF IInv, Typed
<1>2. \A q \in Requests : Shape(request'[q])
  BY <1>1 DEF IInv, Shapes
<1>3. \A p, q \in Requests : p # q => Apart(request'[p], request'[q])
  <2> SUFFICES ASSUME NEW p \in Requests, NEW q \in Requests, p # q
               PROVE  Apart(request'[p], request'[q])
    OBVIOUS
  <2>1. CASE p = r
    BY <1>1, <2>1
  <2>2. CASE q = r
    <3>1. Apart(s, request[p]) /\ request'[q] = s /\ request'[p] = request[p]
      BY <1>1, <2>2
    <3> QED BY <3>1 DEF Apart
  <2>3. CASE p # r /\ q # r
    BY <1>1, <2>3 DEF IInv, Exclusive
  <2> QED BY <2>1, <2>2, <2>3
<1>4. Shapes'
  BY <1>2 DEF Shapes, Shape, NoRequest
<1>5. Exclusive'
  BY <1>3 DEF Exclusive, Apart, Inserts, Locks
<1> QED BY <1>1, <1>4, <1>5

\* A step that changes nothing but one request.
LEMMA OnlyRequest ==
  ASSUME IInv, NEW r \in Requests, NEW s \in RequestType, Shape(s), Lasting(s),
         request' = [request EXCEPT ![r] = s],
         \A q \in Requests \ {r} : Apart(s, request[q]),
         UNCHANGED <<account, tokens, issued, links, mailed, spent>>
  PROVE  IInv'
<1>1. /\ Shapes' /\ Exclusive' /\ request' \in [Requests -> RequestType]
      /\ request'[r] = s /\ \A q \in Requests \ {r} : request'[q] = request[q]
  BY Moves
<1>2. Typed'
  BY <1>1 DEF IInv, Typed
<1>3. Standing'
  <2> SUFFICES ASSUME NEW q \in Requests PROVE Lasting(request[q])'
    BY DEF Standing
  <2>1. Lasting(request'[q])
    BY <1>1 DEF IInv, Standing
  <2> QED BY <2>1 DEF Lasting, Present, Inserts, Locks
<1>4. TokenRows' /\ LinkTable' /\ LinkSpentOnce' /\ ActiveIsVerified' /\ ErasedLeavesNothing'
  BY DEF IInv, TokenRows, NoToken, LinkTable, LinkSpentOnce, ActiveIsVerified, ErasedLeavesNothing, Present
<1> QED BY <1>1, <1>2, <1>3, <1>4 DEF IInv

\* A step at the end of which one request has answered.
LEMMA Answers ==
  ASSUME IInv, NEW r \in Requests, Answer(r)
  PROVE  /\ Shapes' /\ Exclusive' /\ request' \in [Requests -> RequestType]
         /\ request'[r] = NoRequest /\ \A q \in Requests \ {r} : request'[q] = request[q]
BY Moves, Nothing DEF Answer

\* Then it is enough that what the others rely on lasts.
LEMMA Answered ==
  ASSUME IInv, NEW r \in Requests, Answer(r),
         \A q \in Requests \ {r} : Lasting(request[q])'
  PROVE  Standing' /\ Shapes' /\ Exclusive' /\ request' \in [Requests -> RequestType]
<1>1. request'[r] = NoRequest
  BY Answers
<1>2. Lasting(request[r])'
  BY <1>1, Nothing DEF Lasting
<1> QED BY <1>2, Answers DEF Standing

\* A request that only answers.
LEMMA OnlyAnswers ==
  ASSUME IInv, NEW r \in Requests, Answer(r),
         UNCHANGED <<account, tokens, issued, links, mailed, spent>>
  PROVE  IInv'
BY OnlyRequest, Nothing DEF Answer

-----------------------------------------------------------------------------
(* Requests that arrive, or move without writing.                          *)

\* A request that arrives holding nothing.
LEMMA Arrives ==
  ASSUME IInv, NEW r \in Requests, NEW s \in RequestType, Shape(s), Begin(r, s),
         s.op \notin {"suspend", "reset", "refresh"}, ~Inserts(s), ~Locks(s),
         UNCHANGED <<account, tokens, issued, links, mailed, spent>>
  PROVE  IInv'
<1>1. Lasting(s) /\ \A u : Apart(s, u)
  BY DEF Lasting, Apart, Inserts, Locks
<1> QED BY <1>1, OnlyRequest DEF Begin

\* A link is asked for.
LEMMA RequestLinkKeeps ==
  ASSUME IInv, NEW r \in Requests, NEW m \in Members, NEW p \in Purposes, RequestLink(r, m, p)
  PROVE  IInv'
<1> DEFINE s == [NoRequest EXCEPT !.op = "mail", !.pc = "checked", !.member = m, !.purpose = p]
<1>1. s \in RequestType /\ Shape(s) /\ s.op = "mail" /\ ~Inserts(s) /\ ~Locks(s)
  BY Constants DEF NoRequest, RequestType, Shape, Ops, Places, Inserts, Locks
<1>2. Begin(r, s) /\ UNCHANGED <<account, tokens, issued, links, mailed, spent>>
  BY DEF RequestLink
<1> HIDE DEF s
<1> QED BY <1>1, <1>2, Arrives

\* A login has passed its checks.
LEMMA LoginKeeps ==
  ASSUME IInv, NEW r \in Requests, NEW m \in Members, Login(r, m)
  PROVE  IInv'
<1> DEFINE s == [NoRequest EXCEPT !.op = "login", !.pc = "checked", !.member = m]
<1>1. s \in RequestType /\ Shape(s) /\ s.op = "login" /\ ~Inserts(s) /\ ~Locks(s)
  BY Constants DEF NoRequest, RequestType, Shape, Ops, Places, Inserts, Locks
<1>2. Begin(r, s) /\ UNCHANGED <<account, tokens, issued, links, mailed, spent>>
  BY DEF Login
<1> HIDE DEF s
<1> QED BY <1>1, <1>2, Arrives

\* A refresh finds its token live.
LEMMA ValidateTokenKeeps ==
  ASSUME IInv, NEW r \in Requests, NEW t \in Token, ValidateToken(r, t)
  PROVE  IInv'
<1> DEFINE m == tokens[t].member
           s == [NoRequest EXCEPT !.op = "refresh", !.pc = "checked", !.member = m, !.token = t]
<1>1. m \in Members /\ t <= issued
  BY Constants DEF IInv, Typed, TokenRows, NoToken, ValidateToken
<1>2. request' = [request EXCEPT ![r] = s] /\ UNCHANGED <<account, tokens, issued, links, mailed, spent>>
  BY DEF ValidateToken, Begin
<1>m. m = tokens[t].member
  OBVIOUS
<1> HIDE DEF m
<1>3. s \in RequestType /\ Shape(s) /\ s.op = "refresh" /\ s.pc = "checked" /\ s.token = t /\ s.member = m
  BY <1>1, Constants DEF NoRequest, RequestType, Shape, Ops, Places
<1> HIDE DEF s
<1>4. Lasting(s) /\ \A u : Apart(s, u)
  BY <1>1, <1>3, <1>m DEF Lasting, Apart, Inserts, Locks
<1> QED BY <1>2, <1>3, <1>4, OnlyRequest

\* A password change has passed its check.
LEMMA ChangePasswordKeeps ==
  ASSUME IInv, NEW r \in Requests, NEW m \in Members, ChangePassword(r, m)
  PROVE  IInv'
<1> DEFINE s == [NoRequest EXCEPT !.op = "change", !.pc = "checked", !.member = m]
<1>1. s \in RequestType /\ Shape(s) /\ s.op = "change" /\ ~Inserts(s) /\ ~Locks(s)
  BY Constants DEF NoRequest, RequestType, Shape, Ops, Places, Inserts, Locks
<1>2. Begin(r, s) /\ UNCHANGED <<account, tokens, issued, links, mailed, spent>>
  BY DEF ChangePassword
<1> HIDE DEF s
<1> QED BY <1>1, <1>2, Arrives

\* A Member asks for the erasure of the account.
LEMMA EraseSelfKeeps ==
  ASSUME IInv, NEW r \in Requests, NEW m \in Members, EraseSelf(r, m)
  PROVE  IInv'
<1> DEFINE w == account[m].password
           s == [NoRequest EXCEPT !.op = "erase", !.pc = "checked", !.member = m, !.password = w]
<1>1. w \in 0 .. MaxPasswords
  BY DEF IInv, Typed, AccountType
<1>2. Begin(r, s) /\ UNCHANGED <<account, tokens, issued, links, mailed, spent>>
  BY DEF EraseSelf
<1> HIDE DEF w
<1>3. s \in RequestType /\ Shape(s) /\ s.op = "erase" /\ ~Inserts(s) /\ ~Locks(s)
  BY <1>1, Constants DEF NoRequest, RequestType, Shape, Ops, Places, Inserts, Locks
<1> HIDE DEF s
<1> QED BY <1>2, <1>3, Arrives

\* A reset locks its link.
LEMMA ConsumeResetKeeps ==
  ASSUME IInv, NEW r \in Requests, NEW m \in Members, ConsumeReset(r, m)
  PROVE  IInv'
<1> DEFINE l == links[m]["password_reset"]
           s == [NoRequest EXCEPT !.op = "reset", !.pc = "consumed", !.member = m, !.link = l]
<1>1. l \in 0 .. MaxLinks /\ l # 0 /\ LinkFree(l)
  BY DEF IInv, Typed, Purposes, ConsumeReset
<1>2. request' = [request EXCEPT ![r] = s] /\ UNCHANGED <<account, tokens, issued, links, mailed, spent>>
  BY DEF ConsumeReset, Begin
<1>3. l = links[m]["password_reset"]
  OBVIOUS
<1> HIDE DEF l
<1>4. /\ s \in RequestType /\ Shape(s) /\ s.op = "reset" /\ s.pc = "consumed"
      /\ s.member = m /\ s.link = l
  BY <1>1, Constants DEF NoRequest, RequestType, Shape, Ops, Places
<1> HIDE DEF s
<1>5. Lasting(s)
  BY <1>1, <1>3, <1>4 DEF Lasting, Inserts, Locks
<1>6. \A q \in Requests \ {r} : Apart(s, request[q])
  BY <1>1, <1>4 DEF IInv, Shapes, Shape, LinkFree, HoldsLink, Apart, Inserts, Locks
<1> QED BY <1>2, <1>4, <1>5, <1>6, OnlyRequest

\* The row of a Member is locked by nobody: nobody relies on it.
LEMMA FreeRow ==
  ASSUME NEW m \in Members, RowFree(m), NEW q \in Requests, Locks(request[q])
  PROVE  request[q].member # m
BY DEF RowFree, HoldsRow, UpdatesRow, Locks

\* The foreign-key check waits for nobody: no suspension, deletion or erasure is under way.
LEMMA FreeKey ==
  ASSUME NEW m \in Members, KeyFree(m), NEW q \in Requests, Locks(request[q]), request[q].op # "reset"
  PROVE  request[q].member # m
BY DEF KeyFree, HoldsRow, Locks

\* A lifecycle transaction locks the row of a Member and finds what it checks.
LEMMA LockKeeps ==
  ASSUME IInv, NEW r \in Requests, NEW m \in Members, NEW op \in {"suspend", "delete"}, Lock(r, m, op),
         Present(m), op = "suspend" => account[m].status = "active"
  PROVE  IInv'
<1> DEFINE s == [NoRequest EXCEPT !.op = op, !.pc = "locked", !.member = m]
<1>1. s \in RequestType /\ Shape(s) /\ s.op = op /\ s.pc = "locked" /\ s.member = m
  BY Constants DEF NoRequest, RequestType, Shape, Ops, Places
<1>2. request' = [request EXCEPT ![r] = s] /\ UNCHANGED <<account, tokens, issued, links, mailed, spent>>
  BY DEF Lock, Begin
<1> HIDE DEF s
<1>3. Lasting(s)
  BY <1>1 DEF Lasting, Inserts, Locks
<1>4. \A q \in Requests \ {r} : Apart(s, request[q])
  BY <1>1, FreeRow DEF Apart, Inserts, Lock
<1> QED BY <1>1, <1>2, <1>3, <1>4, OnlyRequest

\* A suspension locks an active account.
LEMMA SuspendKeeps ==
  ASSUME IInv, NEW r \in Requests, NEW m \in Members, Suspend(r, m)
  PROVE  IInv'
BY LockKeeps DEF Suspend, Present

\* A deletion by Staff locks an account that is there.
LEMMA DeleteMemberKeeps ==
  ASSUME IInv, NEW r \in Requests, NEW m \in Members, DeleteMember(r, m)
  PROVE  IInv'
BY LockKeeps DEF DeleteMember

\* A request that advances keeps what it carries.
LEMMA Advances ==
  ASSUME IInv, NEW r \in Requests, NEW pc \in Places
  PROVE  LET s == [request[r] EXCEPT !.pc = pc] IN
         /\ s \in RequestType /\ s.pc = pc /\ s.op = request[r].op /\ s.member = request[r].member
         /\ s.token = request[r].token /\ s.link = request[r].link
         /\ s.password = request[r].password /\ s.seen = request[r].seen /\ s.purpose = request[r].purpose
         /\ Advance(r, pc) => request' = [request EXCEPT ![r] = s]
BY DEF IInv, Typed, RequestType, Advance

\* A rotation consumes its token, or finds it consumed.
LEMMA ConsumeTokenKeeps ==
  ASSUME IInv, NEW r \in Requests, ConsumeToken(r)
  PROVE  IInv'
<1> DEFINE s == [request[r] EXCEPT !.pc = "inserting"]
<1>1. /\ s \in RequestType /\ s.pc = "inserting" /\ s.op = request[r].op /\ s.member = request[r].member
      /\ s.token = request[r].token
      /\ Advance(r, "inserting") => request' = [request EXCEPT ![r] = s]
  BY Advances DEF Places
<1> HIDE DEF s
<1>2. request[r].op = "refresh" /\ request[r].pc = "checked" /\ Shape(request[r])
  BY DEF IInv, Shapes, ConsumeToken, At
<1>3. CASE tokens[request[r].token].state # "live"
  BY <1>3, OnlyAnswers DEF ConsumeToken
<1>4. CASE tokens[request[r].token].state = "live"
  <2>1. Shape(s)
    BY <1>1, <1>2 DEF Shape
  <2>2. Lasting(s)
    BY <1>1, <1>2, <1>4 DEF IInv, Standing, Lasting, Inserts, Locks
  <2>3. \A q \in Requests \ {r} : Apart(s, request[q])
    BY <1>1, <1>2 DEF ConsumeToken, TokenFree, HoldsToken, At, Apart, Inserts, Locks
  <2> QED BY <1>1, <1>4, <2>1, <2>2, <2>3, OnlyRequest DEF ConsumeToken
<1> QED BY <1>3, <1>4

\* A reset locks the account.
LEMMA ResetPasswordKeeps ==
  ASSUME IInv, NEW r \in Requests, ResetPassword(r)
  PROVE  IInv'
<1> DEFINE s == [request[r] EXCEPT !.pc = "locked"]
<1>1. /\ s \in RequestType /\ s.pc = "locked" /\ s.op = request[r].op /\ s.member = request[r].member
      /\ s.link = request[r].link
      /\ request' = [request EXCEPT ![r] = s]
  BY Advances DEF Places, ResetPassword
<1> HIDE DEF s
<1>2. /\ request[r].op = "reset" /\ request[r].pc = "consumed" /\ Shape(request[r]) /\ Lasting(request[r])
      /\ RowFree(request[r].member) /\ request[r].member \in Members
  BY DEF IInv, Shapes, Shape, Standing, ResetPassword, At
<1>3. Shape(s)
  BY <1>1, <1>2 DEF Shape
<1>4. Present(s.member)
  BY <1>1, <1>2, Constants DEF Lasting, IInv, ErasedLeavesNothing
<1>5. Lasting(s)
  BY <1>1, <1>2, <1>4 DEF Lasting, Inserts, Locks
<1>6. \A q \in Requests \ {r} : Apart(s, request[q])
  BY <1>1, <1>2, FreeRow DEF IInv, Exclusive, Apart, Inserts
<1> QED BY <1>1, <1>3, <1>5, <1>6, OnlyRequest DEF ResetPassword

\* The transaction of an erasure locks the account and checks it again.
LEMMA EraseLocksKeeps ==
  ASSUME IInv, NEW r \in Requests, EraseLocks(r)
  PROVE  IInv'
<1> DEFINE s == [request[r] EXCEPT !.pc = "locked"]
<1>1. /\ s \in RequestType /\ s.pc = "locked" /\ s.op = request[r].op /\ s.member = request[r].member
      /\ s.password = request[r].password
      /\ Advance(r, "locked") => request' = [request EXCEPT ![r] = s]
  BY Advances DEF Places
<1> HIDE DEF s
<1>2. /\ request[r].op = "erase" /\ request[r].pc = "checked" /\ Shape(request[r])
      /\ RowFree(request[r].member) /\ request[r].member \in Members
  BY DEF IInv, Shapes, Shape, EraseLocks, At
<1>3. CASE ~MayErase(r)
  BY <1>3, OnlyAnswers DEF EraseLocks
<1>4. CASE MayErase(r)
  <2>1. Shape(s)
    BY <1>1, <1>2 DEF Shape
  <2>2. Lasting(s)
    BY <1>1, <1>2, <1>4 DEF MayErase, Present, Lasting, Inserts, Locks
  <2>3. \A q \in Requests \ {r} : Apart(s, request[q])
    BY <1>1, <1>2, FreeRow DEF Apart, Inserts
  <2> QED BY <1>1, <1>4, <2>1, <2>2, <2>3, OnlyRequest DEF EraseLocks
<1> QED BY <1>3, <1>4

\* A revocation sees the live tokens of the Member.
LEMMA StartRevocationKeeps ==
  ASSUME IInv, NEW r \in Requests, StartRevocation(r)
  PROVE  IInv'
<1> DEFINE v == LiveTokens(request[r].member)
           s == [request[r] EXCEPT !.pc = "revoking", !.seen = v]
<1>1. v \in SUBSET Token /\ \A t \in Token : tokens[t].member = request[r].member /\ tokens[t].state = "live" => t \in v
  BY DEF LiveTokens
<1>2. request' = [request EXCEPT ![r].pc = "revoking", ![r].seen = v]
  BY DEF StartRevocation
<1> HIDE DEF v
<1>3. request' = [request EXCEPT ![r] = s]
  BY <1>2 DEF IInv, Typed, RequestType
<1>4. /\ s \in RequestType /\ s.pc = "revoking" /\ s.op = request[r].op /\ s.member = request[r].member
      /\ s.token = request[r].token /\ s.link = request[r].link /\ s.seen = v
  BY <1>1 DEF IInv, Typed, RequestType, Places
<1> HIDE DEF s
<1>5. /\ \/ request[r].op = "change" /\ request[r].pc = "changed"
         \/ request[r].op \in {"reset", "suspend"} /\ request[r].pc = "locked"
      /\ Shape(request[r]) /\ Lasting(request[r])
  BY DEF IInv, Shapes, Standing, StartRevocation, Revokes, At
<1>6. Shape(s)
  BY <1>4, <1>5 DEF Shape
<1>7. Lasting(s)
  BY <1>1, <1>4, <1>5 DEF Lasting, Inserts, Locks
<1>8. \A q \in Requests \ {r} : Apart(s, request[q])
  BY <1>4, <1>5 DEF IInv, Exclusive, Apart, Inserts, Locks
<1> QED BY <1>3, <1>4, <1>6, <1>7, <1>8, OnlyRequest DEF StartRevocation

\* A transaction is chosen as the victim of a deadlock and rolled back.
LEMMA DeadlockAbortsKeeps ==
  ASSUME IInv, NEW r \in Requests, DeadlockAborts(r)
  PROVE  IInv'
BY OnlyAnswers DEF DeadlockAborts

\* A statement fails, or the process dies.
LEMMA FailsKeeps ==
  ASSUME IInv, NEW r \in Requests, Fails(r)
  PROVE  IInv'
BY OnlyAnswers DEF Fails

-----------------------------------------------------------------------------
(* Steps that write accounts and links.                                    *)

\* No request moves.
LEMMA NoneMoves ==
  ASSUME IInv, request' = request, \A q \in Requests : Lasting(request[q])'
  PROVE  Standing' /\ Shapes' /\ Exclusive' /\ request' \in [Requests -> RequestType]
<1>1. Shapes'
  BY DEF IInv, Shapes, Shape, NoRequest
<1>2. Exclusive'
  BY DEF IInv, Exclusive, Apart, Inserts, Locks
<1> QED BY <1>1, <1>2 DEF IInv, Typed, Standing

\* What depends on the tokens alone.
LEMMA TokensStay ==
  ASSUME IInv, UNCHANGED <<tokens, issued>>
  PROVE  TokenRows' /\ tokens' \in [Token -> TokenType] /\ issued' \in 0 .. MaxTokens
BY DEF IInv, Typed, TokenRows, NoToken

\* What depends on the links alone.
LEMMA LinksStay ==
  ASSUME IInv, UNCHANGED <<links, mailed, spent>>
  PROVE  /\ LinkTable' /\ LinkSpentOnce' /\ links' \in [Members -> [Purposes -> 0 .. MaxLinks]]
         /\ mailed' \in 0 .. MaxLinks /\ spent' \in [Link -> Nat]
BY DEF IInv, Typed, LinkTable, LinkSpentOnce

\* The account of one Member is written.
LEMMA AccountWritten ==
  ASSUME IInv, NEW m \in Members, NEW a \in AccountType, account' = [account EXCEPT ![m] = a],
         a.status \in {"active", "suspended"} => a.verified
  PROVE  /\ account' \in [Members -> AccountType] /\ ActiveIsVerified'
         /\ account'[m] = a /\ \A n \in Members \ {m} : account'[n] = account[n]
<1>1. /\ account' \in [Members -> AccountType]
      /\ account'[m] = a /\ \A n \in Members \ {m} : account'[n] = account[n]
  BY DEF IInv, Typed
<1> QED BY <1>1 DEF IInv, ActiveIsVerified

\* An account appears, unverified: nobody has relied on it.
LEMMA SignUpKeeps ==
  ASSUME IInv, NEW m \in Members, SignUp(m)
  PROVE  IInv'
<1> DEFINE a == [status |-> "unverified", verified |-> FALSE, password |-> 1]
<1>1. a \in AccountType /\ a.status = "unverified"
  BY Constants DEF AccountType
<1>2. /\ account' = [account EXCEPT ![m] = a] /\ account[m].status = "none"
      /\ UNCHANGED <<tokens, issued, links, mailed, spent, request>>
  BY DEF SignUp
<1> HIDE DEF a
<1>3. /\ account' \in [Members -> AccountType] /\ ActiveIsVerified'
      /\ account'[m] = a /\ \A n \in Members \ {m} : account'[n] = account[n]
  BY <1>1, <1>2, AccountWritten
<1>4. \A q \in Requests : Lasting(request[q])'
  <2> SUFFICES ASSUME NEW q \in Requests PROVE Lasting(request[q])'
    OBVIOUS
  <2>1. Lasting(request[q]) /\ Shape(request[q])
    BY DEF IInv, Standing, Shapes
  <2>2. Locks(request[q]) => request[q].member \in Members \ {m}
    BY <1>2, <2>1 DEF Lasting, Shape, Present, Locks
  <2> QED BY <1>2, <1>3, <2>1, <2>2 DEF Lasting, Shape, Present, Inserts, Locks
<1>5. ErasedLeavesNothing'
  BY <1>1, <1>2, <1>3 DEF IInv, ErasedLeavesNothing, Present
<1> QED BY <1>2, <1>3, <1>4, <1>5, NoneMoves, TokensStay, LinksStay DEF IInv, Typed

\* A Member is reinstated: nobody holds the row.
LEMMA ReinstateKeeps ==
  ASSUME IInv, NEW m \in Members, Reinstate(m)
  PROVE  IInv'
<1> DEFINE a == [account[m] EXCEPT !.status = "active"]
<1>1. a \in AccountType /\ a.status = "active" /\ a.verified = account[m].verified
  BY DEF IInv, Typed, AccountType
<1>2. /\ account' = [account EXCEPT ![m] = a] /\ account[m].status = "suspended" /\ RowFree(m)
      /\ UNCHANGED <<tokens, issued, links, mailed, spent, request>>
  BY DEF Reinstate
<1> HIDE DEF a
<1>3. a.verified
  BY <1>1, <1>2 DEF IInv, ActiveIsVerified
<1>4. /\ account' \in [Members -> AccountType] /\ ActiveIsVerified'
      /\ account'[m] = a /\ \A n \in Members \ {m} : account'[n] = account[n]
  BY <1>1, <1>2, <1>3, AccountWritten
<1>5. \A q \in Requests : Lasting(request[q])'
  <2> SUFFICES ASSUME NEW q \in Requests PROVE Lasting(request[q])'
    OBVIOUS
  <2>1. Lasting(request[q]) /\ Shape(request[q])
    BY DEF IInv, Standing, Shapes
  <2>2. Locks(request[q]) => request[q].member \in Members \ {m}
    BY <1>2, <2>1, FreeRow DEF Shape, Locks
  <2> QED BY <1>2, <1>4, <2>1, <2>2 DEF Lasting, Shape, Present, Inserts, Locks
<1>6. ErasedLeavesNothing'
  BY <1>1, <1>2, <1>4 DEF IInv, ErasedLeavesNothing, Present
<1> QED BY <1>2, <1>4, <1>5, <1>6, NoneMoves, TokensStay, LinksStay DEF IInv, Typed

\* The account of a consumed link is confirmed: nobody holds the row.
LEMMA MarkVerifiedKeeps ==
  ASSUME IInv, NEW r \in Requests, MarkVerified(r)
  PROVE  IInv'
<1> DEFINE m == request[r].member
           status == IF account[m].status = "unverified" THEN "active" ELSE account[m].status
           a == IF Present(m) THEN [account[m] EXCEPT !.verified = TRUE, !.status = status] ELSE account[m]
<1>1. m \in Members /\ RowFree(m) /\ UNCHANGED <<tokens, issued, links, mailed, spent>> /\ Answer(r)
  BY DEF IInv, Shapes, Shape, MarkVerified, At
<1>2. account' = [account EXCEPT ![m] = a]
  BY <1>1 DEF MarkVerified, IInv, Typed, AccountType
<1>3. /\ a \in AccountType /\ (a.status \in {"active", "suspended"} => a.verified)
      /\ (a.status \in {"unverified", "active", "suspended"} <=> Present(m))
  BY <1>1 DEF IInv, Typed, AccountType, ActiveIsVerified, Present
<1> HIDE DEF a, status, m
<1>4. /\ account' \in [Members -> AccountType] /\ ActiveIsVerified'
      /\ account'[m] = a /\ \A n \in Members \ {m} : account'[n] = account[n]
  BY <1>1, <1>2, <1>3, AccountWritten
<1>5. \A n \in Members : Present(n)' <=> Present(n)
  BY <1>3, <1>4 DEF Present
<1>6. \A q \in Requests \ {r} : Lasting(request[q])'
  <2> SUFFICES ASSUME NEW q \in Requests \ {r} PROVE Lasting(request[q])'
    OBVIOUS
  <2>1. Lasting(request[q]) /\ Shape(request[q]) /\ request'[q] = request[q]
    BY <1>1, Answers DEF IInv, Standing, Shapes
  <2>2. Locks(request[q]) => request[q].member \in Members \ {m}
    BY <1>1, <2>1, FreeRow DEF Shape, Locks
  <2> QED BY <1>1, <1>4, <2>1, <2>2 DEF Lasting, Shape, Present, Inserts, Locks
<1>7. ErasedLeavesNothing'
  BY <1>1, <1>5 DEF IInv, ErasedLeavesNothing
<1> QED BY <1>1, <1>4, <1>6, <1>7, Answered, TokensStay, LinksStay DEF IInv, Typed

\* The new password is stored: nobody holds the row.
LEMMA StorePasswordKeeps ==
  ASSUME IInv, NEW r \in Requests, StorePassword(r)
  PROVE  IInv'
<1> DEFINE m == request[r].member
           w == IF Present(m) /\ account[m].password < MaxPasswords THEN account[m].password + 1
                ELSE account[m].password
           a == [account[m] EXCEPT !.password = w]
           s == [request[r] EXCEPT !.pc = "changed"]
<1>1. /\ m \in Members /\ RowFree(m) /\ UNCHANGED <<tokens, issued, links, mailed, spent>>
      /\ request[r].op = "change" /\ request[r].pc = "checked" /\ Shape(request[r])
  BY DEF IInv, Shapes, Shape, StorePassword, At
<1>2. account[m] \in AccountType /\ w \in 0 .. MaxPasswords
  BY <1>1, Constants DEF IInv, Typed, AccountType
<1>3. account' = [account EXCEPT ![m] = a]
  BY <1>1, <1>2 DEF StorePassword, IInv, Typed, AccountType
<1>4. /\ s \in RequestType /\ s.pc = "changed" /\ s.op = request[r].op /\ s.member = request[r].member
      /\ request' = [request EXCEPT ![r] = s]
  BY Advances DEF Places, StorePassword
<1> HIDE DEF s, w
<1>5. a \in AccountType /\ a.status = account[m].status /\ a.verified = account[m].verified
  BY <1>2 DEF AccountType
<1> HIDE DEF a, m
<1>6. a.status \in {"active", "suspended"} => a.verified
  BY <1>1, <1>5 DEF IInv, ActiveIsVerified
<1>7. /\ account' \in [Members -> AccountType] /\ ActiveIsVerified'
      /\ account'[m] = a /\ \A n \in Members \ {m} : account'[n] = account[n]
  BY <1>1, <1>3, <1>5, <1>6, AccountWritten
<1>8. Shape(s) /\ \A u : Apart(s, u)
  BY <1>1, <1>4 DEF Shape, Apart, Inserts, Locks
<1>9. /\ Shapes' /\ Exclusive' /\ request' \in [Requests -> RequestType]
      /\ request'[r] = s /\ \A q \in Requests \ {r} : request'[q] = request[q]
  BY <1>4, <1>8, Moves
<1>10. Standing'
  <2> SUFFICES ASSUME NEW q \in Requests PROVE Lasting(request[q])'
    BY DEF Standing
  <2>1. CASE q = r
    BY <1>1, <1>4, <1>9, <2>1 DEF Lasting, Inserts, Locks
  <2>2. CASE q # r
    <3>1. Lasting(request[q]) /\ Shape(request[q]) /\ request'[q] = request[q]
      BY <1>9, <2>2 DEF IInv, Standing, Shapes
    <3>2. Locks(request[q]) => request[q].member \in Members \ {m}
      BY <1>1, <3>1, FreeRow DEF Shape, Locks
    <3> QED BY <1>1, <1>7, <3>1, <3>2 DEF Lasting, Shape, Present, Inserts, Locks
  <2> QED BY <2>1, <2>2
<1>11. \A n \in Members : Present(n)' <=> Present(n)
  BY <1>5, <1>7 DEF Present
<1>12. ErasedLeavesNothing'
  BY <1>1, <1>11 DEF IInv, ErasedLeavesNothing
<1> QED BY <1>1, <1>7, <1>9, <1>10, <1>12, TokensStay, LinksStay DEF IInv, Typed

\* One outstanding link is written: it goes, or a new one supersedes it.
LEMMA LinkWritten ==
  ASSUME IInv, NEW m \in Members, NEW p \in Purposes, NEW l \in 0 .. MaxLinks,
         links' = [links EXCEPT ![m][p] = l]
  PROVE  /\ links' \in [Members -> [Purposes -> 0 .. MaxLinks]] /\ links'[m][p] = l
         /\ \A n \in Members, q \in Purposes : n # m \/ q # p => links'[n][q] = links[n][q]
BY DEF IInv, Typed

\* A reset that holds no free link is not concerned by what happens to that link.
LEMMA FreeLink ==
  ASSUME IInv, NEW m \in Members, NEW p \in Purposes, LinkFree(links[m][p]), NEW q \in Requests,
         request[q].op = "reset"
  PROVE  request[q].member # m \/ "password_reset" # p
<1>1. /\ Shape(request[q]) /\ request[q].link # links[m][p]
      /\ links[request[q].member]["password_reset"] = request[q].link
  BY DEF IInv, Shapes, Shape, Standing, Lasting, LinkFree, HoldsLink
<1> QED BY <1>1

\* A link expires.
LEMMA LinkExpiresKeeps ==
  ASSUME IInv, NEW m \in Members, NEW p \in Purposes, LinkExpires(m, p)
  PROVE  IInv'
<1>1. /\ links' = [links EXCEPT ![m][p] = 0] /\ LinkFree(links[m][p])
      /\ UNCHANGED <<account, tokens, issued, mailed, spent, request>>
  BY DEF LinkExpires
<1>2. /\ links' \in [Members -> [Purposes -> 0 .. MaxLinks]] /\ links'[m][p] = 0
      /\ \A n \in Members, q \in Purposes : n # m \/ q # p => links'[n][q] = links[n][q]
  BY <1>1, Constants DEF IInv, Typed
<1>3. \A q \in Requests : Lasting(request[q])'
  <2> SUFFICES ASSUME NEW q \in Requests PROVE Lasting(request[q])'
    OBVIOUS
  <2>1. Lasting(request[q]) /\ Shape(request[q])
    BY DEF IInv, Standing, Shapes
  <2>2. request[q].op = "reset" => links'[request[q].member]["password_reset"] = links[request[q].member]["password_reset"]
    BY <1>1, <1>2, <2>1, FreeLink, Constants DEF Shape
  <2> QED BY <1>1, <2>1, <2>2 DEF Lasting, Present, Inserts, Locks
<1>4. LinkTable' /\ LinkSpentOnce' /\ mailed' \in 0 .. MaxLinks /\ spent' \in [Link -> Nat]
  BY <1>1, <1>2 DEF IInv, Typed, LinkTable, LinkSpentOnce
<1>5. ErasedLeavesNothing' /\ ActiveIsVerified' /\ account' \in [Members -> AccountType]
  BY <1>1, <1>2 DEF IInv, Typed, ErasedLeavesNothing, ActiveIsVerified, Present
<1> QED BY <1>1, <1>2, <1>3, <1>4, <1>5, NoneMoves, TokensStay DEF IInv, Typed

\* A link is issued, and supersedes the outstanding one.
LEMMA IssueLinkKeeps ==
  ASSUME IInv, NEW r \in Requests, IssueLink(r)
  PROVE  IInv'
<1> DEFINE m == request[r].member
           p == request[r].purpose
           l == mailed + 1
<1>1. m \in Members /\ p \in Purposes /\ Answer(r) /\ UNCHANGED <<account, tokens, issued, spent>>
  BY DEF IInv, Shapes, Shape, IssueLink, At
<1>2. CASE UNCHANGED <<links, mailed>>
  BY <1>1, <1>2, OnlyAnswers
<1>3. CASE Present(m) /\ mailed < MaxLinks
  <2>1. /\ LinkFree(links[m][p]) /\ mailed' = l /\ links' = [links EXCEPT ![m][p] = l]
    BY <1>3 DEF IssueLink
  <2>2. l \in 0 .. MaxLinks /\ l \in Link /\ l > mailed /\ mailed \in 0 .. MaxLinks
    BY <1>3, Constants DEF IInv, Typed
  <2> HIDE DEF m, p
  <2>3. /\ links' \in [Members -> [Purposes -> 0 .. MaxLinks]] /\ links'[m][p] = l
        /\ \A n \in Members, q \in Purposes : n # m \/ q # p => links'[n][q] = links[n][q]
    <3> HIDE DEF l
    <3> QED BY <1>1, <2>1, <2>2, LinkWritten
  <2>4. \A q \in Requests \ {r} : Lasting(request[q])'
    <3> SUFFICES ASSUME NEW q \in Requests \ {r} PROVE Lasting(request[q])'
      OBVIOUS
    <3>1. Lasting(request[q]) /\ Shape(request[q]) /\ request'[q] = request[q]
      BY <1>1, Answers DEF IInv, Standing, Shapes
    <3>2. request[q].op = "reset" => links'[request[q].member]["password_reset"] = links[request[q].member]["password_reset"]
      BY <1>1, <2>1, <2>3, <3>1, FreeLink, Constants DEF Shape
    <3> QED BY <1>1, <3>1, <3>2 DEF Lasting, Present, Inserts, Locks
  <2>5. \A n \in Members, q \in Purposes : links[n][q] \in Nat /\ links[n][q] <= mailed
    BY <2>2, Constants DEF IInv, Typed, LinkTable
  <2>6. LinkTable'
    <3>1. ASSUME NEW n \in Members, NEW q \in Purposes, links'[n][q] # 0
          PROVE  /\ links'[n][q] <= mailed' /\ spent[links'[n][q]] = 0
                 /\ \A k \in Members, u \in Purposes : links'[k][u] = links'[n][q] => k = n /\ u = q
      <4>1. CASE n = m /\ q = p
        BY <2>1, <2>2, <2>3, <2>5, <4>1 DEF IInv, LinkTable
      <4>2. CASE n # m \/ q # p
        <5>1. links'[n][q] = links[n][q] /\ links[n][q] <= mailed /\ links[n][q] \in Nat
          BY <2>3, <2>5, <4>2
        <5>2. spent[links[n][q]] = 0 /\ \A k \in Members, u \in Purposes : links[k][u] = links[n][q] => k = n /\ u = q
          BY <3>1, <5>1 DEF IInv, LinkTable
        <5>3. links[n][q] # l
          BY <2>2, <5>1
        <5> QED BY <2>1, <2>2, <2>3, <5>1, <5>2, <5>3
      <4> QED BY <4>1, <4>2
    <3>2. \A k \in Link : k > mailed' => spent[k] = 0
      BY <2>1, <2>2, Constants DEF IInv, LinkTable
    <3> QED BY <1>1, <3>1, <3>2 DEF LinkTable
  <2>7. LinkSpentOnce' /\ spent' \in [Link -> Nat] /\ mailed' \in 0 .. MaxLinks
    BY <1>1, <2>1, <2>2 DEF IInv, Typed, LinkSpentOnce
  <2>8. ErasedLeavesNothing' /\ ActiveIsVerified' /\ account' \in [Members -> AccountType]
    BY <1>1, <1>3, <2>3 DEF IInv, Typed, ErasedLeavesNothing, ActiveIsVerified, Present
  <2> QED BY <1>1, <2>3, <2>4, <2>6, <2>7, <2>8, Answered, TokensStay DEF IInv, Typed
<1> QED BY <1>2, <1>3 DEF IssueLink

\* A link that is outstanding is spent.
LEMMA LinkSpent ==
  ASSUME IInv, NEW m \in Members, NEW p \in Purposes, links[m][p] # 0,
         links' = [links EXCEPT ![m][p] = 0], mailed' = mailed,
         spent' = [spent EXCEPT ![links[m][p]] = @ + 1]
  PROVE  /\ links' \in [Members -> [Purposes -> 0 .. MaxLinks]]
         /\ \A n \in Members, q \in Purposes : n # m \/ q # p => links'[n][q] = links[n][q]
         /\ links'[m][p] = 0
         /\ LinkTable' /\ LinkSpentOnce' /\ mailed' \in 0 .. MaxLinks /\ spent' \in [Link -> Nat]
<1> DEFINE l == links[m][p]
<1>1. /\ links' \in [Members -> [Purposes -> 0 .. MaxLinks]] /\ links'[m][p] = 0
      /\ \A n \in Members, q \in Purposes : n # m \/ q # p => links'[n][q] = links[n][q]
  BY Constants DEF IInv, Typed
<1>2. l \in Link /\ l <= mailed /\ spent[l] = 0 /\ spent \in [Link -> Nat] /\ mailed \in 0 .. MaxLinks
  BY Constants DEF IInv, Typed, LinkTable
<1>3. spent' \in [Link -> Nat] /\ spent'[l] = 1 /\ \A k \in Link \ {l} : spent'[k] = spent[k]
  BY <1>2
<1>4. \A n \in Members, q \in Purposes : links'[n][q] # 0 => links'[n][q] = links[n][q] /\ links[n][q] # l
  BY <1>1 DEF IInv, LinkTable
<1>5. \A n \in Members, q \in Purposes : links[n][q] # 0 => links[n][q] \in Link
  BY Constants DEF IInv, Typed
<1> HIDE DEF l
<1>6. ASSUME NEW n \in Members, NEW q \in Purposes, links'[n][q] # 0
      PROVE  /\ links'[n][q] <= mailed' /\ spent'[links'[n][q]] = 0
             /\ \A k \in Members, u \in Purposes : links'[k][u] = links'[n][q] => k = n /\ u = q
  <2>1. links'[n][q] = links[n][q] /\ links[n][q] \in Link \ {l} /\ links[n][q] # 0
    BY <1>4, <1>5, <1>6
  <2>2. /\ links[n][q] <= mailed /\ spent[links[n][q]] = 0
        /\ \A k \in Members, u \in Purposes : links[k][u] = links[n][q] => k = n /\ u = q
    BY <2>1 DEF IInv, LinkTable
  <2>3. \A k \in Members, u \in Purposes : links'[k][u] = links[n][q] => links[k][u] = links[n][q]
    BY <1>4, <2>1
  <2> QED BY <1>3, <2>1, <2>2, <2>3
<1>7. \A k \in Link : k > mailed' => spent'[k] = 0
  BY <1>2, <1>3, Constants DEF IInv, LinkTable
<1>8. LinkTable'
  BY <1>6, <1>7 DEF LinkTable
<1>9. LinkSpentOnce'
  BY <1>3 DEF IInv, LinkSpentOnce
<1> QED BY <1>1, <1>2, <1>3, <1>8, <1>9

\* A verification link is consumed.
LEMMA ConsumeVerificationKeeps ==
  ASSUME IInv, NEW r \in Requests, NEW m \in Members, ConsumeVerification(r, m)
  PROVE  IInv'
<1> DEFINE l == links[m]["email_verification"]
           s == [NoRequest EXCEPT !.op = "verify", !.pc = "consumed", !.member = m, !.link = l]
<1>1. /\ l \in 0 .. MaxLinks /\ l # 0 /\ links' = [links EXCEPT ![m]["email_verification"] = 0]
      /\ spent' = [spent EXCEPT ![l] = @ + 1] /\ UNCHANGED <<account, tokens, issued, mailed>>
      /\ request' = [request EXCEPT ![r] = s]
  BY DEF IInv, Typed, Purposes, ConsumeVerification, Begin
<1>2. /\ links' \in [Members -> [Purposes -> 0 .. MaxLinks]]
      /\ \A n \in Members, q \in Purposes : n # m \/ q # "email_verification" => links'[n][q] = links[n][q]
      /\ links'[m]["email_verification"] = 0
      /\ LinkTable' /\ LinkSpentOnce' /\ mailed' \in 0 .. MaxLinks /\ spent' \in [Link -> Nat]
  BY <1>1, LinkSpent, Constants
<1> HIDE DEF l
<1>3. s \in RequestType /\ Shape(s) /\ s.op = "verify" /\ s.pc = "consumed"
  BY <1>1, Constants DEF NoRequest, RequestType, Shape, Ops, Places
<1> HIDE DEF s
<1>4. \A u : Apart(s, u)
  BY <1>3 DEF Apart, Inserts, Locks
<1>5. /\ Shapes' /\ Exclusive' /\ request' \in [Requests -> RequestType]
      /\ request'[r] = s /\ \A q \in Requests \ {r} : request'[q] = request[q]
  BY <1>1, <1>3, <1>4, Moves
<1>6. Standing'
  <2> SUFFICES ASSUME NEW q \in Requests PROVE Lasting(request[q])'
    BY DEF Standing
  <2>1. CASE q = r
    BY <1>3, <1>5, <2>1 DEF Lasting, Inserts, Locks
  <2>2. CASE q # r
    <3>1. Lasting(request[q]) /\ Shape(request[q]) /\ request'[q] = request[q]
      BY <1>5, <2>2 DEF IInv, Standing, Shapes
    <3>2. request[q].op = "reset" => links'[request[q].member]["password_reset"] = links[request[q].member]["password_reset"]
      BY <1>2, <3>1, Constants DEF Shape
    <3> QED BY <1>1, <3>1, <3>2 DEF Lasting, Present, Inserts, Locks
  <2> QED BY <2>1, <2>2
<1>7. ErasedLeavesNothing' /\ ActiveIsVerified' /\ account' \in [Members -> AccountType]
  BY <1>1, <1>2 DEF IInv, Typed, ErasedLeavesNothing, ActiveIsVerified, Present
<1> QED BY <1>2, <1>5, <1>6, <1>7, <1>1, TokensStay DEF IInv, Typed

-----------------------------------------------------------------------------
(* Steps that write tokens.                                                *)

\* The next token to insert has not been issued.
LEMMA NextToken ==
  ASSUME IInv, issued < MaxTokens
  PROVE  /\ issued + 1 \in Token /\ issued + 1 \in 0 .. MaxTokens /\ tokens[issued + 1] = NoToken
         /\ NoToken.state = "none" /\ NoToken.member = "none" /\ NoToken.parent = 0
         /\ \A t \in Token : tokens[t].state # "none" => t <= issued /\ t # issued + 1
         /\ \A t \in Token : t <= issued => t # issued + 1
BY Constants DEF IInv, Typed, TokenRows, NoToken

\* What a login or a rotation inserts.
LEMMA TokenInserted ==
  ASSUME IInv, issued < MaxTokens, NEW m \in Members, NEW t \in 0 .. MaxTokens
  PROVE  /\ Inserted(m, t) \in [Token -> TokenType]
         /\ Inserted(m, t)[issued + 1].member = m /\ Inserted(m, t)[issued + 1].state = "live"
         /\ Inserted(m, t)[issued + 1].parent = t
         /\ \A c \in Token \ {issued + 1} : Inserted(m, t)[c] = tokens[c]
<1> DEFINE row == [member |-> m, state |-> "live", parent |-> t]
<1>1. row \in TokenType /\ row.member = m /\ row.state = "live" /\ row.parent = t
  BY DEF TokenType
<1>2. Inserted(m, t) = [tokens EXCEPT ![issued + 1] = row]
  BY DEF Inserted
<1> HIDE DEF row
<1>3. issued + 1 \in Token
  BY NextToken
<1> QED BY <1>1, <1>2, <1>3 DEF IInv, Typed

\* A request that does not lock the row of m, and does not present a token yet to be
\* issued, relies on nothing that the insertion of a token for m touches.
LEMMA IssueTokenKeeps ==
  ASSUME IInv, NEW r \in Requests, IssueToken(r)
  PROVE  IInv'
<1> DEFINE m == request[r].member
           t == issued + 1
<1>1. m \in Members /\ Answer(r) /\ UNCHANGED <<account, links, mailed, spent>>
  BY DEF IInv, Shapes, Shape, IssueToken, At
<1>2. CASE UNCHANGED <<tokens, issued>>
  BY <1>1, <1>2, OnlyAnswers
<1>3. CASE Present(m) /\ issued < MaxTokens
  <2>1. KeyFree(m) /\ tokens' = Inserted(m, 0) /\ issued' = t
    BY <1>3 DEF IssueToken
  <2>2. /\ t \in Token /\ t \in 0 .. MaxTokens /\ tokens[t] = NoToken
        /\ NoToken.state = "none" /\ NoToken.member = "none" /\ NoToken.parent = 0
        /\ \A c \in Token : tokens[c].state # "none" => c <= issued /\ c # t
        /\ \A c \in Token : c <= issued => c # t
        /\ issued \in Nat /\ issued < t
    BY <1>3, NextToken, Constants DEF IInv, Typed
  <2>3. /\ tokens' \in [Token -> TokenType]
        /\ tokens'[t].member = m /\ tokens'[t].state = "live" /\ tokens'[t].parent = 0
        /\ \A c \in Token \ {t} : tokens'[c] = tokens[c]
    BY <1>1, <1>3, <2>1, TokenInserted, Constants
  <2> HIDE DEF m, t
  <2>4. \A q \in Requests \ {r} : Lasting(request[q])'
    <3> SUFFICES ASSUME NEW q \in Requests \ {r} PROVE Lasting(request[q])'
      OBVIOUS
    <3>1. Lasting(request[q]) /\ Shape(request[q]) /\ request'[q] = request[q]
      BY <1>1, Answers DEF IInv, Standing, Shapes
    <3>2. request[q].op = "refresh" => /\ request[q].token <= issued' /\ request[q].token \in Token
                                       /\ tokens'[request[q].token] = tokens[request[q].token]
      BY <2>1, <2>2, <2>3, <3>1, Constants DEF Lasting, Shape
    <3>3. request[q].op = "suspend" => request[q].member # m
      BY <1>1, <2>1, <3>1, FreeKey DEF Shape, Locks
    <3>4. request[q].op = "suspend" /\ request[q].pc = "revoking" =>
            \A c \in Token : tokens'[c].member = request[q].member /\ tokens'[c].state = "live" => c \in request[q].seen
      BY <2>3, <3>1, <3>3 DEF Lasting
    <3> QED BY <1>1, <3>1, <3>2, <3>4 DEF Lasting, Present, Inserts, Locks
  <2>5. TokenRows'
    <3> SUFFICES ASSUME NEW c \in Token
                 PROVE  /\ c > issued' => tokens'[c] = NoToken
                        /\ tokens'[c].state # "none" => tokens'[c].member \in Members
                        /\ tokens'[c].state = "none" => tokens'[c] = NoToken
                        /\ tokens'[c].parent # 0 =>
                             /\ tokens'[c].parent < c
                             /\ tokens'[tokens'[c].parent].state = "revoked"
                             /\ tokens'[tokens'[c].parent].member = tokens'[c].member
                             /\ \A s \in Token \ {c} : tokens'[s].parent # tokens'[c].parent
      BY DEF TokenRows, NoToken
    <3>1. CASE c = t
      BY <1>1, <2>1, <2>2, <2>3, <3>1
    <3>2. CASE c # t
      <4>1. /\ tokens'[c] = tokens[c]
            /\ c > issued => tokens[c] = NoToken
            /\ tokens[c].state # "none" => tokens[c].member \in Members
            /\ tokens[c].state = "none" => tokens[c] = NoToken
        BY <2>3, <3>2 DEF IInv, TokenRows
      <4>2. c > issued' => c > issued
        BY <2>1, <2>2, Constants
      <4>3. ASSUME tokens[c].parent # 0
            PROVE  /\ tokens[c].parent < c
                   /\ tokens'[tokens[c].parent].state = "revoked"
                   /\ tokens'[tokens[c].parent].member = tokens[c].member
                   /\ \A s \in Token \ {c} : tokens'[s].parent # tokens[c].parent
        <5>1. /\ tokens[c].parent < c
              /\ tokens[tokens[c].parent].state = "revoked"
              /\ tokens[tokens[c].parent].member = tokens[c].member
              /\ \A s \in Token \ {c} : tokens[s].parent # tokens[c].parent
          BY <4>3 DEF IInv, TokenRows
        <5>2. tokens[c].parent \in Token \ {t}
          BY <2>2, <4>3, <5>1, Constants DEF IInv, Typed, TokenType
        <5> QED BY <2>3, <4>3, <5>1, <5>2
      <4> QED BY <4>1, <4>2, <4>3
    <3> QED BY <3>1, <3>2
  <2>6. ErasedLeavesNothing' /\ ActiveIsVerified' /\ account' \in [Members -> AccountType]
    BY <1>1, <1>3, <2>3 DEF IInv, Typed, ErasedLeavesNothing, ActiveIsVerified, Present
  <2> QED BY <1>1, <2>1, <2>2, <2>3, <2>4, <2>5, <2>6, Answered, LinksStay DEF IInv, Typed
<1> QED BY <1>2, <1>3 DEF IssueToken

\* Live tokens are revoked.
LEMMA TokensRevoked ==
  ASSUME IInv, NEW R \in SUBSET Token, \A t \in R : tokens[t].state = "live",
         tokens' = Revoked(R), issued' = issued
  PROVE  /\ tokens' \in [Token -> TokenType] /\ TokenRows' /\ issued' \in 0 .. MaxTokens
         /\ \A t \in Token : /\ tokens'[t].member = tokens[t].member /\ tokens'[t].parent = tokens[t].parent
                             /\ t \in R => tokens'[t].state = "revoked"
                             /\ t \notin R => tokens'[t] = tokens[t]
<1>1. tokens \in [Token -> TokenType]
  BY DEF IInv, Typed
<1>2. \A t \in Token : /\ tokens'[t] \in TokenType
                       /\ tokens'[t].member = tokens[t].member /\ tokens'[t].parent = tokens[t].parent
                       /\ t \in R => tokens'[t].state = "revoked"
                       /\ t \notin R => tokens'[t] = tokens[t]
  BY <1>1 DEF Revoked, TokenType
<1>3. tokens' \in [Token -> TokenType]
  BY <1>2 DEF Revoked
<1>4. TokenRows'
  <2> SUFFICES ASSUME NEW c \in Token
               PROVE  /\ c > issued => tokens'[c] = NoToken
                      /\ tokens'[c].state # "none" => tokens'[c].member \in Members
                      /\ tokens'[c].state = "none" => tokens'[c] = NoToken
                      /\ tokens'[c].parent # 0 =>
                           /\ tokens'[c].parent < c
                           /\ tokens'[tokens'[c].parent].state = "revoked"
                           /\ tokens'[tokens'[c].parent].member = tokens'[c].member
                           /\ \A s \in Token \ {c} : tokens'[s].parent # tokens'[c].parent
    BY DEF TokenRows, NoToken
  <2>1. /\ c > issued => tokens[c] = NoToken /\ c \notin R
        /\ tokens[c].state # "none" => tokens[c].member \in Members
        /\ tokens[c].state = "none" => tokens[c] = NoToken
        /\ c \in R => tokens[c].state # "none"
    BY DEF IInv, TokenRows, NoToken
  <2>2. ASSUME tokens[c].parent # 0
        PROVE  /\ tokens[c].parent < c
               /\ tokens'[tokens[c].parent].state = "revoked"
               /\ tokens'[tokens[c].parent].member = tokens[c].member
               /\ \A s \in Token \ {c} : tokens'[s].parent # tokens[c].parent
    <3>1. /\ tokens[c].parent < c
          /\ tokens[tokens[c].parent].state = "revoked"
          /\ tokens[tokens[c].parent].member = tokens[c].member
          /\ \A s \in Token \ {c} : tokens[s].parent # tokens[c].parent
      BY <2>2 DEF IInv, TokenRows
    <3>2. tokens[c].parent \in Token
      BY <1>1, <2>2, Constants DEF TokenType
    <3> QED BY <1>2, <3>1, <3>2
  <2> QED BY <1>2, <2>1, <2>2
<1> QED BY <1>2, <1>3, <1>4 DEF IInv, Typed

\* What a request relies on survives a revocation that spares the token it holds.
LEMMA RevocationSpares ==
  ASSUME IInv, NEW R \in SUBSET Token, \A t \in R : tokens[t].state = "live",
         tokens' = Revoked(R), issued' = issued,
         NEW q \in Requests, Inserts(request[q]) => request[q].token \notin R
  PROVE  LET s == request[q] IN
         /\ s.op = "refresh" =>
              /\ s.token <= issued
              /\ tokens'[s.token].state = "live" => tokens'[s.token].member = s.member
         /\ Inserts(s) => tokens'[s.token].state = "live"
         /\ s.op = "suspend" /\ s.pc = "revoking" =>
              \A t \in Token : tokens'[t].member = s.member /\ tokens'[t].state = "live" => t \in s.seen
<1>1. \A t \in Token : /\ tokens'[t].member = tokens[t].member
                       /\ t \in R => tokens'[t].state = "revoked"
                       /\ t \notin R => tokens'[t] = tokens[t]
  BY TokensRevoked
<1>2. Lasting(request[q]) /\ Shape(request[q])
  BY DEF IInv, Standing, Shapes
<1>3. Inserts(request[q]) => request[q].op = "refresh"
  BY DEF Inserts
<1> QED BY <1>1, <1>2, <1>3 DEF Lasting, Shape

\* A token is revoked by a logout.
LEMMA LogoutKeeps ==
  ASSUME IInv, NEW t \in Token, Logout(t)
  PROVE  IInv'
<1> DEFINE R == {t}
<1>1. /\ tokens[t].state = "live" /\ TokenFree(t)
      /\ UNCHANGED <<account, issued, links, mailed, spent, request>>
  BY DEF Logout
<1>2. tokens' = Revoked(R)
  BY DEF Logout, Revoked, IInv, Typed
<1>r. R \in SUBSET Token /\ \A c \in R : tokens[c].state = "live" /\ TokenFree(c)
  BY <1>1
<1> HIDE DEF R
<1>3. /\ tokens' \in [Token -> TokenType] /\ TokenRows' /\ issued' \in 0 .. MaxTokens
      /\ \A c \in Token : tokens'[c].member = tokens[c].member
  BY <1>1, <1>2, <1>r, TokensRevoked
<1>4. \A q \in Requests : Lasting(request[q])'
  <2> SUFFICES ASSUME NEW q \in Requests PROVE Lasting(request[q])'
    OBVIOUS
  <2>1. Inserts(request[q]) => request[q].token \notin R
    BY <1>r DEF TokenFree, HoldsToken, At, Inserts
  <2>2. LET s == request[q] IN
        /\ s.op = "refresh" =>
             /\ s.token <= issued
             /\ tokens'[s.token].state = "live" => tokens'[s.token].member = s.member
        /\ Inserts(s) => tokens'[s.token].state = "live"
        /\ s.op = "suspend" /\ s.pc = "revoking" =>
             \A c \in Token : tokens'[c].member = s.member /\ tokens'[c].state = "live" => c \in s.seen
    BY <1>1, <1>2, <1>r, <2>1, RevocationSpares
  <2>3. Lasting(request[q])
    BY DEF IInv, Standing
  <2> QED BY <1>1, <2>2, <2>3 DEF Lasting, Present, Inserts, Locks
<1>5. ErasedLeavesNothing' /\ ActiveIsVerified' /\ account' \in [Members -> AccountType]
  BY <1>1, <1>3 DEF IInv, Typed, ErasedLeavesNothing, ActiveIsVerified, Present
<1> QED BY <1>1, <1>3, <1>4, <1>5, NoneMoves, LinksStay DEF IInv, Typed

\* The end of a revocation of all tokens of a Member.
LEMMA RevocationEnds ==
  ASSUME IInv, NEW r \in Requests, RevocationDone(r), issued' = issued
  PROVE  /\ tokens' \in [Token -> TokenType] /\ TokenRows' /\ issued' \in 0 .. MaxTokens
         /\ \A t \in Token : /\ tokens'[t].member = tokens[t].member
                             /\ tokens'[t].state = "live" => tokens[t].state = "live" /\ t \notin request[r].seen
         /\ \A q \in Requests :
              LET s == request[q] IN
              /\ s.op = "refresh" =>
                   /\ s.token <= issued
                   /\ tokens'[s.token].state = "live" => tokens'[s.token].member = s.member
              /\ Inserts(s) => tokens'[s.token].state = "live"
              /\ s.op = "suspend" /\ s.pc = "revoking" =>
                   \A t \in Token : tokens'[t].member = s.member /\ tokens'[t].state = "live" => t \in s.seen
         /\ request[r].member \in Members /\ request[r].pc = "revoking"
<1> DEFINE R == Revocable(r)
<1>1. /\ tokens' = Revoked(R) /\ R \in SUBSET Token /\ (\A t \in R : tokens[t].state = "live")
      /\ \A t \in Token : t \in R <=> t \in request[r].seen /\ tokens[t].state = "live"
      /\ \A t \in R : TokenFree(t)
  BY DEF RevocationDone, Revocable, IInv, Typed, RequestType
<1>2. request[r].member \in Members /\ request[r].pc = "revoking"
  BY DEF RevocationDone, IInv, Shapes, Shape
<1> HIDE DEF R
<1>3. \A q \in Requests : Inserts(request[q]) => request[q].token \notin R
  BY <1>1 DEF TokenFree, HoldsToken, At, Inserts
<1>4. /\ tokens' \in [Token -> TokenType] /\ TokenRows' /\ issued' \in 0 .. MaxTokens
      /\ \A t \in Token : /\ tokens'[t].member = tokens[t].member
                          /\ t \in R => tokens'[t].state = "revoked"
                          /\ t \notin R => tokens'[t] = tokens[t]
  BY <1>1, TokensRevoked
<1>5. \A t \in Token : tokens'[t].state = "live" => tokens[t].state = "live" /\ t \notin request[r].seen
  BY <1>1, <1>4
<1>6. ASSUME NEW q \in Requests
      PROVE  LET s == request[q] IN
             /\ s.op = "refresh" =>
                  /\ s.token <= issued
                  /\ tokens'[s.token].state = "live" => tokens'[s.token].member = s.member
             /\ Inserts(s) => tokens'[s.token].state = "live"
             /\ s.op = "suspend" /\ s.pc = "revoking" =>
                  \A t \in Token : tokens'[t].member = s.member /\ tokens'[t].state = "live" => t \in s.seen
  BY <1>1, <1>3, RevocationSpares
<1> QED BY <1>2, <1>4, <1>5, <1>6

\* The tokens are revoked after a change of password.
LEMMA EndChangeKeeps ==
  ASSUME IInv, NEW r \in Requests, EndChange(r)
  PROVE  IInv'
<1>1. RevocationDone(r) /\ Answer(r) /\ UNCHANGED <<account, issued, links, mailed, spent>>
  BY DEF EndChange
<1>2. /\ tokens' \in [Token -> TokenType] /\ TokenRows' /\ issued' \in 0 .. MaxTokens
      /\ \A t \in Token : tokens'[t].member = tokens[t].member
  BY <1>1, RevocationEnds
<1>3. \A q \in Requests \ {r} : Lasting(request[q])'
  <2> SUFFICES ASSUME NEW q \in Requests \ {r} PROVE Lasting(request[q])'
    OBVIOUS
  <2>1. Lasting(request[q]) /\ request'[q] = request[q]
    BY <1>1, Answers DEF IInv, Standing
  <2>2. LET s == request[q] IN
        /\ s.op = "refresh" =>
             /\ s.token <= issued
             /\ tokens'[s.token].state = "live" => tokens'[s.token].member = s.member
        /\ Inserts(s) => tokens'[s.token].state = "live"
        /\ s.op = "suspend" /\ s.pc = "revoking" =>
             \A t \in Token : tokens'[t].member = s.member /\ tokens'[t].state = "live" => t \in s.seen
    BY <1>1, RevocationEnds
  <2> QED BY <1>1, <2>1, <2>2 DEF Lasting, Present, Inserts, Locks
<1>4. ErasedLeavesNothing' /\ ActiveIsVerified' /\ account' \in [Members -> AccountType]
  BY <1>1, <1>2 DEF IInv, Typed, ErasedLeavesNothing, ActiveIsVerified, Present
<1> QED BY <1>1, <1>2, <1>3, <1>4, Answered, LinksStay DEF IInv, Typed

\* A suspension commits: the Member was active, hence verified.
LEMMA EndSuspensionKeeps ==
  ASSUME IInv, NEW r \in Requests, EndSuspension(r)
  PROVE  IInv'
<1> DEFINE m == request[r].member
           a == [account[m] EXCEPT !.status = "suspended"]
<1>1. /\ RevocationDone(r) /\ Answer(r) /\ UNCHANGED <<issued, links, mailed, spent>>
      /\ request[r].op = "suspend" /\ account' = [account EXCEPT ![m] = a]
  BY DEF EndSuspension, IInv, Typed, AccountType
<1>2. /\ tokens' \in [Token -> TokenType] /\ TokenRows' /\ issued' \in 0 .. MaxTokens
      /\ \A t \in Token : tokens'[t].member = tokens[t].member
      /\ m \in Members /\ request[r].pc = "revoking"
  BY <1>1, RevocationEnds
<1>3. account[m].status = "active" /\ Locks(request[r])
  BY <1>1, <1>2 DEF IInv, Standing, Lasting, Locks
<1>4. a \in AccountType /\ a.status = "suspended" /\ a.verified
  BY <1>2, <1>3 DEF IInv, Typed, AccountType, ActiveIsVerified
<1> HIDE DEF a
<1>5. /\ account' \in [Members -> AccountType] /\ ActiveIsVerified'
      /\ account'[m] = a /\ \A n \in Members \ {m} : account'[n] = account[n]
  BY <1>1, <1>2, <1>4, AccountWritten
<1>6. \A q \in Requests \ {r} : Lasting(request[q])'
  <2> SUFFICES ASSUME NEW q \in Requests \ {r} PROVE Lasting(request[q])'
    OBVIOUS
  <2>1. Lasting(request[q]) /\ Shape(request[q]) /\ request'[q] = request[q]
    BY <1>1, Answers DEF IInv, Standing, Shapes
  <2>2. LET s == request[q] IN
        /\ s.op = "refresh" =>
             /\ s.token <= issued
             /\ tokens'[s.token].state = "live" => tokens'[s.token].member = s.member
        /\ Inserts(s) => tokens'[s.token].state = "live"
        /\ s.op = "suspend" /\ s.pc = "revoking" =>
             \A t \in Token : tokens'[t].member = s.member /\ tokens'[t].state = "live" => t \in s.seen
    BY <1>1, RevocationEnds
  <2>3. Locks(request[q]) => request[q].member \in Members \ {m}
    BY <1>3, <2>1 DEF IInv, Exclusive, Apart, Shape, Locks
  <2> QED BY <1>1, <1>5, <2>1, <2>2, <2>3 DEF Lasting, Shape, Present, Inserts, Locks
<1>7. ErasedLeavesNothing'
  BY <1>1, <1>2, <1>4, <1>5 DEF IInv, ErasedLeavesNothing, Present
<1> QED BY <1>1, <1>2, <1>5, <1>6, <1>7, Answered, LinksStay DEF IInv, Typed

\* A reset commits: the link is gone, the password is new, the tokens are revoked.
LEMMA EndResetKeeps ==
  ASSUME IInv, NEW r \in Requests, EndReset(r)
  PROVE  IInv'
<1> DEFINE m == request[r].member
           w == IF account[m].password < MaxPasswords THEN account[m].password + 1 ELSE account[m].password
           a == [account[m] EXCEPT !.password = w]
<1>1. /\ RevocationDone(r) /\ Answer(r) /\ UNCHANGED <<issued, mailed>>
      /\ request[r].op = "reset" /\ links' = [links EXCEPT ![m]["password_reset"] = 0]
      /\ spent' = [spent EXCEPT ![request[r].link] = @ + 1]
  BY DEF EndReset
<1>2. /\ tokens' \in [Token -> TokenType] /\ TokenRows' /\ issued' \in 0 .. MaxTokens
      /\ \A t \in Token : tokens'[t].member = tokens[t].member
      /\ m \in Members /\ request[r].pc = "revoking"
  BY <1>1, RevocationEnds
<1>3. /\ request[r].link = links[m]["password_reset"] /\ links[m]["password_reset"] # 0
      /\ Present(m) /\ Locks(request[r])
  BY <1>1, <1>2 DEF IInv, Standing, Lasting, Locks
<1>4. account[m] \in AccountType /\ w \in 0 .. MaxPasswords
  BY <1>2, Constants DEF IInv, Typed, AccountType
<1>5. account' = [account EXCEPT ![m] = a]
  BY <1>2, <1>4 DEF EndReset, IInv, Typed, AccountType
<1> HIDE DEF w
<1>6. a \in AccountType /\ a.status = account[m].status /\ a.verified = account[m].verified
  BY <1>4 DEF AccountType
<1> HIDE DEF a
<1>7. a.status \in {"active", "suspended"} => a.verified
  BY <1>2, <1>6 DEF IInv, ActiveIsVerified
<1>8. /\ account' \in [Members -> AccountType] /\ ActiveIsVerified'
      /\ account'[m] = a /\ \A n \in Members \ {m} : account'[n] = account[n]
  BY <1>2, <1>5, <1>6, <1>7, AccountWritten
<1>9. /\ links' \in [Members -> [Purposes -> 0 .. MaxLinks]]
      /\ \A n \in Members, q \in Purposes : n # m \/ q # "password_reset" => links'[n][q] = links[n][q]
      /\ links'[m]["password_reset"] = 0
      /\ LinkTable' /\ LinkSpentOnce' /\ mailed' \in 0 .. MaxLinks /\ spent' \in [Link -> Nat]
  BY <1>1, <1>2, <1>3, LinkSpent, Constants
<1> HIDE DEF m
<1>10. \A q \in Requests \ {r} : Lasting(request[q])'
  <2> SUFFICES ASSUME NEW q \in Requests \ {r} PROVE Lasting(request[q])'
    OBVIOUS
  <2>1. Lasting(request[q]) /\ Shape(request[q]) /\ request'[q] = request[q] /\ Apart(request[r], request[q])
    BY <1>1, Answers DEF IInv, Standing, Shapes, Exclusive
  <2>2. LET s == request[q] IN
        /\ s.op = "refresh" =>
             /\ s.token <= issued
             /\ tokens'[s.token].state = "live" => tokens'[s.token].member = s.member
        /\ Inserts(s) => tokens'[s.token].state = "live"
        /\ s.op = "suspend" /\ s.pc = "revoking" =>
             \A t \in Token : tokens'[t].member = s.member /\ tokens'[t].state = "live" => t \in s.seen
    BY <1>1, RevocationEnds
  <2>3. Locks(request[q]) => request[q].member \in Members \ {m}
    BY <1>3, <2>1 DEF Apart, Shape, Locks, m
  <2>4. request[q].op = "reset" => request[q].member \in Members \ {m}
    BY <1>1, <1>3, <2>1 DEF Apart, Shape, Lasting
  <2>5. request[q].op = "reset" => links'[request[q].member]["password_reset"] = links[request[q].member]["password_reset"]
    BY <1>9, <2>4, Constants
  <2> QED BY <1>1, <1>8, <2>1, <2>2, <2>3, <2>5 DEF Lasting, Shape, Present, Inserts, Locks
<1>11. \A n \in Members : Present(n)' <=> Present(n)
  BY <1>6, <1>8 DEF Present
<1>12. ErasedLeavesNothing'
  BY <1>2, <1>3, <1>9, <1>11 DEF IInv, ErasedLeavesNothing
<1> QED BY <1>1, <1>2, <1>8, <1>9, <1>10, <1>12, Answered DEF IInv, Typed

\* A rotation revokes the token it holds and inserts its successor.
LEMMA RotateKeeps ==
  ASSUME IInv, NEW r \in Requests, Rotate(r)
  PROVE  IInv'
<1> DEFINE m == request[r].member
           p == request[r].token
           t == issued + 1
<1>1. /\ Answer(r) /\ UNCHANGED <<account, links, mailed, spent>> /\ Inserts(request[r])
      /\ m \in Members /\ p \in Token /\ p <= issued
      /\ tokens[p].state = "live" /\ tokens[p].member = m
  BY DEF IInv, Shapes, Shape, Standing, Lasting, Inserts, Rotate, At
<1>2. CASE UNCHANGED <<tokens, issued>>
  BY <1>1, <1>2, OnlyAnswers
<1>3. CASE issued < MaxTokens
  <2>1. KeyFree(m) /\ tokens' = [Inserted(m, p) EXCEPT ![p].state = "revoked"] /\ issued' = t
    BY <1>3 DEF Rotate
  <2>2. /\ t \in Token /\ t \in 0 .. MaxTokens /\ tokens[t] = NoToken
        /\ NoToken.state = "none" /\ NoToken.member = "none" /\ NoToken.parent = 0
        /\ \A c \in Token : tokens[c].state # "none" => c <= issued /\ c # t
        /\ \A c \in Token : c <= issued => c # t
        /\ issued \in Nat /\ issued < t /\ p # t /\ p < t /\ p # 0
    BY <1>1, <1>3, NextToken, Constants DEF IInv, Typed
  <2>3. /\ Inserted(m, p) \in [Token -> TokenType]
        /\ Inserted(m, p)[t].member = m /\ Inserted(m, p)[t].state = "live" /\ Inserted(m, p)[t].parent = p
        /\ \A c \in Token \ {t} : Inserted(m, p)[c] = tokens[c]
    BY <1>1, <1>3, TokenInserted, Constants
  <2> DEFINE row == [tokens[p] EXCEPT !.state = "revoked"]
  <2>4. row \in TokenType /\ row.state = "revoked" /\ row.member = m /\ row.parent = tokens[p].parent
    BY <1>1 DEF IInv, Typed, TokenType
  <2>5. tokens' = [Inserted(m, p) EXCEPT ![p] = row]
    BY <1>1, <2>1, <2>2, <2>3
  <2> HIDE DEF row, m, t, p
  <2>6. /\ tokens' \in [Token -> TokenType]
        /\ tokens'[t].member = m /\ tokens'[t].state = "live" /\ tokens'[t].parent = p
        /\ tokens'[p].member = m /\ tokens'[p].state = "revoked" /\ tokens'[p].parent = tokens[p].parent
        /\ \A c \in Token \ {t, p} : tokens'[c] = tokens[c]
    BY <1>1, <2>2, <2>3, <2>4, <2>5
  <2>7. \A q \in Requests \ {r} : Lasting(request[q])'
    <3> SUFFICES ASSUME NEW q \in Requests \ {r} PROVE Lasting(request[q])'
      OBVIOUS
    <3>1. Lasting(request[q]) /\ Shape(request[q]) /\ request'[q] = request[q] /\ Apart(request[r], request[q])
      BY <1>1, Answers DEF IInv, Standing, Shapes, Exclusive
    <3>2. request[q].op = "refresh" => /\ request[q].token <= issued' /\ request[q].token \in Token
                                       /\ request[q].token # t
      BY <2>1, <2>2, <3>1, Constants DEF Lasting, Shape
    <3>3. request[q].op = "refresh" /\ tokens'[request[q].token].state = "live" =>
            tokens'[request[q].token].member = request[q].member
      BY <2>6, <3>1, <3>2 DEF Lasting
    <3>4. Inserts(request[q]) => request[q].token # p /\ request[q].op = "refresh"
      BY <1>1, <3>1 DEF Apart, Inserts, p
    <3>5. Inserts(request[q]) => tokens'[request[q].token].state = "live"
      BY <2>6, <3>1, <3>2, <3>4 DEF Lasting
    <3>6. request[q].op = "suspend" => request[q].member # m
      BY <1>1, <2>1, <3>1, FreeKey DEF Shape, Locks
    <3>7. request[q].op = "suspend" /\ request[q].pc = "revoking" =>
            \A c \in Token : tokens'[c].member = request[q].member /\ tokens'[c].state = "live" => c \in request[q].seen
      BY <2>6, <3>1, <3>6 DEF Lasting
    <3> QED BY <1>1, <3>1, <3>2, <3>3, <3>5, <3>7 DEF Lasting, Present, Inserts, Locks
  <2>8. TokenRows'
    <3> SUFFICES ASSUME NEW c \in Token
                 PROVE  /\ c > issued' => tokens'[c] = NoToken
                        /\ tokens'[c].state # "none" => tokens'[c].member \in Members
                        /\ tokens'[c].state = "none" => tokens'[c] = NoToken
                        /\ tokens'[c].parent # 0 =>
                             /\ tokens'[c].parent < c
                             /\ tokens'[tokens'[c].parent].state = "revoked"
                             /\ tokens'[tokens'[c].parent].member = tokens'[c].member
                             /\ \A s \in Token \ {c} : tokens'[s].parent # tokens'[c].parent
      BY DEF TokenRows, NoToken
    <3>1. \A s \in Token : tokens[s].parent # p
      BY <1>1, <2>2 DEF IInv, TokenRows
    <3>2. CASE c = t
      BY <1>1, <2>1, <2>2, <2>6, <3>1, <3>2
    <3>3. CASE c # t
      <4>1. /\ tokens'[c].parent = tokens[c].parent /\ tokens'[c].member = tokens[c].member
            /\ tokens'[c].state # "none" => tokens[c].state # "none"
            /\ tokens'[c].state = "none" => tokens'[c] = tokens[c] /\ tokens[c].state = "none"
        BY <1>1, <2>6, <3>3
      <4>2. /\ c > issued => tokens[c] = NoToken
            /\ tokens[c].state # "none" => tokens[c].member \in Members
            /\ tokens[c].state = "none" => tokens[c] = NoToken
        BY DEF IInv, TokenRows
      <4>3. c > issued' => c > issued /\ c # p
        BY <1>1, <2>1, <2>2, Constants
      <4>4. ASSUME tokens[c].parent # 0
            PROVE  /\ tokens[c].parent < c
                   /\ tokens'[tokens[c].parent].state = "revoked"
                   /\ tokens'[tokens[c].parent].member = tokens[c].member
                   /\ \A s \in Token \ {c} : tokens'[s].parent # tokens[c].parent
        <5>1. /\ tokens[c].parent < c
              /\ tokens[tokens[c].parent].state = "revoked"
              /\ tokens[tokens[c].parent].member = tokens[c].member
              /\ \A s \in Token \ {c} : tokens[s].parent # tokens[c].parent
          BY <4>4 DEF IInv, TokenRows
        <5>2. tokens[c].parent \in Token \ {t, p}
          BY <1>1, <2>2, <4>4, <5>1, Constants DEF IInv, Typed, TokenType
        <5>3. \A s \in Token \ {t} : tokens'[s].parent = tokens[s].parent
          BY <2>6
        <5> QED BY <2>6, <4>4, <5>1, <5>2, <5>3
      <4> QED BY <2>6, <3>3, <4>1, <4>2, <4>3, <4>4
    <3> QED BY <3>2, <3>3
  <2>9. Present(m)
    BY <1>1 DEF IInv, ErasedLeavesNothing
  <2>10. ErasedLeavesNothing' /\ ActiveIsVerified' /\ account' \in [Members -> AccountType]
    BY <1>1, <2>6, <2>9 DEF IInv, Typed, ErasedLeavesNothing, ActiveIsVerified, Present
  <2> QED BY <1>1, <2>1, <2>2, <2>6, <2>7, <2>8, <2>10, Answered, LinksStay DEF IInv, Typed
<1> QED BY <1>2, <1>3 DEF Rotate

\* The row of a Member goes, and with it all that refers to it: what others rely on is
\* locked by them, and not of this Member.
LEMMA DeleteRowKeeps ==
  ASSUME IInv, NEW r \in Requests, DeleteRow(r)
  PROVE  IInv'
<1> DEFINE m == request[r].member
           a == [account[m] EXCEPT !.status = "erased"]
<1>1. /\ Answer(r) /\ UNCHANGED <<issued, mailed, spent>> /\ Locks(request[r]) /\ m \in Members
      /\ \A t \in LiveTokens(m) : TokenFree(t)
      /\ \A p \in Purposes : LinkFree(links[m][p])
      /\ tokens' = [t \in Token |-> IF tokens[t].member = m THEN NoToken ELSE tokens[t]]
      /\ links' = [links EXCEPT ![m] = [p \in Purposes |-> 0]]
  BY DEF IInv, Shapes, Shape, Locks, DeleteRow
<1>2. a \in AccountType /\ a.status = "erased" /\ account' = [account EXCEPT ![m] = a]
  <2>1. account[m] \in AccountType
    BY <1>1 DEF IInv, Typed
  <2>2. account' = [account EXCEPT ![m].status = "erased"]
    BY DEF DeleteRow
  <2> QED BY <2>1, <2>2 DEF AccountType
<1> HIDE DEF a
<1>3. /\ account' \in [Members -> AccountType] /\ ActiveIsVerified'
      /\ account'[m] = a /\ \A n \in Members \ {m} : account'[n] = account[n]
  BY <1>1, <1>2, AccountWritten
<1>4. NoToken \in TokenType /\ NoToken.member = "none" /\ NoToken.state = "none" /\ NoToken.parent = 0 /\ m # "none"
  BY <1>1, Constants DEF NoToken, TokenType
<1>5. \A t \in Token : /\ tokens[t].member = m => tokens'[t] = NoToken
                       /\ tokens[t].member # m => tokens'[t] = tokens[t]
  BY <1>1
<1>6. tokens' \in [Token -> TokenType]
  BY <1>1, <1>4 DEF IInv, Typed
<1>7. /\ links' \in [Members -> [Purposes -> 0 .. MaxLinks]]
      /\ \A p \in Purposes : links'[m][p] = 0
      /\ \A n \in Members \ {m} : links'[n] = links[n]
  BY <1>1, Constants DEF IInv, Typed
<1>8. \A q \in Requests \ {r} : Lasting(request[q])'
  <2> SUFFICES ASSUME NEW q \in Requests \ {r} PROVE Lasting(request[q])'
    OBVIOUS
  <2>1. Lasting(request[q]) /\ Shape(request[q]) /\ request'[q] = request[q] /\ Apart(request[r], request[q])
    BY <1>1, Answers DEF IInv, Standing, Shapes, Exclusive
  <2>2. Locks(request[q]) => request[q].member \in Members \ {m}
    BY <1>1, <2>1 DEF Apart, Shape, Locks
  <2>3. request[q].op = "refresh" =>
          /\ request[q].token \in Token /\ request[q].token <= issued'
          /\ tokens'[request[q].token].state = "live" => tokens'[request[q].token].member = request[q].member
    BY <1>1, <1>4, <1>5, <2>1 DEF Lasting, Shape
  <2>4. Inserts(request[q]) => request[q].op = "refresh" /\ tokens'[request[q].token].state = "live"
    <3> SUFFICES ASSUME Inserts(request[q])
                 PROVE  request[q].op = "refresh" /\ tokens'[request[q].token].state = "live"
      OBVIOUS
    <3>1. /\ request[q].op = "refresh" /\ request[q].token \in Token
          /\ tokens[request[q].token].state = "live" /\ ~TokenFree(request[q].token)
      BY <2>1 DEF Lasting, Shape, Inserts, TokenFree, HoldsToken, At
    <3>2. tokens[request[q].token].member # m
      BY <1>1, <3>1 DEF LiveTokens
    <3> QED BY <1>5, <3>1, <3>2
  <2>5. request[q].op = "suspend" /\ request[q].pc = "revoking" =>
          \A t \in Token : tokens'[t].member = request[q].member /\ tokens'[t].state = "live" => t \in request[q].seen
    BY <1>4, <1>5, <2>1 DEF Lasting
  <2>6. request[q].op = "reset" => request[q].member \in Members \ {m}
    <3>1. LinkFree(links[m]["password_reset"])
      BY <1>1, Constants
    <3> QED BY <1>1, <2>1, <3>1, Constants, FreeLink DEF Shape
  <2> QED BY <1>1, <1>3, <1>7, <2>1, <2>2, <2>3, <2>4, <2>5, <2>6 DEF Lasting, Shape, Present, Inserts, Locks
<1>9. TokenRows'
  <2> SUFFICES ASSUME NEW c \in Token
               PROVE  /\ c > issued => tokens'[c] = NoToken
                      /\ tokens'[c].state # "none" => tokens'[c].member \in Members
                      /\ tokens'[c].state = "none" => tokens'[c] = NoToken
                      /\ tokens'[c].parent # 0 =>
                           /\ tokens'[c].parent < c
                           /\ tokens'[tokens'[c].parent].state = "revoked"
                           /\ tokens'[tokens'[c].parent].member = tokens'[c].member
                           /\ \A s \in Token \ {c} : tokens'[s].parent # tokens'[c].parent
    BY <1>1 DEF TokenRows, NoToken
  <2>1. CASE tokens[c].member = m
    BY <1>4, <1>5, <2>1
  <2>2. CASE tokens[c].member # m
    <3>1. /\ c > issued => tokens[c] = NoToken
          /\ tokens[c].state # "none" => tokens[c].member \in Members
          /\ tokens[c].state = "none" => tokens[c] = NoToken
      BY DEF IInv, TokenRows
    <3>2. ASSUME tokens[c].parent # 0
          PROVE  /\ tokens[c].parent < c
                 /\ tokens'[tokens[c].parent].state = "revoked"
                 /\ tokens'[tokens[c].parent].member = tokens[c].member
                 /\ \A s \in Token \ {c} : tokens'[s].parent # tokens[c].parent
      <4>1. /\ tokens[c].parent < c
            /\ tokens[tokens[c].parent].state = "revoked"
            /\ tokens[tokens[c].parent].member = tokens[c].member
            /\ \A s \in Token \ {c} : tokens[s].parent # tokens[c].parent
        BY <3>2 DEF IInv, TokenRows
      <4>2. tokens[c].parent \in Token
        BY <3>2, Constants DEF IInv, Typed, TokenType
      <4>3. \A s \in Token : tokens'[s].parent = tokens[s].parent \/ tokens'[s].parent = 0
        BY <1>4, <1>5
      <4> QED BY <1>5, <2>2, <3>2, <4>1, <4>2, <4>3
    <3> QED BY <1>5, <2>2, <3>1, <3>2
  <2> QED BY <2>1, <2>2
<1>10. LinkTable' /\ LinkSpentOnce' /\ mailed' \in 0 .. MaxLinks /\ spent' \in [Link -> Nat]
  <2>1. \A n \in Members, p \in Purposes : links'[n][p] # 0 => n # m /\ links'[n][p] = links[n][p]
    BY <1>7
  <2> QED BY <1>1, <2>1 DEF IInv, Typed, LinkTable, LinkSpentOnce
<1>11. ErasedLeavesNothing'
  <2> SUFFICES ASSUME NEW n \in Members, ~Present(n)'
               PROVE  (\A t \in Token : tokens'[t].member # n) /\ \A p \in Purposes : links'[n][p] = 0
    BY DEF ErasedLeavesNothing
  <2>1. CASE n = m
    BY <1>4, <1>5, <1>7, <2>1
  <2>2. CASE n # m
    <3>1. ~Present(n)
      BY <1>3, <2>2 DEF Present
    <3> QED BY <1>4, <1>5, <1>7, <2>2, <3>1, Constants DEF IInv, ErasedLeavesNothing
  <2> QED BY <2>1, <2>2
<1> QED BY <1>1, <1>3, <1>6, <1>7, <1>8, <1>9, <1>10, <1>11, Answered DEF IInv, Typed

-----------------------------------------------------------------------------
(* The theorems.                                                           *)

\* The invariant holds before the first sign-up.
LEMMA Starts == SessionsInit => IInv
<1> SUFFICES ASSUME SessionsInit PROVE IInv
  OBVIOUS
<1>1. Typed
  BY Constants, Nothing DEF SessionsInit, Typed, AccountType, TokenType, NoToken
<1>2. Shapes /\ Standing /\ Exclusive
  BY Nothing DEF SessionsInit, Shapes, Standing, Exclusive
<1>3. TokenRows
  BY DEF SessionsInit, TokenRows, NoToken
<1>4. LinkTable /\ LinkSpentOnce
  BY DEF SessionsInit, LinkTable, LinkSpentOnce
<1>5. ActiveIsVerified
  BY DEF SessionsInit, ActiveIsVerified
<1>6. ErasedLeavesNothing
  BY Constants DEF SessionsInit, ErasedLeavesNothing, NoToken
<1> QED BY <1>1, <1>2, <1>3, <1>4, <1>5, <1>6 DEF IInv

\* Nothing happens.
LEMMA Stutters ==
  ASSUME IInv, UNCHANGED sessionVars
  PROVE  IInv'
<1>1. UNCHANGED <<account, tokens, issued, links, mailed, spent, request>>
  BY DEF sessionVars
<1>2. \A q \in Requests : Lasting(request[q])'
  BY <1>1 DEF IInv, Standing, Lasting, Present, Inserts, Locks
<1>3. ErasedLeavesNothing' /\ ActiveIsVerified' /\ account' \in [Members -> AccountType]
  BY <1>1 DEF IInv, Typed, ErasedLeavesNothing, ActiveIsVerified, Present
<1> QED BY <1>1, <1>2, <1>3, NoneMoves, TokensStay, LinksStay DEF IInv, Typed

\* Every statement of every request preserves the invariant.
LEMMA Steps == IInv /\ [SessionsNext]_sessionVars => IInv'
<1> SUFFICES ASSUME IInv, [SessionsNext]_sessionVars PROVE IInv'
  OBVIOUS
<1>1. ASSUME NEW m \in Members, SignUp(m) \/ Reinstate(m) \/ \E p \in Purposes : LinkExpires(m, p)
      PROVE  IInv'
  BY <1>1, SignUpKeeps, ReinstateKeeps, LinkExpiresKeeps
<1>2. ASSUME NEW t \in Token, Logout(t)
      PROVE  IInv'
  BY <1>2, LogoutKeeps
<1>3. ASSUME NEW r \in Requests, NEW m \in Members, Arrive(r, m)
      PROVE  IInv'
  BY <1>3, RequestLinkKeeps, ConsumeVerificationKeeps, LoginKeeps, ChangePasswordKeeps, ConsumeResetKeeps,
     SuspendKeeps, DeleteMemberKeeps, EraseSelfKeeps DEF Arrive
<1>4. ASSUME NEW r \in Requests, NEW t \in Token, ValidateToken(r, t)
      PROVE  IInv'
  BY <1>4, ValidateTokenKeeps
<1>5. ASSUME NEW r \in Requests, Continue(r)
      PROVE  IInv'
  BY <1>5, IssueLinkKeeps, MarkVerifiedKeeps, IssueTokenKeeps, ConsumeTokenKeeps, RotateKeeps, StorePasswordKeeps,
     StartRevocationKeeps, EndChangeKeeps, ResetPasswordKeeps, EndResetKeeps, EndSuspensionKeeps, EraseLocksKeeps,
     DeleteRowKeeps, DeadlockAbortsKeeps DEF Continue
<1>6. ASSUME NEW r \in Requests, Fails(r)
      PROVE  IInv'
  BY <1>6, FailsKeeps
<1>7. CASE UNCHANGED sessionVars
  BY <1>7, Stutters
<1> QED BY <1>1, <1>2, <1>3, <1>4, <1>5, <1>6, <1>7 DEF SessionsNext

\* The invariant holds in every state.
LEMMA Always == SessionsSpec => []IInv
BY Starts, Steps, PTL DEF SessionsSpec

\* The inductive invariant of the runs, for any instance: what each statement finds
\* when it starts.
THEOREM SessionsKept == SessionsSpec => []SessionsInv
BY Always, Restated, PTL

\* Two refreshes that present one token never leave two live successors.
THEOREM Successor == SessionsSpec => []OneSuccessor
<1>1. ASSUME IInv PROVE OneSuccessor
  <2> SUFFICES ASSUME NEW t \in Token, tokens[t].state = "live"
               PROVE  /\ \A c \in Token : tokens[c].parent # t
                      /\ \A s \in Token \ {t} : tokens[t].parent # 0 => tokens[s].parent # tokens[t].parent
    BY DEF OneSuccessor
  <2>1. \A c \in Token : tokens[c].parent # 0 => tokens[tokens[c].parent].state = "revoked"
    BY <1>1 DEF IInv, TokenRows
  <2>2. \A s \in Token \ {t} : tokens[t].parent # 0 => tokens[s].parent # tokens[t].parent
    BY <1>1 DEF IInv, TokenRows
  <2> QED BY <2>1, <2>2, Constants
<1> QED BY <1>1, Always, PTL

\* A link changes an account at most once, however many requests present it.
THEOREM SpentOnce == SessionsSpec => []LinkSpentOnce
<1>1. IInv => LinkSpentOnce
  BY DEF IInv
<1> QED BY <1>1, Always, PTL

\* The writes of an account that neither suspend nor erase.
LEMMA OtherWrites ==
  ASSUME IInv, NEW r \in Requests, NEW m \in Members,
         SignUp(m) \/ Reinstate(m) \/ MarkVerified(r) \/ StorePassword(r) \/ EndReset(r)
  PROVE  \A n \in Members : account'[n].status \in {"suspended", "erased"} => account'[n].status = account[n].status
<1>1. \A n \in Members : account[n] \in AccountType
  BY DEF IInv, Typed
<1>2. account \in [Members -> AccountType]
  BY DEF IInv, Typed
<1>3. CASE SignUp(m)
  BY <1>1, <1>2, <1>3 DEF SignUp, AccountType
<1>4. CASE Reinstate(m)
  BY <1>1, <1>2, <1>4 DEF Reinstate, AccountType
<1>5. CASE MarkVerified(r)
  <2>1. request[r].member \in Members
    BY <1>5 DEF IInv, Shapes, Shape, MarkVerified, At
  <2> QED BY <1>1, <1>2, <1>5, <2>1 DEF MarkVerified, AccountType
<1>6. CASE StorePassword(r)
  BY <1>1, <1>2, <1>6 DEF StorePassword, AccountType
<1>7. CASE EndReset(r)
  BY <1>1, <1>2, <1>7 DEF EndReset, AccountType
<1> QED BY <1>3, <1>4, <1>5, <1>6, <1>7

\* Which steps write an account.
LEMMA Writers ==
  ASSUME SessionsNext
  PROVE  \/ account' = account
         \/ \E m \in Members : SignUp(m) \/ Reinstate(m)
         \/ \E r \in Requests : \/ MarkVerified(r) \/ StorePassword(r) \/ EndReset(r)
                                \/ EndSuspension(r) \/ DeleteRow(r)
<1>1. ASSUME NEW r \in Requests, NEW m \in Members, Arrive(r, m)
      PROVE  account' = account
  <2>1. ASSUME NEW p \in Purposes, RequestLink(r, m, p)
        PROVE  account' = account
    BY <2>1 DEF RequestLink
  <2>2. CASE ConsumeVerification(r, m) \/ Login(r, m) \/ ChangePassword(r, m) \/ ConsumeReset(r, m)
    BY <2>2 DEF ConsumeVerification, Login, ChangePassword, ConsumeReset
  <2>3. CASE Suspend(r, m) \/ DeleteMember(r, m) \/ EraseSelf(r, m)
    BY <2>3 DEF Suspend, DeleteMember, EraseSelf, Lock
  <2> QED BY <1>1, <2>1, <2>2, <2>3 DEF Arrive
<1>2. ASSUME NEW r \in Requests,
             \/ IssueLink(r) \/ IssueToken(r) \/ ConsumeToken(r) \/ Rotate(r) \/ StartRevocation(r)
             \/ EndChange(r) \/ ResetPassword(r) \/ EraseLocks(r) \/ DeadlockAborts(r)
      PROVE  account' = account
  BY <1>2 DEF IssueLink, IssueToken, ConsumeToken, Rotate, StartRevocation, EndChange, ResetPassword, EraseLocks,
     DeadlockAborts
<1>3. ASSUME NEW r \in Requests, Continue(r)
      PROVE  \/ account' = account
             \/ MarkVerified(r) \/ StorePassword(r) \/ EndReset(r) \/ EndSuspension(r) \/ DeleteRow(r)
  BY <1>2, <1>3 DEF Continue
<1>4. ASSUME NEW r \in Requests, Fails(r) \/ \E t \in Token : ValidateToken(r, t)
      PROVE  account' = account
  BY <1>4 DEF Fails, ValidateToken
<1>5. ASSUME NEW m \in Members, NEW p \in Purposes, LinkExpires(m, p)
      PROVE  account' = account
  BY <1>5 DEF LinkExpires
<1>6. ASSUME NEW t \in Token, Logout(t)
      PROVE  account' = account
  BY <1>6 DEF Logout
<1> QED BY <1>1, <1>3, <1>4, <1>5, <1>6 DEF SessionsNext

\* The step that suspends or erases a Member is the commit of a transaction that
\* holds the row.
LEMMA Enders ==
  ASSUME IInv, SessionsNext, NEW m \in Members, account'[m].status \in {"suspended", "erased"},
         account'[m].status # account[m].status
  PROVE  \E r \in Requests :
           /\ request[r].member = m
           /\ \/ EndSuspension(r) /\ account'[m].status = "suspended"
              \/ DeleteRow(r) /\ account'[m].status = "erased"
<1>1. PICK r \in Requests : EndSuspension(r) \/ DeleteRow(r)
  <2>1. ASSUME NEW n \in Members, SignUp(n) \/ Reinstate(n) PROVE FALSE
    <3>1. CASE SignUp(n)
      BY <3>1 DEF SignUp, IInv, Typed, AccountType
    <3>2. CASE Reinstate(n)
      BY <3>2 DEF Reinstate, IInv, Typed, AccountType
    <3> QED BY <2>1, <3>1, <3>2
  <2>2. ASSUME NEW r \in Requests, MarkVerified(r) \/ StorePassword(r) \/ EndReset(r) PROVE FALSE
    BY <2>2, OtherWrites
  <2> QED BY <2>1, <2>2, Writers
<1>2. account \in [Members -> AccountType] /\ request[r].member \in Members
  BY <1>1 DEF IInv, Typed, Shapes, Shape, EndSuspension, RevocationDone, DeleteRow
<1>3. CASE EndSuspension(r)
  BY <1>2, <1>3 DEF EndSuspension, AccountType
<1>4. CASE DeleteRow(r)
  BY <1>2, <1>4 DEF DeleteRow, AccountType
<1> QED BY <1>1, <1>3, <1>4

\* The step that suspends a Member leaves no live refresh token of theirs.
THEOREM SuspensionEnds == SessionsSpec => SuspensionEndsSessions
<1> DEFINE Ends == \A m \in Members :
             account[m].status = "active" /\ account'[m].status = "suspended" =>
               \A t \in Token : ~(tokens'[t].member = m /\ tokens'[t].state = "live")
<1>1. ASSUME IInv, SessionsNext PROVE Ends
  <2> SUFFICES ASSUME NEW m \in Members, account[m].status = "active", account'[m].status = "suspended",
                      NEW t \in Token, tokens'[t].member = m, tokens'[t].state = "live"
               PROVE  FALSE
    OBVIOUS
  <2>1. PICK r \in Requests : request[r].member = m /\ EndSuspension(r)
    BY <1>1, Enders
  <2>2. RevocationDone(r) /\ request[r].op = "suspend" /\ issued' = issued
    BY <2>1 DEF EndSuspension
  <2>3. /\ tokens[t].member = m /\ tokens[t].state = "live" /\ t \notin request[r].seen
        /\ request[r].pc = "revoking"
    BY <1>1, <2>2, RevocationEnds
  <2> QED BY <1>1, <2>1, <2>2, <2>3 DEF IInv, Standing, Lasting
<1>2. IInv /\ [SessionsNext]_sessionVars => [Ends]_sessionVars
  BY <1>1
<1>3. SuspensionEndsSessions <=> [][Ends]_sessionVars
  BY DEF SuspensionEndsSessions
<1> QED BY <1>2, <1>3, Always, PTL DEF SessionsSpec

\* A Member erases the own account only with the password that is current then.
THEOREM ErasureKnows == SessionsSpec => ErasureKnowsPassword
<1> DEFINE Knows == \A m \in Members : Present(m) /\ account'[m].status = "erased" =>
             \E r \in Requests :
               /\ request[r].member = m
               /\ request[r].pc # "idle" /\ request'[r].pc = "idle"
               /\ \/ request[r].op = "delete"
                  \/ /\ request[r].op = "erase"
                     /\ account[m].status # "suspended"
                     /\ request[r].password = account[m].password
<1>1. ASSUME IInv, SessionsNext PROVE Knows
  <2> SUFFICES ASSUME NEW m \in Members, Present(m), account'[m].status = "erased"
               PROVE  \E r \in Requests :
                        /\ request[r].member = m
                        /\ request[r].pc # "idle" /\ request'[r].pc = "idle"
                        /\ \/ request[r].op = "delete"
                           \/ /\ request[r].op = "erase"
                              /\ account[m].status # "suspended"
                              /\ request[r].password = account[m].password
    OBVIOUS
  <2>1. PICK r \in Requests : request[r].member = m /\ DeleteRow(r)
    BY <1>1, Enders DEF Present
  <2>2. Answer(r) /\ request[r].op \in {"delete", "erase"} /\ request[r].pc = "locked"
    BY <2>1 DEF DeleteRow
  <2>3. request'[r].pc = "idle"
    BY <1>1, <2>2, Answers, Nothing
  <2>4. request[r].op = "erase" => account[m].status # "suspended" /\ request[r].password = account[m].password
    BY <1>1, <2>1, <2>2 DEF IInv, Standing, Lasting
  <2> QED BY <2>1, <2>2, <2>3, <2>4
<1>2. IInv /\ [SessionsNext]_sessionVars => [Knows]_sessionVars
  BY <1>1
<1>3. ErasureKnowsPassword <=> [][Knows]_sessionVars
  BY DEF ErasureKnowsPassword
<1> QED BY <1>2, <1>3, Always, PTL DEF SessionsSpec

-----------------------------------------------------------------------------
(* Waits of transactions for each other.                                   *)

\* The tokens a revocation saw are its Member's, or gone with their cascade.
SeenOwn ==
  \A q \in Requests : request[q].pc = "revoking" =>
    \A t \in request[q].seen :
      t <= issued /\ (tokens[t].state # "none" => tokens[t].member = request[q].member)

\* A token that was issued stays its Member's until it is gone, and never returns.
LEMMA TokensStayOwn ==
  ASSUME IInv, SessionsNext
  PROVE  /\ issued <= issued'
         /\ \A t \in Token : t <= issued /\ tokens'[t].state # "none" =>
              tokens[t].state # "none" /\ tokens'[t].member = tokens[t].member
<1> DEFINE Own == /\ issued <= issued'
                  /\ \A t \in Token : t <= issued /\ tokens'[t].state # "none" =>
                       tokens[t].state # "none" /\ tokens'[t].member = tokens[t].member
<1>0. issued \in Nat /\ tokens \in [Token -> TokenType]
  BY Constants DEF IInv, Typed
<1>1. ASSUME UNCHANGED <<tokens, issued>> PROVE Own
  BY <1>0, <1>1
<1>2. ASSUME NEW R \in SUBSET Token, tokens' = Revoked(R), \A t \in R : tokens[t].state = "live", UNCHANGED issued
      PROVE  Own
  <2>1. ASSUME NEW t \in Token, tokens'[t].state # "none"
        PROVE  tokens[t].state # "none" /\ tokens'[t].member = tokens[t].member
    BY <1>0, <1>2, <2>1 DEF Revoked, TokenType
  <2> QED BY <1>0, <1>2, <2>1
<1>3. ASSUME NEW r \in Requests, RevocationDone(r), UNCHANGED issued PROVE Own
  <2>1. Revocable(r) \in SUBSET Token
    BY <1>3 DEF Revocable, IInv, Typed, RequestType
  <2> QED BY <1>2, <1>3, <2>1 DEF RevocationDone, Revocable
<1>4. ASSUME NEW m \in Members, NEW p \in 0 .. MaxTokens, issued < MaxTokens,
             \A t \in Token \ {issued + 1} : /\ tokens'[t].member = Inserted(m, p)[t].member
                                             /\ tokens'[t].state # "none" => Inserted(m, p)[t].state # "none",
             issued' = issued + 1
      PROVE  Own
  <2>1. \A t \in Token \ {issued + 1} : Inserted(m, p)[t] = tokens[t]
    BY <1>4, TokenInserted
  <2>2. \A t \in Token : t <= issued => t \in Token \ {issued + 1}
    BY <1>0 DEF Token
  <2> QED BY <1>0, <1>4, <2>1, <2>2
<1>5. ASSUME NEW r \in Requests, IssueToken(r) PROVE Own
  <2>1. request[r].member \in Members /\ 0 \in 0 .. MaxTokens
    BY <1>5, Constants DEF IssueToken, At, IInv, Shapes, Shape
  <2> QED BY <1>1, <1>4, <1>5, <2>1 DEF IssueToken
<1>6. ASSUME NEW r \in Requests, Rotate(r) PROVE Own
  <2>1. request[r].member \in Members /\ request[r].token \in Token /\ request[r].token \in 0 .. MaxTokens
    BY <1>6, Constants DEF Rotate, At, IInv, Shapes, Shape, Typed, RequestType
  <2>2. ASSUME issued < MaxTokens PROVE Own
    <3> DEFINE m == request[r].member
               u == request[r].token
               new == Inserted(m, u)
    <3>1. tokens' = [new EXCEPT ![u].state = "revoked"] /\ issued' = issued + 1
      BY <1>6, <2>2 DEF Rotate
    <3>2. /\ new \in [Token -> TokenType] /\ new[issued + 1].state = "live"
          /\ \A t \in Token \ {issued + 1} : new[t] = tokens[t]
      BY <2>1, <2>2, TokenInserted
    <3>3. tokens[u].state = "live"
      BY <1>6 DEF Rotate, At, IInv, Standing, Lasting, Inserts
    <3>4. new[u].state # "none"
      BY <2>1, <3>2, <3>3
    <3>5. \A t \in Token \ {issued + 1} : /\ tokens'[t].member = new[t].member
                                          /\ tokens'[t].state # "none" => new[t].state # "none"
      <4> HIDE DEF new
      <4>1. ASSUME NEW t \in Token \ {issued + 1}
            PROVE  tokens'[t].member = new[t].member /\ (tokens'[t].state # "none" => new[t].state # "none")
        <5>1. CASE t = u
          BY <2>1, <3>1, <3>2, <3>4, <5>1 DEF TokenType
        <5>2. CASE t # u
          BY <3>1, <3>2, <5>2
        <5> QED BY <5>1, <5>2
      <4> QED BY <4>1
    <3> QED BY <1>4, <2>1, <2>2, <3>1, <3>5
  <2>3. CASE ~(issued < MaxTokens)
    BY <1>1, <1>6, <2>3 DEF Rotate
  <2> QED BY <2>2, <2>3
<1>7. ASSUME NEW r \in Requests, DeleteRow(r) PROVE Own
  BY <1>0, <1>7 DEF DeleteRow, NoToken
<1>8. ASSUME NEW t \in Token, Logout(t) PROVE Own
  <2>1. tokens' = Revoked({t})
    BY <1>0, <1>8 DEF Logout, Revoked
  <2> QED BY <1>2, <1>8, <2>1 DEF Logout
<1>9. ASSUME NEW r \in Requests, NEW m \in Members, Arrive(r, m) PROVE Own
  <2>1. ASSUME NEW p \in Purposes, RequestLink(r, m, p) PROVE Own
    BY <1>1, <2>1 DEF RequestLink
  <2>2. CASE ConsumeVerification(r, m) \/ Login(r, m) \/ ChangePassword(r, m) \/ ConsumeReset(r, m)
    BY <1>1, <2>2 DEF ConsumeVerification, Login, ChangePassword, ConsumeReset
  <2>3. CASE Suspend(r, m) \/ DeleteMember(r, m) \/ EraseSelf(r, m)
    BY <1>1, <2>3 DEF Suspend, DeleteMember, EraseSelf, Lock
  <2> QED BY <1>9, <2>1, <2>2, <2>3 DEF Arrive
<1>10. ASSUME NEW m \in Members, SignUp(m) \/ Reinstate(m) \/ \E p \in Purposes : LinkExpires(m, p) PROVE Own
  BY <1>1, <1>10 DEF SignUp, Reinstate, LinkExpires
<1>11. ASSUME NEW r \in Requests, Fails(r) \/ \E t \in Token : ValidateToken(r, t) PROVE Own
  <2>1. CASE Fails(r)
    BY <1>1, <2>1 DEF Fails
  <2>2. ASSUME NEW t \in Token, ValidateToken(r, t) PROVE Own
    BY <1>1, <2>2 DEF ValidateToken
  <2> QED BY <1>11, <2>1, <2>2
<1>12. ASSUME NEW r \in Requests,
              \/ IssueLink(r) \/ MarkVerified(r) \/ ConsumeToken(r) \/ StorePassword(r) \/ StartRevocation(r)
              \/ ResetPassword(r) \/ EraseLocks(r) \/ DeadlockAborts(r)
       PROVE  Own
  <2>1. CASE IssueLink(r) \/ MarkVerified(r) \/ ConsumeToken(r) \/ StorePassword(r)
    BY <1>1, <2>1 DEF IssueLink, MarkVerified, ConsumeToken, StorePassword
  <2>2. CASE StartRevocation(r) \/ ResetPassword(r) \/ EraseLocks(r) \/ DeadlockAborts(r)
    BY <1>1, <2>2 DEF StartRevocation, ResetPassword, EraseLocks, DeadlockAborts
  <2> QED BY <1>12, <2>1, <2>2
<1>13. ASSUME NEW r \in Requests, EndChange(r) \/ EndReset(r) \/ EndSuspension(r) PROVE Own
  BY <1>3, <1>13 DEF EndChange, EndReset, EndSuspension
<1>14. ASSUME NEW r \in Requests, Continue(r) PROVE Own
  BY <1>5, <1>6, <1>7, <1>12, <1>13, <1>14, Zenon DEF Continue
<1> QED BY <1>8, <1>9, <1>10, <1>11, <1>14, Zenon DEF SessionsNext

\* A revocation that runs has started, with the tokens then live, and keeps what it saw.
LEMMA SeenStays ==
  ASSUME IInv, SessionsNext, NEW q \in Requests, request'[q].pc = "revoking"
  PROVE  \/ request'[q] = request[q]
         \/ /\ UNCHANGED <<tokens, issued>>
            /\ request'[q].member = request[q].member /\ request'[q].seen = LiveTokens(request[q].member)
<1> DEFINE Kept == \/ request'[q] = request[q]
                   \/ /\ UNCHANGED <<tokens, issued>>
                      /\ request'[q].member = request[q].member
                      /\ request'[q].seen = LiveTokens(request[q].member)
<1>0. request \in [Requests -> RequestType]
  BY DEF IInv, Typed
<1>1. ASSUME UNCHANGED request PROVE Kept
  BY <1>1
<1>2. ASSUME NEW r \in Requests, Answer(r) PROVE Kept
  BY <1>0, <1>2 DEF Answer, NoRequest
<1>3. ASSUME NEW r \in Requests, NEW s, s.pc # "revoking", Begin(r, s) PROVE Kept
  BY <1>0, <1>3 DEF Begin
<1>4. ASSUME NEW r \in Requests, NEW pc \in {"inserting", "changed", "locked"}, Advance(r, pc) PROVE Kept
  <2>1. CASE q = r
    BY <1>0, <1>4, <2>1 DEF Advance, RequestType
  <2>2. CASE q # r
    BY <1>0, <1>4, <2>2 DEF Advance
  <2> QED BY <2>1, <2>2
<1>5. ASSUME NEW r \in Requests, StartRevocation(r) PROVE Kept
  <2>1. CASE q = r
    BY <1>0, <1>5, <2>1 DEF StartRevocation, RequestType
  <2>2. CASE q # r
    BY <1>0, <1>5, <2>2 DEF StartRevocation
  <2> QED BY <2>1, <2>2
<1>6. ASSUME NEW r \in Requests, NEW m \in Members, Arrive(r, m) PROVE Kept
  <2>0. ASSUME NEW op, NEW pc \in {"checked", "consumed", "locked"}
        PROVE  /\ \A p : [NoRequest EXCEPT !.op = op, !.pc = pc, !.member = m, !.purpose = p].pc = pc
               /\ \A l : [NoRequest EXCEPT !.op = op, !.pc = pc, !.member = m, !.link = l].pc = pc
               /\ \A w : [NoRequest EXCEPT !.op = op, !.pc = pc, !.member = m, !.password = w].pc = pc
               /\ [NoRequest EXCEPT !.op = op, !.pc = pc, !.member = m].pc = pc
    BY DEF NoRequest
  <2>1. ASSUME NEW p \in Purposes, RequestLink(r, m, p) PROVE Kept
    BY <1>3, <2>0, <2>1 DEF RequestLink
  <2>2. CASE ConsumeVerification(r, m)
    BY <1>3, <2>0, <2>2 DEF ConsumeVerification
  <2>3. CASE Login(r, m) \/ ChangePassword(r, m)
    BY <1>3, <2>0, <2>3 DEF Login, ChangePassword
  <2>4. CASE ConsumeReset(r, m)
    BY <1>3, <2>0, <2>4 DEF ConsumeReset
  <2>5. CASE Suspend(r, m) \/ DeleteMember(r, m)
    BY <1>3, <2>0, <2>5 DEF Suspend, DeleteMember, Lock
  <2>6. CASE EraseSelf(r, m)
    BY <1>3, <2>0, <2>6 DEF EraseSelf
  <2> QED BY <1>6, <2>1, <2>2, <2>3, <2>4, <2>5, <2>6 DEF Arrive
<1>7. ASSUME NEW r \in Requests, NEW t \in Token, ValidateToken(r, t) PROVE Kept
  <2>1. [NoRequest EXCEPT !.op = "refresh", !.pc = "checked", !.member = tokens[t].member, !.token = t].pc = "checked"
    BY DEF NoRequest
  <2> QED BY <1>3, <1>7, <2>1 DEF ValidateToken
<1>8. ASSUME NEW r \in Requests,
             \/ IssueLink(r) \/ MarkVerified(r) \/ IssueToken(r) \/ Rotate(r) \/ EndChange(r) \/ EndReset(r)
             \/ EndSuspension(r) \/ DeleteRow(r) \/ DeadlockAborts(r) \/ Fails(r)
      PROVE  Answer(r)
  BY <1>8 DEF IssueLink, MarkVerified, IssueToken, Rotate, EndChange, EndReset, EndSuspension, DeleteRow,
     DeadlockAborts, Fails
<1>9. ASSUME NEW r \in Requests, ConsumeToken(r) \/ EraseLocks(r) PROVE Kept
  BY <1>2, <1>4, <1>9 DEF ConsumeToken, EraseLocks
<1>10. ASSUME NEW r \in Requests, StorePassword(r) \/ ResetPassword(r) PROVE Kept
  BY <1>4, <1>10 DEF StorePassword, ResetPassword
<1>11. ASSUME NEW r \in Requests, Continue(r) PROVE Kept
  BY <1>2, <1>5, <1>8, <1>9, <1>10, <1>11, Zenon DEF Continue
<1>12. ASSUME NEW m \in Members, SignUp(m) \/ Reinstate(m) \/ \E p \in Purposes : LinkExpires(m, p) PROVE Kept
  BY <1>1, <1>12 DEF SignUp, Reinstate, LinkExpires
<1>13. ASSUME NEW t \in Token, Logout(t) PROVE Kept
  BY <1>1, <1>13 DEF Logout
<1>14. ASSUME NEW r \in Requests, Fails(r) PROVE Kept
  BY <1>2, <1>8, <1>14
<1> QED BY <1>6, <1>7, <1>11, <1>12, <1>13, <1>14, Zenon DEF SessionsNext

\* What a revocation saw stays its Member's.
LEMMA SeenSteps == IInv /\ SeenOwn /\ [SessionsNext]_sessionVars => SeenOwn'
<1> SUFFICES ASSUME IInv, SeenOwn, [SessionsNext]_sessionVars PROVE SeenOwn'
  OBVIOUS
<1>1. CASE UNCHANGED sessionVars
  BY <1>1 DEF sessionVars, SeenOwn
<1>2. CASE SessionsNext
  <2> SUFFICES ASSUME NEW q \in Requests, request'[q].pc = "revoking", NEW t \in request'[q].seen
               PROVE  t <= issued' /\ (tokens'[t].state # "none" => tokens'[t].member = request'[q].member)
    BY DEF SeenOwn
  <2>0. /\ issued \in Nat /\ issued' \in Nat /\ Token \subseteq Nat
        /\ request[q].seen \subseteq Token
    BY <1>2, Steps, Constants DEF IInv, Typed, RequestType, Token
  <2>1. CASE request'[q] = request[q]
    <3>1. t \in Token /\ t <= issued /\ (tokens[t].state # "none" => tokens[t].member = request[q].member)
      BY <2>0, <2>1 DEF SeenOwn
    <3>2. /\ issued <= issued'
          /\ \A u \in Token : u <= issued /\ tokens'[u].state # "none" =>
               tokens[u].state # "none" /\ tokens'[u].member = tokens[u].member
      BY <1>2, TokensStayOwn
    <3>3. t \in Nat /\ t <= issued'
      BY <2>0, <3>1, <3>2
    <3>4. tokens'[t].state # "none" => tokens'[t].member = request[q].member
      BY <3>1, <3>2
    <3> QED BY <2>1, <3>3, <3>4
  <2>2. CASE /\ UNCHANGED <<tokens, issued>>
             /\ request'[q].member = request[q].member /\ request'[q].seen = LiveTokens(request[q].member)
    <3>1. t \in Token /\ tokens[t].member = request[q].member /\ tokens[t].state = "live"
      BY <2>2 DEF LiveTokens
    <3>2. t <= issued
      BY <2>0, <3>1 DEF IInv, TokenRows, NoToken
    <3> QED BY <2>2, <3>1, <3>2
  <2> QED BY <1>2, <2>1, <2>2, SeenStays
<1> QED BY <1>1, <1>2

\* This request waits for nobody; it and another wait for each other.
Free(q) == \A p \in Requests : ~Waits(q, p)
Paired(q) == Victim(q)

\* Whoever is waited for waits for nobody, is one of two that wait for each other, or
\* waits only for requests that wait for nobody.
WaitsAreShort ==
  \A r, q \in Requests : Waits(r, q) => Free(q) \/ Paired(q) \/ \A p \in Requests : Waits(q, p) => Free(p)

\* A request about to insert holds a live token of its Member.
LEMMA HeldTokens ==
  ASSUME IInv, NEW q \in Requests, NEW t, HoldsToken(q, t)
  PROVE  /\ t = request[q].token /\ t \in Token /\ tokens[t].state = "live"
         /\ tokens[t].member = request[q].member /\ t \in LiveTokens(request[q].member)
         /\ request[q].op = "refresh" /\ request[q].pc = "inserting" /\ request[q].member \in Members
BY DEF HoldsToken, At, IInv, Standing, Lasting, Inserts, Shapes, Shape, LiveTokens

\* One that holds a link is a reset of the link's Member.
LEMMA HeldLinks ==
  ASSUME IInv, NEW q \in Requests, NEW m \in Members, NEW p \in Purposes, HoldsLink(q, links[m][p])
  PROVE  request[q].op = "reset" /\ request[q].member = m /\ request[q].pc \in {"consumed", "locked", "revoking"}
<1>1. /\ request[q].op = "reset" /\ request[q].link = links[m][p] /\ request[q].link # 0
      /\ links[request[q].member]["password_reset"] = request[q].link
      /\ request[q].pc \in {"consumed", "locked", "revoking"}
  BY DEF HoldsLink, IInv, Standing, Lasting, Shapes, Shape
<1>2. request[q].member \in Members /\ "password_reset" \in Purposes
  BY <1>1 DEF IInv, Shapes, Shape, Purposes
<1> QED BY <1>1, <1>2 DEF IInv, LinkTable

\* Whoever holds the row of a Member waits only for requests that wait for it.
LEMMA RowHolderWaits ==
  ASSUME IInv, SeenOwn, NEW q \in Requests, NEW m, HoldsRow(q, m), NEW p \in Requests, Waits(q, p)
  PROVE  Waits(p, q)
<1>1. /\ request[q].member = m /\ m \in Members /\ Locks(request[q])
      /\ request[q].op \in {"suspend", "delete", "erase"} /\ request[q].pc \in {"locked", "revoking"}
  BY DEF HoldsRow, IInv, Shapes, Shape, Locks
<1>2. ASSUME NEW t, HoldsToken(p, t), tokens[t].member = m
      PROVE  Waits(p, q)
  BY <1>2, HeldTokens DEF Waits, At
<1>3. CASE request[q].pc = "revoking"
  <2>1. PICK t \in request[q].seen : HoldsToken(p, t)
    BY <1>1, <1>3 DEF Waits, At
  <2>2. tokens[t].member = m
    BY <1>1, <1>3, <2>1, HeldTokens DEF SeenOwn
  <2> QED BY <1>2, <2>1, <2>2
<1>4. CASE request[q].pc = "locked"
  <2>1. (\E t \in LiveTokens(m) : HoldsToken(p, t)) \/ \E l \in Purposes : HoldsLink(p, links[m][l])
    BY <1>1, <1>4 DEF Waits, At
  <2>2. ASSUME NEW t \in LiveTokens(m), HoldsToken(p, t) PROVE Waits(p, q)
    BY <1>2, <2>2 DEF LiveTokens
  <2>3. ASSUME NEW l \in Purposes, HoldsLink(p, links[m][l]) PROVE Waits(p, q)
    <3>1. /\ request[p].op = "reset" /\ request[p].member = m
          /\ request[p].pc \in {"consumed", "locked", "revoking"}
      BY <1>1, <2>3, HeldLinks
    <3>2. ~Locks(request[p])
      BY <1>1, <3>1 DEF IInv, Exclusive, Apart
    <3>3. request[p].pc = "consumed"
      BY <3>1, <3>2 DEF Locks
    <3> QED BY <3>1, <3>3 DEF Waits, At
  <2> QED BY <2>1, <2>2, <2>3
<1> QED BY <1>1, <1>3, <1>4

\* A rotation waits for holders of its Member's row: they go on, or wait for it.
LEMMA RotationWaits ==
  ASSUME IInv, SeenOwn, NEW q \in Requests, NEW t, HoldsToken(q, t), NEW p \in Requests, Waits(q, p)
  PROVE  Free(p) \/ Waits(p, q)
<1>1. /\ request[q].op = "refresh" /\ request[q].pc = "inserting" /\ request[q].member \in Members
      /\ t \in LiveTokens(request[q].member) /\ t \in Token
      /\ tokens[t].member = request[q].member /\ tokens[t].state = "live"
  BY HeldTokens
<1>2. HoldsRow(p, request[q].member)
  BY <1>1 DEF Waits, At
<1>3. /\ request[p].member = request[q].member
      /\ request[p].op \in {"suspend", "delete", "erase"} /\ request[p].pc \in {"locked", "revoking"}
  BY <1>2 DEF HoldsRow
<1>4. CASE request[p].op = "suspend" /\ request[p].pc = "locked"
  BY <1>4 DEF Free, Waits, At
<1>5. CASE request[p].op = "suspend" /\ request[p].pc = "revoking"
  <2>1. t \in request[p].seen
    BY <1>1, <1>3, <1>5 DEF IInv, Standing, Lasting
  <2> QED BY <1>5, <2>1 DEF Waits
<1>6. CASE request[p].op \in {"delete", "erase"}
  <2>1. request[p].pc = "locked"
    BY <1>3, <1>6 DEF IInv, Shapes, Shape
  <2> QED BY <1>1, <1>3, <1>6, <2>1 DEF Waits
<1> QED BY <1>3, <1>4, <1>5, <1>6

\* A reset that updates the row waits only for rotations that go on.
LEMMA ResetWaits ==
  ASSUME IInv, SeenOwn, NEW q \in Requests, NEW m, UpdatesRow(q, m), NEW p \in Requests, Waits(q, p)
  PROVE  Free(p)
<1>1. /\ request[q].op = "reset" /\ request[q].member = m /\ request[q].pc \in {"locked", "revoking"}
      /\ Locks(request[q])
  BY DEF UpdatesRow, Locks
<1>2. PICK t \in request[q].seen : HoldsToken(p, t)
  BY <1>1 DEF Waits, At
<1>3. request[q].pc = "revoking"
  BY <1>1 DEF Waits, At
<1>4. /\ request[p].member = m /\ request[p].op = "refresh" /\ request[p].pc = "inserting"
  BY <1>1, <1>2, <1>3, HeldTokens DEF SeenOwn
<1>5. ASSUME NEW s \in Requests, Waits(p, s) PROVE FALSE
  <2>1. HoldsRow(s, m)
    BY <1>4, <1>5 DEF Waits, At
  <2>2. Locks(request[s]) /\ request[s].member = m /\ s # q
    BY <1>1, <2>1 DEF HoldsRow, Locks
  <2> QED BY <1>1, <2>2 DEF IInv, Exclusive, Apart
<1> QED BY <1>5 DEF Free

\* What is waited for is a row, a token or a link, each with its holder.
LEMMA WaitsForHolder ==
  ASSUME IInv, NEW r \in Requests, NEW q \in Requests, Waits(r, q)
  PROVE  \/ HoldsRow(q, request[r].member) \/ UpdatesRow(q, request[r].member)
         \/ \E t : HoldsToken(q, t)
         \/ HoldsRow(r, request[r].member) /\ \E p \in Purposes : HoldsLink(q, links[request[r].member][p])
BY DEF Waits, HoldsRow

\* The chains of waits are short in every state of the invariant.
LEMMA ShortWaits == IInv /\ SeenOwn => WaitsAreShort
<1> SUFFICES ASSUME IInv, SeenOwn, NEW r \in Requests, NEW q \in Requests, Waits(r, q)
             PROVE  Free(q) \/ Paired(q) \/ \A p \in Requests : Waits(q, p) => Free(p)
  BY DEF WaitsAreShort
<1>1. CASE HoldsRow(q, request[r].member)
  BY <1>1, RowHolderWaits DEF Free, Paired, Victim
<1>2. CASE UpdatesRow(q, request[r].member)
  BY <1>2, ResetWaits
<1>3. ASSUME NEW t, HoldsToken(q, t)
      PROVE  Paired(q) \/ \A p \in Requests : Waits(q, p) => Free(p)
  BY <1>3, RotationWaits DEF Paired, Victim
<1>4. ASSUME NEW p \in Purposes, HoldsLink(q, links[request[r].member][p]), HoldsRow(r, request[r].member)
      PROVE  Paired(q)
  BY <1>4, RowHolderWaits DEF Paired, Victim
<1> QED BY <1>1, <1>2, <1>3, <1>4, WaitsForHolder

\* A chain of waits for row locks ends after two links or meets two requests that wait
\* for each other, of which PostgreSQL rolls one back (DeadlockAborts): there is no other
\* cycle, for any number of requests. The waits are those of user-queries.ts:54
\* (FOR UPDATE), of the inserts' foreign keys and of the cascades of a deletion.
THEOREM DeadlocksArePairs == SessionsSpec => []WaitsAreShort
<1>1. SessionsInit => SeenOwn
  BY DEF SessionsInit, SeenOwn, NoRequest
<1>2. IInv /\ SeenOwn /\ [SessionsNext]_sessionVars => SeenOwn'
  BY SeenSteps
<1> QED BY <1>1, <1>2, Always, ShortWaits, PTL DEF SessionsSpec

\* What the revocations saw stays their Members', throughout.
LEMMA SeenAlways == SessionsSpec => []SeenOwn
<1>1. SessionsInit => SeenOwn
  BY DEF SessionsInit, SeenOwn, NoRequest
<1> QED BY <1>1, SeenSteps, Always, PTL DEF SessionsSpec

\* A request that holds a row, a token or a link and waits for nobody has all it needs.
LEMMA FreeRuns ==
  ASSUME IInv, NEW q \in Requests, Free(q),
         Inserts(request[q]) \/ Locks(request[q]) \/ At(q, "reset", "consumed")
  PROVE  request[q].pc # "idle" /\ Granted(q)
<1> DEFINE m == request[q].member
<1>1. Shape(request[q]) /\ m \in Members
  BY DEF IInv, Shapes, Shape, Inserts, Locks, At
<1>2. CASE Inserts(request[q])
  <2>1. KeyFree(m)
    BY <1>2 DEF Free, Waits, At, Inserts, KeyFree
  <2> QED BY <1>2, <2>1 DEF Inserts, Granted, At
<1>3. CASE At(q, "reset", "consumed")
  <2>1. RowFree(m)
    BY <1>3 DEF Free, Waits, At, RowFree
  <2> QED BY <1>3, <2>1 DEF Granted, At
<1>4. CASE Locks(request[q])
  <2>1. request[q].pc = "revoking" => \A t \in request[q].seen : TokenFree(t)
    BY DEF Free, Waits, At, TokenFree
  <2>2. ASSUME At(q, "delete", "locked") \/ At(q, "erase", "locked")
        PROVE  /\ \A t \in LiveTokens(m) : TokenFree(t)
               /\ \A p \in Purposes : LinkFree(links[m][p])
    BY <2>2 DEF Free, Waits, At, TokenFree, LinkFree
  <2> QED BY <1>4, <2>1, <2>2 DEF Granted, At, Locks
<1> QED BY <1>2, <1>3, <1>4

\* Of a request that locks the row of a Member or holds a token, and those it waits
\* for, one has all it needs or is a victim.
LEMMA HolderProceeds ==
  ASSUME IInv, SeenOwn, NEW q \in Requests, Inserts(request[q]) \/ Locks(request[q])
  PROVE  \E p \in Requests : request[p].pc # "idle" /\ (Granted(p) \/ Victim(p))
<1>1. request[q].pc # "idle"
  BY DEF Inserts, Locks
<1>2. CASE Free(q)
  BY <1>2, FreeRuns
<1>3. ASSUME NEW p \in Requests, Waits(q, p)
      PROVE  \E s \in Requests : request[s].pc # "idle" /\ (Granted(s) \/ Victim(s))
  <2>1. CASE Waits(p, q)
    BY <1>1, <1>3, <2>1 DEF Victim
  <2>2. CASE HoldsRow(q, request[q].member)
    BY <1>3, <2>1, <2>2, RowHolderWaits
  <2>3. CASE UpdatesRow(q, request[q].member)
    <3>1. Free(p)
      BY <1>3, <2>3, ResetWaits
    <3>2. request[q].op = "reset" /\ request[q].pc \in {"locked", "revoking"}
      BY <2>3 DEF UpdatesRow
    <3>3. \E t : HoldsToken(p, t)
      BY <1>3, <3>2 DEF Waits, At
    <3>4. Inserts(request[p])
      BY <3>3 DEF HoldsToken, At, Inserts
    <3> QED BY <3>1, <3>4, FreeRuns
  <2>4. CASE Inserts(request[q])
    <3>1. Free(p) \/ Waits(p, q)
      BY <1>3, <2>4, RotationWaits DEF HoldsToken, At, Inserts
    <3>2. Locks(request[p])
      BY <1>3, <2>4 DEF Waits, At, Inserts, HoldsRow, Locks
    <3> QED BY <2>1, <3>1, <3>2, FreeRuns
  <2> QED BY <2>2, <2>3, <2>4 DEF HoldsRow, UpdatesRow, Locks
<1> QED BY <1>2, <1>3 DEF Free

\* Who lacks a lock finds it with such a request, or with a reset that lacks its own.
LEMMA NotGranted ==
  ASSUME IInv, NEW r \in Requests, ~Granted(r)
  PROVE  \E q \in Requests : Inserts(request[q]) \/ Locks(request[q]) \/ At(q, "reset", "consumed")
<1>1. ASSUME NEW m, ~KeyFree(m) \/ ~RowFree(m)
      PROVE  \E q \in Requests : Locks(request[q])
  BY <1>1 DEF KeyFree, RowFree, HoldsRow, UpdatesRow, Locks
<1>2. ASSUME NEW t, ~TokenFree(t)
      PROVE  \E q \in Requests : Inserts(request[q])
  BY <1>2 DEF TokenFree, HoldsToken, At, Inserts
<1>3. ASSUME NEW l, ~LinkFree(l)
      PROVE  \E q \in Requests : Locks(request[q]) \/ At(q, "reset", "consumed")
  BY <1>3 DEF LinkFree, HoldsLink, IInv, Shapes, Shape, Locks, At
<1> QED BY <1>1, <1>2, <1>3 DEF Granted

\* The locks never hold up everybody: while requests are in flight, one of them has what
\* its next statement needs, or two wait for each other and one of them is rolled back.
THEOREM NobodyStuck == SessionsSpec => []SomeoneProceeds
<1>1. ASSUME IInv, SeenOwn PROVE SomeoneProceeds
  <2> SUFFICES ASSUME NEW r \in Requests, request[r].pc # "idle"
               PROVE  \E p \in Requests : request[p].pc # "idle" /\ (Granted(p) \/ Victim(p))
    BY DEF SomeoneProceeds
  <2>1. ASSUME NEW q \in Requests, At(q, "reset", "consumed")
        PROVE  \E p \in Requests : request[p].pc # "idle" /\ (Granted(p) \/ Victim(p))
    <3>1. CASE Granted(q)
      BY <2>1, <3>1 DEF At
    <3>2. CASE ~Granted(q)
      <4>1. ~RowFree(request[q].member)
        BY <2>1, <3>2 DEF Granted, At
      <4>2. \E s \in Requests : Locks(request[s])
        BY <4>1 DEF RowFree, HoldsRow, UpdatesRow, Locks
      <4> QED BY <1>1, <4>2, HolderProceeds
    <3> QED BY <3>1, <3>2
  <2> QED BY <1>1, <2>1, NotGranted, HolderProceeds
<1> QED BY <1>1, Always, SeenAlways, PTL

-----------------------------------------------------------------------------
(* Sessions implements SessionLedger.                                      *)

Statuses == [m \in Members |-> account[m].status]
Passwords == [m \in Members |-> account[m].password]
Spent == {l \in Link : spent[l] # 0}
Rows == <<Statuses, Passwords, tokens, 1 .. issued, links, 1 .. mailed, Spent>>

\* One account is written.
Written(m, a) == account' = [account EXCEPT ![m] = a]

\* The columns that change with it.
LEMMA AccountColumns ==
  ASSUME IInv, NEW m \in Members, NEW a, Written(m, a)
  PROVE  /\ Statuses' = [Statuses EXCEPT ![m] = a.status]
         /\ Passwords' = [Passwords EXCEPT ![m] = a.password]
         /\ a.status = account[m].status => Statuses' = Statuses
         /\ a.password = account[m].password => Passwords' = Passwords
         /\ Statuses[m] = account[m].status /\ Passwords[m] = account[m].password
<1>1. \A n \in Members : account'[n] = IF n = m THEN a ELSE account[n]
  BY DEF Written, IInv, Typed
<1>2. Statuses' = [n \in Members |-> IF n = m THEN a.status ELSE Statuses[n]]
  <2>1. \A n \in Members : account'[n].status = IF n = m THEN a.status ELSE account[n].status
    BY <1>1
  <2> QED BY <2>1 DEF Statuses
<1>3. Passwords' = [n \in Members |-> IF n = m THEN a.password ELSE Passwords[n]]
  <2>1. \A n \in Members : account'[n].password = IF n = m THEN a.password ELSE account[n].password
    BY <1>1
  <2> QED BY <2>1 DEF Passwords
<1> QED BY <1>2, <1>3 DEF Statuses, Passwords

\* One link does its work.
LEMMA SpentColumn ==
  ASSUME IInv, NEW m \in Members, NEW p \in Purposes, links[m][p] # 0,
         spent' = [spent EXCEPT ![links[m][p]] = @ + 1]
  PROVE  /\ links[m][p] \in (1 .. mailed) \ Spent
         /\ Spent' = Spent \cup {links[m][p]}
<1>1. links[m][p] \in Link /\ links[m][p] \in 1 .. mailed /\ spent[links[m][p]] = 0
  BY Constants DEF IInv, Typed, LinkTable
<1>2. spent'[links[m][p]] = 1 /\ \A l \in Link \ {links[m][p]} : spent'[l] = spent[l]
  BY <1>1 DEF IInv, Typed
<1> QED BY <1>1, <1>2 DEF Spent

\* The rows a revocation updates are live tokens of its Member, for a suspension all.
LEMMA RevokesOwn ==
  ASSUME IInv, SeenOwn, NEW r \in Requests, request[r].pc = "revoking"
  PROVE  /\ Revocable(r) \in SUBSET Token /\ Revocable(r) \subseteq LiveTokens(request[r].member)
         /\ request[r].op = "suspend" => Revocable(r) = LiveTokens(request[r].member)
<1>1. request[r].seen \subseteq Token
  BY DEF IInv, Typed, RequestType
<1>2. Revocable(r) \subseteq LiveTokens(request[r].member)
  BY <1>1 DEF Revocable, SeenOwn, LiveTokens
<1>3. request[r].op = "suspend" => LiveTokens(request[r].member) \subseteq Revocable(r)
  BY DEF IInv, Standing, Lasting, LiveTokens, Revocable
<1> QED BY <1>1, <1>2, <1>3 DEF Revocable

\* Sign-up, reinstatement, expiry and logout.
LEMMA LedgerAlone ==
  ASSUME IInv,
         \/ \E m \in Members : SignUp(m) \/ Reinstate(m) \/ \E p \in Purposes : LinkExpires(m, p)
         \/ \E t \in Token : Logout(t)
  PROVE  Ledger!Next
<1> USE DEF Statuses, Passwords, Spent, Ledger!accountVars, Ledger!tokenVars, Ledger!linkVars
<1>1. ASSUME NEW m \in Members, SignUp(m) PROVE Ledger!Next
  <2>1. /\ Statuses[m] = "none" /\ Statuses' = [Statuses EXCEPT ![m] = "unverified"]
        /\ Passwords' = [Passwords EXCEPT ![m] = 1]
    <3> DEFINE a == [status |-> "unverified", verified |-> FALSE, password |-> 1]
    <3>1. account[m].status = "none" /\ Written(m, a)
      BY <1>1 DEF SignUp, Written
    <3>2. a.status = "unverified" /\ a.password = 1
      OBVIOUS
    <3> HIDE DEF Statuses, Passwords, a
    <3> QED BY <3>1, <3>2, AccountColumns
  <2>2. Ledger!Join(m)
    BY <1>1, <2>1 DEF SignUp, Ledger!Join, Ledger!Becomes
  <2> QED BY <2>2 DEF Ledger!Next
<1>2. ASSUME NEW m \in Members, Reinstate(m) PROVE Ledger!Next
  <2>1. account' = [account EXCEPT ![m] = [account[m] EXCEPT !.status = "active"]]
    BY <1>2 DEF Reinstate
  <2>2. /\ [account[m] EXCEPT !.status = "active"].status = "active"
        /\ [account[m] EXCEPT !.status = "active"].password = account[m].password
    BY DEF IInv, Typed, AccountType
  <2>3. /\ Statuses[m] = "suspended" /\ Statuses' = [Statuses EXCEPT ![m] = "active"]
        /\ Passwords' = Passwords
    <3> DEFINE a == [account[m] EXCEPT !.status = "active"]
    <3>1. account[m].status = "suspended" /\ Written(m, a) /\ a.status = "active" /\ a.password = account[m].password
      BY <1>2, <2>1, <2>2 DEF Reinstate, Written
    <3> HIDE DEF Statuses, Passwords, a
    <3> QED BY <3>1, AccountColumns
  <2>4. Ledger!Reinstate(m)
    BY <1>2, <2>3 DEF Reinstate, Ledger!Reinstate, Ledger!Becomes
  <2> QED BY <2>4 DEF Ledger!Next
<1>3. ASSUME NEW m \in Members, NEW p \in Purposes, LinkExpires(m, p) PROVE Ledger!Next
  <2>1. Ledger!Expire(m, p)
    BY <1>3 DEF LinkExpires, Ledger!Expire
  <2> QED BY <2>1 DEF Ledger!Next
<1>4. ASSUME NEW t \in Token, Logout(t) PROVE Ledger!Next
  <2>1. PICK m \in Members : tokens[t].member = m
    BY <1>4, Constants DEF Logout, IInv, Typed, TokenRows
  <2>2. tokens' = Ledger!Revoked({t}) /\ {t} \subseteq Ledger!LiveTokens(m)
    BY <1>4, <2>1 DEF Logout, IInv, Typed, Ledger!Revoked, Ledger!LiveTokens, Ledger!Live
  <2>3. Ledger!Revoke(m, {t})
    BY <1>4, <2>2 DEF Logout, Ledger!Revoke
  <2>4. {t} \in SUBSET Token
    OBVIOUS
  <2> QED BY <2>3, <2>4 DEF Ledger!Next
<1> QED BY <1>1, <1>2, <1>3, <1>4

\* What arrives is not seen, but for the link of a verification.
LEMMA LedgerArrivals ==
  ASSUME IInv, NEW r \in Requests,
         (\E m \in Members : Arrive(r, m)) \/ (\E t \in Token : ValidateToken(r, t)) \/ Fails(r)
  PROVE  Ledger!Next \/ UNCHANGED Rows
<1> USE DEF Statuses, Passwords, Spent, Rows, Ledger!accountVars, Ledger!tokenVars, Ledger!linkVars
<1>1. ASSUME NEW m \in Members, ConsumeVerification(r, m) PROVE Ledger!Next
  <2>1. /\ links[m]["email_verification"] \in (1 .. mailed) \ Spent
        /\ Spent' = Spent \cup {links[m]["email_verification"]}
    BY <1>1, SpentColumn DEF ConsumeVerification, Purposes
  <2>2. Ledger!Prove(m)
    BY <1>1, <2>1 DEF ConsumeVerification, Ledger!Prove, Ledger!Spend
  <2> QED BY <2>2 DEF Ledger!Next
<1>2. ASSUME NEW m \in Members, Arrive(r, m), ~ConsumeVerification(r, m) PROVE UNCHANGED Rows
  BY <1>2 DEF Arrive, RequestLink, Login, ChangePassword, ConsumeReset, Suspend, DeleteMember, EraseSelf, Lock
<1>3. ASSUME Fails(r) \/ \E t \in Token : ValidateToken(r, t) PROVE UNCHANGED Rows
  BY <1>3 DEF Fails, ValidateToken
<1> QED BY <1>1, <1>2, <1>3

\* Links are sent, addresses proved, passwords stored.
LEMMA LedgerWrites ==
  ASSUME IInv, NEW r \in Requests, IssueLink(r) \/ MarkVerified(r) \/ StorePassword(r)
  PROVE  Ledger!Next \/ UNCHANGED Rows
<1> USE DEF Statuses, Passwords, Spent, Rows, Ledger!accountVars, Ledger!tokenVars, Ledger!linkVars
<1>1. PICK m \in Members : request[r].member = m
  BY DEF IssueLink, MarkVerified, StorePassword, At, IInv, Shapes, Shape
<1>2. CASE IssueLink(r)
  <2>1. PICK p \in Purposes : request[r].purpose = p
    BY <1>2 DEF IssueLink, At, IInv, Shapes, Shape
  <2>2. CASE UNCHANGED <<links, mailed>>
    BY <1>2, <2>2 DEF IssueLink
  <2>3. CASE ~UNCHANGED <<links, mailed>>
    <3>1. /\ Present(m) /\ mailed < MaxLinks /\ mailed' = mailed + 1
          /\ links' = [links EXCEPT ![m][p] = mailed + 1] /\ UNCHANGED <<account, tokens, issued, spent>>
      BY <1>1, <1>2, <2>1, <2>3 DEF IssueLink
    <3>2. PICK l : l = mailed + 1
      OBVIOUS
    <3>3. l \in Link /\ l \notin 1 .. mailed /\ 1 .. mailed' = (1 .. mailed) \cup {l}
      BY <3>1, <3>2, Constants DEF IInv, Typed
    <3>4. Ledger!Send(m, p, l)
      BY <3>1, <3>2, <3>3 DEF Ledger!Send, Ledger!Present, Present
    <3> QED BY <3>3, <3>4 DEF Ledger!Next
  <2> QED BY <2>2, <2>3
<1>3. CASE MarkVerified(r)
  <2>1. CASE UNCHANGED account
    BY <1>3, <2>1 DEF MarkVerified
  <2>2. CASE ~UNCHANGED account
    <3> DEFINE a == [account[m] EXCEPT !.verified = TRUE,
                                       !.status = IF @ = "unverified" THEN "active" ELSE @]
    <3>1. Written(m, a) /\ UNCHANGED <<tokens, issued, links, mailed, spent>>
      BY <1>1, <1>3, <2>2 DEF MarkVerified, Written, IInv, Typed
    <3>2. /\ a.status = IF account[m].status = "unverified" THEN "active" ELSE account[m].status
          /\ a.password = account[m].password
      BY DEF IInv, Typed, AccountType
    <3> HIDE DEF a
    <3>3. Passwords' = Passwords /\ Statuses' = [Statuses EXCEPT ![m] = a.status]
          /\ (a.status = account[m].status => Statuses' = Statuses)
      BY <3>1, <3>2, AccountColumns
    <3>4. CASE account[m].status = "unverified"
      <4>1. Ledger!Verify(m)
        BY <3>1, <3>2, <3>3, <3>4 DEF Ledger!Verify, Ledger!Becomes
      <4> QED BY <4>1 DEF Ledger!Next
    <3>5. CASE account[m].status # "unverified"
      BY <3>1, <3>2, <3>3, <3>5
    <3> QED BY <3>4, <3>5
  <2> QED BY <2>1, <2>2
<1>4. CASE StorePassword(r)
  <2>1. CASE UNCHANGED account
    BY <1>4, <2>1 DEF StorePassword
  <2>2. CASE ~UNCHANGED account
    <3> DEFINE a == [account[m] EXCEPT !.password = @ + 1]
    <3>1. /\ Written(m, a) /\ UNCHANGED <<tokens, issued, links, mailed, spent>>
          /\ Present(m) /\ account[m].password < MaxPasswords
      BY <1>1, <1>4, <2>2 DEF StorePassword, Written, IInv, Typed
    <3>2. a.status = account[m].status /\ a.password = account[m].password + 1
      BY DEF IInv, Typed, AccountType
    <3> HIDE DEF a
    <3>3. Statuses' = Statuses /\ Passwords' = [Passwords EXCEPT ![m] = Ledger!Renewed(@)]
      <4> HIDE DEF Statuses, Passwords
      <4> QED BY <3>1, <3>2, AccountColumns DEF Ledger!Renewed
    <3>4. Ledger!Change(m)
      BY <3>1, <3>3 DEF Ledger!Change, Ledger!Present, Present
    <3> QED BY <3>4 DEF Ledger!Next
  <2> QED BY <2>1, <2>2
<1> QED BY <1>2, <1>3, <1>4

\* Tokens are issued at a login, and succeeded at a rotation.
LEMMA LedgerTokens ==
  ASSUME IInv, NEW r \in Requests, IssueToken(r) \/ Rotate(r)
  PROVE  Ledger!Next \/ UNCHANGED Rows
<1> USE DEF Statuses, Passwords, Spent, Rows, Ledger!accountVars, Ledger!tokenVars, Ledger!linkVars
<1>1. PICK m \in Members : request[r].member = m
  BY DEF IssueToken, Rotate, At, IInv, Shapes, Shape
<1>2. CASE UNCHANGED <<tokens, issued>>
  BY <1>2 DEF IssueToken, Rotate
<1>3. CASE ~UNCHANGED <<tokens, issued>>
  <2>1. issued < MaxTokens /\ issued' = issued + 1 /\ UNCHANGED <<account, links, mailed, spent>>
    BY <1>3 DEF IssueToken, Rotate
  <2>2. PICK n : n = issued + 1
    OBVIOUS
  <2>3. n \in Token /\ n \notin 1 .. issued /\ 1 .. issued' = (1 .. issued) \cup {n}
    BY <2>1, <2>2, Constants DEF IInv, Typed
  <2>4. CASE IssueToken(r)
    <3>1. Present(m) /\ tokens' = Ledger!Issued(n, m, 0)
      BY <1>1, <1>3, <2>2, <2>4 DEF IssueToken, Inserted, Ledger!Issued
    <3>2. Ledger!Grant(m, n)
      BY <2>1, <2>3, <3>1 DEF Ledger!Grant, Ledger!Present, Present
    <3> QED BY <2>3, <3>2 DEF Ledger!Next
  <2>5. CASE Rotate(r)
    <3>1. PICK t \in Token : request[r].token = t
      BY <2>5 DEF Rotate, At, IInv, Shapes, Shape
    <3>2. tokens[t].state = "live" /\ tokens[t].member = m
      BY <1>1, <2>5, <3>1 DEF Rotate, At, IInv, Standing, Lasting, Inserts
    <3>3. tokens' = [Ledger!Issued(n, tokens[t].member, t) EXCEPT ![t].state = "revoked"]
      BY <1>1, <1>3, <2>2, <2>5, <3>1, <3>2 DEF Rotate, Inserted, Ledger!Issued
    <3>4. Ledger!Succeed(t, n)
      BY <2>1, <2>3, <3>2, <3>3 DEF Ledger!Succeed, Ledger!Live
    <3> QED BY <2>3, <3>4 DEF Ledger!Next
  <2> QED BY <2>4, <2>5
<1> QED BY <1>2, <1>3

\* A revocation ends, with the change of a password, a reset or a suspension.
LEMMA LedgerRevocations ==
  ASSUME IInv, SeenOwn, NEW r \in Requests, EndChange(r) \/ EndReset(r) \/ EndSuspension(r)
  PROVE  Ledger!Next
<1> USE DEF Statuses, Passwords, Spent, Rows, Ledger!accountVars, Ledger!tokenVars, Ledger!linkVars
<1>1. request[r].pc = "revoking" /\ tokens' = Revoked(Revocable(r)) /\ issued' = issued
  BY DEF EndChange, EndReset, EndSuspension, RevocationDone
<1>2. PICK m \in Members : request[r].member = m
  BY <1>1 DEF IInv, Shapes, Shape
<1>3. PICK gone \in SUBSET Token : gone = Revocable(r)
  BY <1>1, RevokesOwn
<1>4. /\ tokens' = Ledger!Revoked(gone) /\ gone \subseteq Ledger!LiveTokens(m)
      /\ request[r].op = "suspend" => gone = Ledger!LiveTokens(m)
  BY <1>1, <1>2, <1>3, RevokesOwn DEF Revoked, Ledger!Revoked, LiveTokens, Ledger!LiveTokens, Ledger!Live
<1>5. request[r].op \in {"reset", "suspend"} => Present(m)
  BY <1>1, <1>2 DEF IInv, Standing, Lasting, Locks
<1>6. CASE EndChange(r)
  <2>1. Ledger!Revoke(m, gone)
    BY <1>1, <1>4, <1>6 DEF EndChange, Ledger!Revoke
  <2> QED BY <2>1 DEF Ledger!Next
<1>7. CASE EndReset(r)
  <2> DEFINE a == [account[m] EXCEPT !.password = IF @ < MaxPasswords THEN @ + 1 ELSE @]
  <2>1. /\ Written(m, a) /\ mailed' = mailed
        /\ links' = [links EXCEPT ![m]["password_reset"] = 0]
        /\ spent' = [spent EXCEPT ![request[r].link] = @ + 1] /\ request[r].op = "reset"
    BY <1>2, <1>7 DEF EndReset, Written, IInv, Typed
  <2>2. a.status = account[m].status /\ a.password = Ledger!Renewed(account[m].password)
    BY DEF IInv, Typed, AccountType, Ledger!Renewed
  <2> HIDE DEF a
  <2>3. Statuses' = Statuses /\ Passwords' = [Passwords EXCEPT ![m] = Ledger!Renewed(@)]
    <3> HIDE DEF Statuses, Passwords
    <3> QED BY <2>1, <2>2, AccountColumns
  <2>4. links[m]["password_reset"] = request[r].link /\ request[r].link # 0
    BY <1>2, <2>1 DEF IInv, Standing, Lasting
  <2>5. /\ links[m]["password_reset"] \in (1 .. mailed) \ Spent
        /\ Spent' = Spent \cup {links[m]["password_reset"]}
    BY <2>1, <2>4, SpentColumn DEF Purposes
  <2>6. Ledger!Spend(m, "password_reset")
    BY <2>1, <2>5 DEF Ledger!Spend
  <2>7. Ledger!Reset(m, gone)
    BY <1>1, <1>4, <1>5, <2>1, <2>3, <2>6 DEF Ledger!Reset, Ledger!Present, Present
  <2> QED BY <2>7 DEF Ledger!Next
<1>8. CASE EndSuspension(r)
  <2> DEFINE a == [account[m] EXCEPT !.status = "suspended"]
  <2>1. /\ Written(m, a) /\ UNCHANGED <<links, mailed, spent>>
        /\ request[r].op = "suspend"
    BY <1>2, <1>8 DEF EndSuspension, Written, IInv, Typed
  <2>2. a.status = "suspended" /\ a.password = account[m].password
    BY DEF IInv, Typed, AccountType
  <2> HIDE DEF a
  <2>3. /\ Statuses[m] = "active" /\ Statuses' = [Statuses EXCEPT ![m] = "suspended"]
        /\ Passwords' = Passwords
    <3> HIDE DEF Statuses, Passwords
    <3> QED BY <1>2, <2>1, <2>2, AccountColumns DEF IInv, Standing, Lasting
  <2>4. Ledger!Suspend(m)
    BY <1>1, <1>4, <2>1, <2>3 DEF Ledger!Suspend, Ledger!Becomes
  <2> QED BY <2>4 DEF Ledger!Next
<1> QED BY <1>6, <1>7, <1>8

\* An erasure is one of the ledger's.
LEMMA LedgerErases ==
  ASSUME IInv, NEW r \in Requests, DeleteRow(r)
  PROVE  Ledger!Next
<1> USE DEF Statuses, Passwords, Spent, Ledger!linkVars
<1>1. PICK m \in Members : request[r].member = m
  BY DEF DeleteRow, IInv, Shapes, Shape
<1>2. Present(m)
  BY <1>1 DEF DeleteRow, IInv, Standing, Lasting, Locks
<1> DEFINE a == [account[m] EXCEPT !.status = "erased"]
<1>3. /\ Written(m, a) /\ UNCHANGED <<issued, mailed, spent>>
      /\ tokens' = [t \in Token |-> IF tokens[t].member = m THEN NoToken ELSE tokens[t]]
      /\ links' = [links EXCEPT ![m] = [p \in Purposes |-> 0]]
  BY <1>1 DEF DeleteRow, Written, IInv, Typed
<1>4. a.status = "erased" /\ a.password = account[m].password
  BY DEF IInv, Typed, AccountType
<1> HIDE DEF a
<1>5. Statuses' = [Statuses EXCEPT ![m] = "erased"] /\ Passwords' = Passwords
  <2> HIDE DEF Statuses, Passwords
  <2> QED BY <1>3, <1>4, AccountColumns
<1>6. Ledger!Erase(m)
  BY <1>2, <1>3, <1>5 DEF Ledger!Erase, Ledger!Present, Present, Ledger!NoToken, NoToken
<1> QED BY <1>6 DEF Ledger!Next

\* However the statements of requests interleave, accounts, tokens and links change as
\* SessionLedger says, one of its steps at a time.
THEOREM SessionsKeepLedger == SessionsSpec => ImplementsLedger
<1>1. SessionsInit => Ledger!Init
  <2> SUFFICES ASSUME SessionsInit PROVE Ledger!Init
    OBVIOUS
  <2>1. /\ Statuses = [m \in Members |-> "none"] /\ Passwords = [m \in Members |-> 0] /\ Spent = {}
        /\ 1 .. issued = {} /\ 1 .. mailed = {}
    BY DEF SessionsInit, Statuses, Passwords, Spent
  <2> QED BY <2>1 DEF SessionsInit, Ledger!Init, Ledger!NoToken, NoToken, Statuses, Passwords, Spent
<1>2. IInv /\ SeenOwn /\ [SessionsNext]_sessionVars => [Ledger!Next]_(Ledger!ledgerVars)
  <2> SUFFICES ASSUME IInv, SeenOwn, [SessionsNext]_sessionVars PROVE Ledger!Next \/ UNCHANGED Rows
    BY DEF Ledger!ledgerVars, Rows, Statuses, Passwords, Spent
  <2>1. CASE UNCHANGED sessionVars
    BY <2>1 DEF sessionVars, Rows, Statuses, Passwords, Spent
  <2>2. ASSUME NEW r \in Requests, Continue(r) PROVE Ledger!Next \/ UNCHANGED Rows
    <3>1. CASE \/ ConsumeToken(r) \/ StartRevocation(r) \/ ResetPassword(r) \/ EraseLocks(r) \/ DeadlockAborts(r)
      BY <3>1 DEF ConsumeToken, StartRevocation, ResetPassword, EraseLocks, DeadlockAborts,
                  Rows, Statuses, Passwords, Spent
    <3> QED BY <2>2, <3>1, LedgerWrites, LedgerTokens, LedgerRevocations, LedgerErases DEF Continue
  <2> QED BY <2>1, <2>2, LedgerAlone, LedgerArrivals DEF SessionsNext
<1> QED BY <1>1, <1>2, Always, SeenAlways, PTL DEF SessionsSpec, ImplementsLedger, Ledger!Spec
=============================================================================
