----------------------------- MODULE MembersPage -----------------------------
(***************************************************************************)
(* The Members section of the administration, in one tab: a page of the    *)
(* list, newest first, the detail of a row, and the dialogs that suspend   *)
(* and delete.  A page is asked for with the offset of the render that     *)
(* started the request, and answers come in any order; other Admins and    *)
(* Members change the base meanwhile.                                      *)
(***************************************************************************)
EXTENDS Naturals, FiniteSets

CONSTANTS MaxMembers,    \* Members ever, numbered by creation
          PageSize,      \* PAGE_SIZE
          MaxListings,   \* bound on the pages asked for at one time
          MaxRemote,     \* bound on the changes made elsewhere
          MaxClicks      \* bound on what the Admin does

ASSUME MembersPageAssumption ==
    /\ MaxMembers \in Nat /\ PageSize \in Nat \ {0} /\ MaxListings \in Nat \ {0}
    /\ MaxRemote \in Nat /\ MaxClicks \in Nat

VARIABLES
  roll,       \* users with the role member: id -> status, "none" without a row
  offset,     \* of the page shown
  members,    \* the rows of the table, [id, status]
  hasNext,    \* hasNextPage
  refreshing, \* the pagination is disabled
  listings,   \* the pages asked for: fetchMembers in flight
  actions,    \* the requests of the three actions, answered or not
  busy,       \* isSwitchingStatus and isDeleting
  viewed,     \* memberToView, NoRow if none
  dialog,     \* the confirmation open: its kind and its Member
  failed,     \* kind -> the Member for which its error is displayed, 0 if none
  listError,  \* the last page asked for could not be loaded
  strayed,    \* history: the rows shown are of another page than `offset' says
  remote, clicks

membersVars == <<roll, offset, members, hasNext, refreshing, listings, actions, busy, viewed, dialog, failed, listError,
                 strayed, remote, clicks>>
tableVars == <<offset, members, hasNext, strayed>>
fetchVars == <<refreshing, listings, listError>>

Ids == 1 .. MaxMembers
Lifecycle == {"unverified", "active", "suspended"}
ActionKinds == {"suspend", "reinstate", "delete"}
NoRow == [id |-> 0, status |-> "none"]
NoDialog == [kind |-> "none", member |-> 0]

Listed == {m \in Ids : roll[m] \in Lifecycle}
Rank(m) == Cardinality({n \in Listed : n > m})

\* listMembers, with the extra row that tells whether a next page exists.
PageAt(o, extra) == {[id |-> m, status |-> roll[m]] : m \in {n \in Listed : Rank(n) >= o /\ Rank(n) < o + PageSize + extra}}

\* The request that fetchMembers starts: `then' is the action it follows.
PageRequest(o, then, others) == [id |-> CHOOSE i \in 1 .. MaxListings : i \notin {f.id : f \in others},
                                 offset |-> o, then |-> then, at |-> "sent", rows |-> {}, extra |-> FALSE]

MembersInit ==
    /\ roll \in {b \in [Ids -> {"unverified", "active", "none"}] :
                    \A m \in Ids : b[m] # "none" => \A n \in 1 .. m : b[n] # "none"}
    /\ offset = 0 /\ members = {} /\ hasNext = FALSE /\ strayed = FALSE
    /\ refreshing = TRUE /\ listError = FALSE
    /\ listings = {PageRequest(0, "page", {})}
    /\ actions = {}
    /\ busy = [status |-> FALSE, delete |-> FALSE]
    /\ viewed = NoRow /\ dialog = NoDialog
    /\ failed = [k \in ActionKinds |-> 0]
    /\ remote = 0 /\ clicks = 0

------------------------------------------------------------------------------
(* The Admin.  A dialog lies over the detail, the detail over the table.    *)

Click == clicks < MaxClicks /\ clicks' = clicks + 1
OnTable == dialog = NoDialog /\ viewed = NoRow
CanAsk == Cardinality(listings) < MaxListings

Ask(o, then) == /\ CanAsk
                /\ listings' = listings \union {PageRequest(o, then, listings)}
                /\ refreshing' = TRUE /\ listError' = FALSE

Previous(o) == IF o > PageSize THEN o - PageSize ELSE 0

\* A new offset makes a new fetchMembers, which the effect runs.
TurnPage(o) ==
    /\ Click /\ OnTable /\ ~refreshing
    /\ (o = offset + PageSize /\ hasNext) \/ (offset # 0 /\ o = Previous(offset))
    /\ offset' = o
    /\ strayed' = FALSE
    /\ Ask(o, "page")
    /\ UNCHANGED <<roll, members, hasNext, actions, busy, viewed, dialog, failed, remote>>

View(row) ==
    /\ Click /\ OnTable
    /\ row \in members
    /\ viewed' = row
    /\ failed' = [failed EXCEPT !["reinstate"] = 0]
    /\ UNCHANGED <<roll, tableVars, fetchVars, actions, busy, dialog, remote>>

CloseDetail ==
    /\ Click /\ viewed # NoRow /\ dialog = NoDialog /\ ~busy.status
    /\ viewed' = NoRow
    /\ failed' = [failed EXCEPT !["reinstate"] = 0]
    /\ UNCHANGED <<roll, tableVars, fetchVars, actions, busy, dialog, remote>>

\* From the table, or from the detail, which it closes and whose buttons are
\* disabled while a status is switched.
OpenDialog(kind, row) ==
    /\ Click /\ dialog = NoDialog
    /\ (viewed = NoRow /\ row \in members) \/ (viewed = row /\ row # NoRow /\ ~busy.status)
    /\ kind = "delete" \/ (kind = "suspend" /\ row.status = "active")
    /\ dialog' = [kind |-> kind, member |-> row.id]
    /\ viewed' = NoRow
    /\ UNCHANGED <<roll, tableVars, fetchVars, actions, busy, failed, remote>>

Flag(kind) == IF kind = "delete" THEN busy.delete ELSE busy.status
SetFlag(kind, value) == IF kind = "delete" THEN [busy EXCEPT !.delete = value] ELSE [busy EXCEPT !.status = value]

\* onClose clears the dialog's error with it.
Dismissed(kind) == [failed EXCEPT ![kind] = 0]

CloseDialog ==
    /\ Click /\ dialog # NoDialog /\ ~Flag(dialog.kind)
    /\ dialog' = NoDialog
    /\ failed' = Dismissed(dialog.kind)
    /\ UNCHANGED <<roll, tableVars, fetchVars, actions, busy, viewed, remote>>

Start(kind, m) ==
    /\ ~Flag(kind)
    /\ busy' = SetFlag(kind, TRUE)
    /\ failed' = [failed EXCEPT ![kind] = 0]
    /\ actions' = actions \union {[kind |-> kind, member |-> m, offset |-> offset, at |-> "sent"]}
    /\ UNCHANGED <<roll, tableVars, fetchVars, viewed, dialog, remote>>

Confirm == Click /\ dialog # NoDialog /\ Start(dialog.kind, dialog.member)

Reinstate(row) == /\ Click /\ dialog = NoDialog
                  /\ (viewed = NoRow /\ row \in members) \/ (viewed = row /\ row # NoRow)
                  /\ row.status = "suspended"
                  /\ Start("reinstate", row.id)

------------------------------------------------------------------------------
(* The server.                                                              *)

Into(kind) == CASE kind = "suspend" -> "suspended" [] kind = "reinstate" -> "active" [] kind = "delete" -> "none"
Takes(kind, status) == CASE kind = "suspend" -> status = "active"
                         [] kind = "reinstate" -> status = "suspended"
                         [] kind = "delete" -> status \in Lifecycle

ServeAction(a) ==
    /\ a.at = "sent"
    /\ IF Takes(a.kind, roll[a.member])
       THEN /\ roll' = [roll EXCEPT ![a.member] = Into(a.kind)]
            /\ actions' = (actions \ {a}) \union {[a EXCEPT !.at = "ok"]}
       ELSE /\ actions' = (actions \ {a}) \union {[a EXCEPT !.at = "refused"]}
            /\ UNCHANGED roll
    /\ UNCHANGED <<tableVars, fetchVars, busy, viewed, dialog, failed, remote, clicks>>

ServeListing(f) ==
    /\ f.at = "sent"
    /\ listings' = (listings \ {f})
         \union {[f EXCEPT !.at = "ok", !.rows = PageAt(f.offset, 0), !.extra = PageAt(f.offset, 1) # PageAt(f.offset, 0)]}
    /\ UNCHANGED <<roll, tableVars, refreshing, listError, actions, busy, viewed, dialog, failed, remote, clicks>>

\* Another Admin acts, a Member confirms the address, or a Member signs up.
ChangesElsewhere(m, status) ==
    /\ remote < MaxRemote /\ remote' = remote + 1
    /\ \/ m \in Listed /\ status \in (Lifecycle \ {"unverified"}) \union {"none"}
       \/ m \notin Listed /\ status = "unverified" /\ \A n \in Listed : n < m
    /\ roll[m] # status
    /\ roll' = [roll EXCEPT ![m] = status]
    /\ UNCHANGED <<tableVars, fetchVars, actions, busy, viewed, dialog, failed, clicks>>

------------------------------------------------------------------------------
(* Answers.                                                                 *)

\* An action that succeeded asks for the page of the render it started in, and
\* its flag falls when that is loaded.
ActionDone(a) ==
    /\ a.at = "ok"
    /\ actions' = actions \ {a}
    /\ Ask(a.offset, a.kind)
    /\ dialog' = IF a.kind = "reinstate" THEN dialog ELSE NoDialog
    /\ viewed' = IF a.kind = "delete" THEN NoRow ELSE viewed
    /\ UNCHANGED <<roll, tableVars, busy, failed, remote, clicks>>

ActionFails(a) ==
    /\ actions' = actions \ {a}
    /\ busy' = SetFlag(a.kind, FALSE)
    /\ failed' = [failed EXCEPT ![a.kind] = a.member]
    /\ UNCHANGED <<roll, tableVars, fetchVars, viewed, dialog, remote, clicks>>

\* `finally', of the action that fetchMembers was awaited by.
Released(f) == busy' = IF f.then = "page" THEN busy ELSE SetFlag(f.then, FALSE)

\* A step back from the page shown now, whose effect asks for it; none from the first.
StepBack(f) ==
    /\ offset' = Previous(offset)
    /\ IF offset' = offset
       THEN listings' = listings \ {f} /\ refreshing' = FALSE /\ UNCHANGED <<listError, strayed>>
       ELSE /\ listings' = (listings \ {f}) \union {PageRequest(offset', "page", listings \ {f})}
            /\ refreshing' = TRUE /\ listError' = FALSE /\ strayed' = FALSE
    /\ UNCHANGED <<members, hasNext, viewed>>

\* The effect on the rows: the detail follows its Member, or closes.
Synced(rows) == IF viewed \in rows THEN viewed
                ELSE IF \E r \in rows : r.id = viewed.id THEN CHOOSE r \in rows : r.id = viewed.id
                ELSE NoRow

Emptied(f) == f.rows = {} /\ f.offset > 0

ListingDone(f) ==
    /\ f.at = "ok"
    /\ Released(f)
    /\ IF Emptied(f) THEN StepBack(f)
       ELSE /\ members' = f.rows
            /\ hasNext' = f.extra
            /\ viewed' = Synced(f.rows)
            /\ strayed' = (f.offset # offset)
            /\ listings' = listings \ {f}
            /\ refreshing' = FALSE
            /\ UNCHANGED <<offset, listError>>
    /\ UNCHANGED <<roll, actions, dialog, failed, remote, clicks>>

ListingFails(f) ==
    /\ listings' = listings \ {f}
    /\ Released(f)
    /\ refreshing' = FALSE
    /\ listError' = TRUE
    /\ UNCHANGED <<roll, tableVars, actions, viewed, dialog, failed, remote, clicks>>

MembersNext ==
    \/ \E o \in {offset + PageSize, Previous(offset)} : TurnPage(o)
    \/ \E row \in members \union {viewed} :
          View(row) \/ Reinstate(row) \/ \E kind \in {"suspend", "delete"} : OpenDialog(kind, row)
    \/ CloseDetail \/ CloseDialog \/ Confirm
    \/ \E a \in actions : ServeAction(a) \/ ActionDone(a) \/ ActionFails(a)
    \/ \E f \in listings : ServeListing(f) \/ ListingDone(f) \/ ListingFails(f)
    \/ \E m \in Ids, status \in Lifecycle \union {"none"} : ChangesElsewhere(m, status)

MembersSpec == MembersInit /\ [][MembersNext]_membersVars

------------------------------------------------------------------------------
(* Properties.                                                              *)

\* The open detail shows a row of the table as it is now displayed, whatever
\* answers, late ones included, have replaced the rows (MembersPage.tsx:75-80).
DetailIsRow == viewed = NoRow \/ viewed \in members

\* A confirmation displays only a failure for the Member that it names
\* (MembersPage.tsx:82-123, 320-350).
DialogErrorIsItsOwn ==
    \A kind \in {"suspend", "delete"} :
        failed[kind] # 0 => dialog = [kind |-> kind, member |-> failed[kind]]

\* At most one status switch and one deletion are under way, from the click to
\* the end of the reload that follows, and its buttons are disabled all that time
\* (MembersPage.tsx:82-123).
OneSwitchAtATime ==
    \A group \in {{"suspend", "reinstate"}, {"delete"}} :
        LET running == {a \in actions : a.kind \in group} \union {f \in listings : f.then \in group}
        IN /\ Cardinality(running) <= 1
           /\ \A kind \in group : Flag(kind) <=> running # {}

\* With nothing under way, a later page is never left empty: it steps back, but
\* for a reload of the first page that an action answered after the page was
\* turned (MembersPage.tsx:50-69).
NotStranded == listings = {} /\ ~listError /\ members = {} => offset = 0 \/ strayed

MembersInv == /\ DetailIsRow /\ DialogErrorIsItsOwn /\ OneSwitchAtATime /\ NotStranded
              /\ offset % PageSize = 0
              /\ Cardinality(members) <= PageSize
=============================================================================
