----------------------------- MODULE AdminForms -----------------------------
(***************************************************************************)
(* The forms of the administration pages, in one tab, over a record that   *)
(* other administrators change meanwhile.  A page loads the record, the    *)
(* form works on a copy of it, and a save sends either the fields that     *)
(* differ from the copy (a Theater) or the whole form (a schedule, the     *)
(* permissions of a role, the role of a user, the settings, the limits).   *)
(*                                                                         *)
(* Nothing of a page can be used while it loads, or, of the settings, be   *)
(* saved before the load has ended: a load is one step.                    *)
(***************************************************************************)
EXTENDS Naturals, FiniteSets

CONSTANTS
  Names,     \* the fields of a form, or the permissions of a role
  Contents,  \* what a field can hold
  Blank      \* an empty field, or a permission not given

ASSUME AdminFormsAssumption == Blank \in Contents /\ Names # {}

VARIABLES
  subject,   \* the page, chosen once
  record,    \* the stored record, or Gone
  base,      \* the record as the page last loaded it
  draft,     \* what the form holds
  touched,   \* the fields typed in since the form took its copy
  form,      \* "closed" or "open"
  save,      \* the request in flight: its state, what it carries, and for the
             \* properties what was loaded and touched when it was sent
  toGrant    \* the new role whose permissions are still to be set, or none

formVars == <<subject, record, base, draft, touched, form, save, toGrant>>

Modals == {"theater", "schedule", "role", "user", "newRole", "newUser"}   \* a form over a list
Standing == {"settings", "limits"}   \* the page is the form
Creating == {"newRole", "newUser"}   \* there is no record before the save
Subjects == Modals \union Standing

Rows == [Names -> Contents]
Bodies == UNION {[fields -> Contents] : fields \in SUBSET Names}
BlankRow == [f \in Names |-> Blank]
Gone == [f \in {} |-> Blank]     \* no record
NoSave == [state |-> "none", body |-> BlankRow, base |-> Gone, touched |-> {}]

FormsTypeOK ==
  /\ subject \in Subjects
  /\ record \in Rows \union {Gone}
  /\ base \in Rows \union {Gone}
  /\ draft \in Rows
  /\ touched \subseteq Names
  /\ form \in {"closed", "open"}
  /\ save \in [state : {"none", "sent", "resetting", "importing", "done", "replaced", "refused"},
               body : Bodies, base : Rows \union {Gone}, touched : SUBSET Names]
  /\ toGrant \in BOOLEAN

FormsInit ==
  /\ subject \in Subjects
  /\ record = IF subject \in Creating THEN Gone ELSE BlankRow
  /\ base = record
  /\ draft = BlankRow
  /\ touched = {}
  /\ form = IF subject \in Standing THEN "open" ELSE "closed"
  /\ save = NoSave
  /\ toGrant = FALSE

-----------------------------------------------------------------------------
Shows(r) == base' = r /\ touched' = {} /\ draft' = IF r = Gone THEN draft ELSE r

\* A list is opened, or loaded again, its form gone.
LoadList ==
  /\ subject \in Modals
  /\ form = "closed"
  /\ save.state = "none"
  /\ base' = record
  /\ draft' = BlankRow
  /\ touched' = {}
  /\ UNCHANGED <<subject, record, form, save, toGrant>>

\* The settings are loaded again when the page is; what was typed meanwhile is lost.
LoadSettings ==
  /\ subject = "settings"
  /\ save.state = "none"
  /\ Shows(record)
  /\ UNCHANGED <<subject, record, form, save, toGrant>>

\* Cancelling is loading again, also during a save.
LoadLimits ==
  /\ subject = "limits"
  /\ Shows(record)
  /\ UNCHANGED <<subject, record, form, save, toGrant>>

\* A row of the list is opened as the list shows it.
OpenForm ==
  /\ subject \in Modals \ Creating
  /\ form = "closed"
  /\ base # Gone
  /\ form' = "open"
  /\ Shows(base)
  /\ UNCHANGED <<subject, record, save, toGrant>>

\* The form of a new user keeps what was typed before it was closed.
OpenNew ==
  /\ subject \in Creating
  /\ form = "closed"
  /\ form' = "open"
  /\ draft' = IF subject = "newRole" THEN BlankRow ELSE draft
  /\ touched' = {}
  /\ UNCHANGED <<subject, record, base, save, toGrant>>

\* The fields of a Theater, a schedule and a user are disabled during a save.
Type(f, v) ==
  /\ form = "open"
  /\ save.state = "none" \/ subject \in Standing \union {"role", "newRole"}
  /\ draft' = [draft EXCEPT ![f] = v]
  /\ touched' = touched \union {f}
  /\ UNCHANGED <<subject, record, base, form, save, toGrant>>

\* The form of a new user closes under a request, at a click beside it.
CloseForm ==
  /\ subject \in Modals
  /\ form = "open"
  /\ save.state = "none" \/ subject = "newUser"
  /\ form' = "closed"
  /\ UNCHANGED <<subject, record, base, draft, touched, save, toGrant>>

-----------------------------------------------------------------------------
(* Saves, as the pages send them.                                          *)

SendForm(state, body, fields) ==
  /\ form = "open"
  /\ save.state = "none"
  /\ save' = [state |-> state, body |-> body, base |-> base, touched |-> fields]
  /\ UNCHANGED <<subject, record, base, draft, touched, form, toGrant>>

\* A form that sends every field.
Differing_Any == Names

Differing == {f \in Names : draft[f] # base[f]}

\* An emptied field of a Theater is left out of the request: it cannot be cleared.
TheaterUpdate == [f \in {g \in Differing : draft[g] # Blank} |-> draft[f]]

SubmitTheater ==
  /\ subject = "theater"
  /\ form = "open"
  /\ Differing # {}
  /\ SendForm("sent", TheaterUpdate, touched)

SubmitSchedule == subject = "schedule" /\ SendForm("sent", draft, touched)
SubmitPermissions == subject = "role" /\ SendForm("sent", draft, touched)
SubmitUserRole == subject = "user" /\ SendForm("sent", draft, touched)
SubmitNewRole == subject = "newRole" /\ SendForm("sent", draft, touched)
SubmitNewUser == subject = "newUser" /\ SendForm("sent", draft, touched)
SubmitSettings == subject = "settings" /\ touched # {} /\ SendForm("sent", draft, touched)
SubmitLimits == subject = "limits" /\ touched # {} /\ SendForm("sent", draft, touched)

\* Confirmed by the administrator: every field is meant.
ResetSettings == subject = "settings" /\ SendForm("resetting", BlankRow, Names)
ImportSettings(r) == subject = "settings" /\ SendForm("importing", r, Names)
ResetLimits == subject = "limits" /\ SendForm("sent", BlankRow, Names)

-----------------------------------------------------------------------------
(* The server's part.                                                      *)

\* The answer carries the record as the statement left it.
Written(r) == record' = r /\ save' = [save EXCEPT !.state = "done", !.body = r]

Updated(body) == [f \in Names |-> IF f \in DOMAIN body THEN body[f] ELSE record[f]]

\* An update without a field is refused, so is one of a Theater that is gone.
ServeTheater ==
  /\ subject = "theater"
  /\ save.state = "sent"
  /\ record # Gone
  /\ DOMAIN save.body # {}
  /\ Written(Updated(save.body))
  /\ UNCHANGED <<subject, base, draft, touched, form, toGrant>>

ServeRow ==
  /\ subject \in {"schedule", "role", "user", "limits"}
  /\ save.state = "sent"
  /\ record # Gone
  /\ Written(Updated(save.body))
  /\ UNCHANGED <<subject, base, draft, touched, form, toGrant>>

ServeSettings ==
  /\ subject = "settings"
  /\ save.state = "sent"
  /\ Written(Updated(save.body))
  /\ UNCHANGED <<subject, base, draft, touched, form, toGrant>>

\* The page does not look at the answer.
Replaced(state) ==
  /\ save.state = state
  /\ record' = save.body
  /\ save' = [save EXCEPT !.state = "replaced"]
  /\ UNCHANGED <<subject, base, draft, touched, form, toGrant>>

ServeReset == Replaced("resetting")
ServeImport == Replaced("importing")

\* A user whose name is taken is refused.
ServeNewUser ==
  /\ subject = "newUser"
  /\ save.state = "sent"
  /\ record = Gone
  /\ Written(save.body)
  /\ UNCHANGED <<subject, base, draft, touched, form, toGrant>>

\* A role is created without permissions; a second request gives them.
ServeCreate ==
  /\ subject = "newRole"
  /\ save.state = "sent"
  /\ ~toGrant
  /\ record = Gone
  /\ record' = BlankRow
  /\ toGrant' = (save.body # BlankRow)
  /\ save' = IF toGrant' THEN save ELSE [save EXCEPT !.state = "done"]
  /\ UNCHANGED <<subject, base, draft, touched, form>>

ServeGrant ==
  /\ toGrant
  /\ save.state = "sent"
  /\ record # Gone
  /\ Written(save.body)
  /\ toGrant' = FALSE
  /\ UNCHANGED <<subject, base, draft, touched, form>>

\* Refused by a check, a limit, an error, a name that is taken or a record that is gone,
\* or lost: the page cannot tell whether it was served.
SaveRefused ==
  /\ save.state \notin {"none", "refused"}
  /\ save' = [save EXCEPT !.state = "refused"]
  /\ toGrant' = FALSE
  /\ UNCHANGED <<subject, record, base, draft, touched, form>>

-----------------------------------------------------------------------------
(* What the pages make of the answers.                                     *)

\* The form closes and the list is loaded again, which may fail.
ListSaved ==
  /\ subject \in Modals
  /\ save.state = "done"
  /\ save' = NoSave
  /\ form' = "closed"
  /\ base' \in {base, record}
  /\ draft' = IF subject = "newUser" THEN BlankRow ELSE draft
  /\ UNCHANGED <<subject, record, touched, toGrant>>

\* The form shows the answer, and loses what was typed since it was sent.
PageSaved ==
  /\ subject \in Standing
  /\ save.state = "done"
  /\ save' = NoSave
  /\ Shows(save.body)
  /\ UNCHANGED <<subject, record, form, toGrant>>

\* After a reset or an import the settings are loaded again, which may fail.
SettingsReplaced ==
  /\ save.state = "replaced"
  /\ save' = NoSave
  /\ \/ Shows(record)
     \/ UNCHANGED <<base, draft, touched>>
  /\ UNCHANGED <<subject, record, form, toGrant>>

\* The form stays as it is, with an error.
NotSaved ==
  /\ save.state = "refused"
  /\ save' = NoSave
  /\ UNCHANGED <<subject, record, base, draft, touched, form, toGrant>>

\* DELETE of the record from this page's list: answered with the list loaded again.
Delete ==
  /\ subject \in {"theater", "schedule", "role", "user"}
  /\ form = "closed"
  /\ base # Gone
  /\ record' = Gone
  /\ base' \in {base, Gone}
  /\ UNCHANGED <<subject, draft, touched, form, save, toGrant>>

\* Other administrators.
OthersWrite ==
  /\ record' \in Rows \union {Gone}
  /\ record' = Gone => subject \in Modals
  /\ record = Gone => record' = Gone \/ subject \in Creating
  /\ UNCHANGED <<subject, base, draft, touched, form, save, toGrant>>

FormsNext ==
  \/ LoadList
  \/ LoadSettings
  \/ LoadLimits
  \/ OpenForm
  \/ OpenNew
  \/ \E f \in Names, v \in Contents : Type(f, v)
  \/ CloseForm
  \/ SubmitTheater
  \/ SubmitSchedule
  \/ SubmitPermissions
  \/ SubmitUserRole
  \/ SubmitNewRole
  \/ SubmitNewUser
  \/ SubmitSettings
  \/ SubmitLimits
  \/ ResetSettings
  \/ \E r \in Rows : ImportSettings(r)
  \/ ResetLimits
  \/ ServeTheater
  \/ ServeRow
  \/ ServeSettings
  \/ ServeReset
  \/ ServeImport
  \/ ServeNewUser
  \/ ServeCreate
  \/ ServeGrant
  \/ SaveRefused
  \/ ListSaved
  \/ PageSaved
  \/ SettingsReplaced
  \/ NotSaved
  \/ Delete
  \/ OthersWrite

FormsSpec == FormsInit /\ [][FormsNext]_formVars

-----------------------------------------------------------------------------
(* Properties.                                                             *)

\* What a served save changes, the administrator typed; or, where the page sends the
\* whole form, somebody else changed it after the page was loaded, and loses it.
SavesWhatWasTyped ==
  [][ServeTheater \/ ServeRow \/ ServeSettings => \A f \in Names : record'[f] # record[f] =>
       f \in save.touched \/ (subject # "theater" /\ record[f] # save.base[f])]_formVars

\* A field nobody typed in holds what the page loaded, and a request carries no field
\* of a Theater that was not typed in.
UntouchedAsLoaded ==
  /\ form = "open" /\ base # Gone /\ subject \notin Creating =>
       \A f \in Names \ touched : draft[f] = base[f]
  /\ save.state = "sent" /\ subject = "theater" => DOMAIN save.body \subseteq save.touched
  /\ save.state = "sent" /\ subject \notin Creating =>
       \A f \in DOMAIN save.body \ save.touched : save.body[f] = save.base[f]

RequestsHaveForms ==
  /\ save.state # "none" /\ subject # "newUser" => form = "open"
  /\ save.state # "none" /\ subject \notin Creating => base # Gone /\ save.base # Gone
  /\ save.state \in {"resetting", "importing", "replaced"} => subject = "settings"
  /\ toGrant => subject = "newRole" /\ save.state = "sent"
  /\ subject \in Standing => form = "open" /\ record # Gone /\ base # Gone
  /\ form = "open" /\ subject \notin Creating => base # Gone
  /\ save.state = "done" \/ (save.state # "none" /\ subject # "theater") => save.body \in Rows

\* What every step preserves.
FormsInv == FormsTypeOK /\ UntouchedAsLoaded /\ RequestsHaveForms
=============================================================================
