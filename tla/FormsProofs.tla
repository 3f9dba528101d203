---------------------------- MODULE FormsProofs -----------------------------
(***************************************************************************)
(* Proofs about the forms of the web client: the administration forms, for *)
(* any fields and contents; the cron expression of a schedule; the search  *)
(* box, for any queries.                                                   *)
(***************************************************************************)
EXTENDS AdminForms, CronForm, SearchBar, TLAPS

-----------------------------------------------------------------------------
(***************************************************************************)
(* AdminForms.                                                             *)
(***************************************************************************)

SaveType == [state : {"none", "sent", "resetting", "importing", "done", "replaced", "refused"},
             body : Bodies, base : Rows \union {Gone}, touched : SUBSET Names]

TypedForms ==
  /\ subject \in Subjects
  /\ record \in Rows \union {Gone}
  /\ base \in Rows \union {Gone}
  /\ draft \in Rows
  /\ touched \subseteq Names
  /\ form \in {"closed", "open"}
  /\ save \in SaveType
  /\ toGrant \in BOOLEAN

\* The invariant, part by part.
LEMMA InvParts == FormsInv <=> TypedForms /\ UntouchedAsLoaded /\ RequestsHaveForms
BY DEF FormsInv, FormsTypeOK, TypedForms, SaveType

\* The parts of the invariant, after a step.
LEMMA NextParts == FormsInv' <=> TypedForms' /\ UntouchedAsLoaded' /\ RequestsHaveForms'
BY DEF FormsInv, FormsTypeOK, TypedForms, SaveType

\* What is sent: every field of a form, or some of them.
LEMMA Sendable ==
  ASSUME NEW fields \in SUBSET Names, NEW b \in [fields -> Contents]
  PROVE  b \in Bodies
BY DEF Bodies

\* A closed form and a free request slot have their types.
LEMMA Plain ==
  /\ BlankRow \in Rows /\ NoSave \in SaveType /\ Rows \subseteq Bodies
  /\ NoSave.state = "none" /\ Gone \notin Rows
<1>1. BlankRow \in Rows
  BY AdminFormsAssumption DEF AdminFormsAssumption, BlankRow, Rows
<1>2. Rows \subseteq Bodies
  BY Sendable DEF Rows
<1>3. Gone \notin Rows
  BY AdminFormsAssumption DEF AdminFormsAssumption, Gone, Rows
<1> QED BY <1>1, <1>2, <1>3 DEF NoSave, SaveType

\* The row an update leaves.
LEMMA UpdatedRow ==
  ASSUME TypedForms, record # Gone
  PROVE  /\ Updated(save.body) \in Rows
         /\ \A f \in Names : Updated(save.body)[f] = IF f \in DOMAIN save.body THEN save.body[f] ELSE record[f]
<1>1. record \in [Names -> Contents]
  BY DEF TypedForms, Rows
<1>2. PICK fields \in SUBSET Names : save.body \in [fields -> Contents]
  BY DEF TypedForms, SaveType, Bodies
<1> QED BY <1>1, <1>2 DEF Updated, Rows

\* The answer of a save carries a row.
LEMMA WrittenKeeps ==
  ASSUME FormsInv, NEW r \in Rows, Written(r), save.state = "sent", toGrant' = FALSE,
         subject \in Standing => record # Gone, UNCHANGED <<subject, base, draft, touched, form>>
  PROVE  FormsInv'
<1>1. /\ save' \in SaveType /\ save'.state = "done" /\ save'.body = r
      /\ save'.base = save.base /\ save'.touched = save.touched
  BY Plain, InvParts DEF Written, TypedForms, SaveType
<1>2. TypedForms'
  BY <1>1, InvParts DEF Written, TypedForms
<1>3. UntouchedAsLoaded'
  BY <1>1, InvParts DEF UntouchedAsLoaded
<1>4. RequestsHaveForms'
  BY <1>1, Plain, InvParts DEF Written, RequestsHaveForms
<1> QED BY <1>2, <1>3, <1>4, NextParts

\* The list is loaded again.
LEMMA LoadListKeeps ==
  ASSUME FormsInv, LoadList
  PROVE  FormsInv'
<1> USE DEF FormsInv, LoadList
<1>1. TypedForms'
  BY Plain, InvParts DEF TypedForms, SaveType, Modals, Standing, Creating, Subjects
<1>2. UntouchedAsLoaded'
  BY Plain, InvParts DEF TypedForms, SaveType, UntouchedAsLoaded, RequestsHaveForms, Modals, Standing, Creating, Subjects, Rows
<1>3. RequestsHaveForms'
  BY Plain, InvParts DEF TypedForms, SaveType, RequestsHaveForms, Modals, Standing, Creating, Subjects
<1> QED BY <1>1, <1>2, <1>3, NextParts

\* The settings are loaded again.
LEMMA LoadSettingsKeeps ==
  ASSUME FormsInv, LoadSettings
  PROVE  FormsInv'
<1> USE DEF FormsInv, LoadSettings, Shows
<1>1. TypedForms'
  BY Plain, InvParts DEF TypedForms, SaveType, Modals, Standing, Creating, Subjects
<1>2. UntouchedAsLoaded'
  BY Plain, InvParts DEF TypedForms, SaveType, UntouchedAsLoaded, RequestsHaveForms, Modals, Standing, Creating, Subjects, Rows
<1>3. RequestsHaveForms'
  BY Plain, InvParts DEF TypedForms, SaveType, RequestsHaveForms, Modals, Standing, Creating, Subjects
<1> QED BY <1>1, <1>2, <1>3, NextParts

\* The limits are loaded again, also during a save.
LEMMA LoadLimitsKeeps ==
  ASSUME FormsInv, LoadLimits
  PROVE  FormsInv'
<1> USE DEF FormsInv, LoadLimits, Shows
<1>1. TypedForms'
  BY Plain, InvParts DEF TypedForms, SaveType, Modals, Standing, Creating, Subjects
<1>2. UntouchedAsLoaded'
  BY Plain, InvParts DEF TypedForms, SaveType, UntouchedAsLoaded, RequestsHaveForms, Modals, Standing, Creating, Subjects, Rows
<1>3. RequestsHaveForms'
  BY Plain, InvParts DEF TypedForms, SaveType, RequestsHaveForms, Modals, Standing, Creating, Subjects
<1> QED BY <1>1, <1>2, <1>3, NextParts

\* A row is opened.
LEMMA OpenFormKeeps ==
  ASSUME FormsInv, OpenForm
  PROVE  FormsInv'
<1> USE DEF FormsInv, OpenForm, Shows
<1>1. TypedForms'
  BY Plain, InvParts DEF TypedForms, SaveType, Modals, Standing, Creating, Subjects
<1>2. UntouchedAsLoaded'
  BY Plain, InvParts DEF TypedForms, SaveType, UntouchedAsLoaded, RequestsHaveForms, Modals, Standing, Creating, Subjects, Rows
<1>3. RequestsHaveForms'
  BY Plain, InvParts DEF TypedForms, SaveType, RequestsHaveForms, Modals, Standing, Creating, Subjects
<1> QED BY <1>1, <1>2, <1>3, NextParts

\* The form of a new record is opened.
LEMMA OpenNewKeeps ==
  ASSUME FormsInv, OpenNew
  PROVE  FormsInv'
<1> USE DEF FormsInv, OpenNew
<1>1. TypedForms'
  BY Plain, InvParts DEF TypedForms, SaveType, Modals, Standing, Creating, Subjects
<1>2. UntouchedAsLoaded'
  BY Plain, InvParts DEF TypedForms, SaveType, UntouchedAsLoaded, RequestsHaveForms, Modals, Standing, Creating, Subjects, Rows
<1>3. RequestsHaveForms'
  BY Plain, InvParts DEF TypedForms, SaveType, RequestsHaveForms, Modals, Standing, Creating, Subjects
<1> QED BY <1>1, <1>2, <1>3, NextParts

\* A field is typed in.
LEMMA TypeKeeps ==
  ASSUME FormsInv, NEW f \in Names, NEW v \in Contents, Type(f, v)
  PROVE  FormsInv'
<1> USE DEF FormsInv, Type
<1>1. TypedForms'
  <2>1. draft' \in Rows
    BY InvParts DEF TypedForms, Rows
  <2> QED BY <2>1, InvParts DEF TypedForms
<1>2. UntouchedAsLoaded'
  BY Plain, InvParts DEF TypedForms, SaveType, UntouchedAsLoaded, RequestsHaveForms, Modals, Standing, Creating, Subjects, Rows
<1>3. RequestsHaveForms'
  BY Plain, InvParts DEF TypedForms, SaveType, RequestsHaveForms, Modals, Standing, Creating, Subjects
<1> QED BY <1>1, <1>2, <1>3, NextParts

\* The form is closed.
LEMMA CloseFormKeeps ==
  ASSUME FormsInv, CloseForm
  PROVE  FormsInv'
<1> USE DEF FormsInv, CloseForm
<1>1. TypedForms'
  BY Plain, InvParts DEF TypedForms, SaveType, Modals, Standing, Creating, Subjects
<1>2. UntouchedAsLoaded'
  BY Plain, InvParts DEF TypedForms, SaveType, UntouchedAsLoaded, RequestsHaveForms, Modals, Standing, Creating, Subjects, Rows
<1>3. RequestsHaveForms'
  BY Plain, InvParts DEF TypedForms, SaveType, RequestsHaveForms, Modals, Standing, Creating, Subjects
<1> QED BY <1>1, <1>2, <1>3, NextParts

\* An update of a Theater is served.
LEMMA ServeTheaterKeeps ==
  ASSUME FormsInv, ServeTheater
  PROVE  FormsInv'
<1>1. record # Gone /\ toGrant = FALSE
  BY InvParts DEF ServeTheater, TypedForms, RequestsHaveForms, Standing
<1>2. Updated(save.body) \in Rows
  BY <1>1, InvParts, UpdatedRow
<1> QED BY <1>1, <1>2, WrittenKeeps DEF ServeTheater

\* A whole row is served.
LEMMA ServeRowKeeps ==
  ASSUME FormsInv, ServeRow
  PROVE  FormsInv'
<1>1. record # Gone /\ toGrant = FALSE
  BY InvParts DEF ServeRow, TypedForms, RequestsHaveForms, Standing
<1>2. Updated(save.body) \in Rows
  BY <1>1, InvParts, UpdatedRow
<1> QED BY <1>1, <1>2, WrittenKeeps DEF ServeRow

\* The settings are served.
LEMMA ServeSettingsKeeps ==
  ASSUME FormsInv, ServeSettings
  PROVE  FormsInv'
<1>1. record # Gone /\ toGrant = FALSE
  BY InvParts DEF ServeSettings, TypedForms, RequestsHaveForms, Standing
<1>2. Updated(save.body) \in Rows
  BY <1>1, InvParts, UpdatedRow
<1> QED BY <1>1, <1>2, WrittenKeeps DEF ServeSettings

\* The settings are reset.
LEMMA ServeResetKeeps ==
  ASSUME FormsInv, ServeReset
  PROVE  FormsInv'
<1> USE DEF ServeReset, Replaced
<1>1. subject = "settings" /\ save.body \in Rows
  BY InvParts DEF RequestsHaveForms
<1>2. /\ save' \in SaveType /\ save'.state = "replaced" /\ save'.body = save.body
      /\ save'.base = save.base /\ save'.touched = save.touched
  BY InvParts DEF TypedForms, SaveType
<1> HIDE DEF ServeReset, Replaced
<1>3. record' = save.body /\ UNCHANGED <<subject, base, draft, touched, form, toGrant>>
  BY DEF ServeReset, Replaced
<1>4. TypedForms' 
  BY <1>1, <1>2, <1>3, InvParts DEF TypedForms
<1>5. UntouchedAsLoaded'
  BY <1>1, <1>2, <1>3, InvParts DEF UntouchedAsLoaded
<1>6. RequestsHaveForms'
  <2>1. ~toGrant
    BY <1>1, InvParts DEF RequestsHaveForms
  <2> QED BY <1>1, <1>2, <1>3, <2>1, Plain, InvParts DEF ServeReset, Replaced, RequestsHaveForms
<1> QED BY <1>4, <1>5, <1>6, NextParts

\* Settings are imported.
LEMMA ServeImportKeeps ==
  ASSUME FormsInv, ServeImport
  PROVE  FormsInv'
<1> USE DEF ServeImport, Replaced
<1>1. subject = "settings" /\ save.body \in Rows
  BY InvParts DEF RequestsHaveForms
<1>2. /\ save' \in SaveType /\ save'.state = "replaced" /\ save'.body = save.body
      /\ save'.base = save.base /\ save'.touched = save.touched
  BY InvParts DEF TypedForms, SaveType
<1> HIDE DEF ServeImport, Replaced
<1>3. record' = save.body /\ UNCHANGED <<subject, base, draft, touched, form, toGrant>>
  BY DEF ServeImport, Replaced
<1>4. TypedForms' 
  BY <1>1, <1>2, <1>3, InvParts DEF TypedForms
<1>5. UntouchedAsLoaded'
  BY <1>1, <1>2, <1>3, InvParts DEF UntouchedAsLoaded
<1>6. RequestsHaveForms'
  <2>1. ~toGrant
    BY <1>1, InvParts DEF RequestsHaveForms
  <2> QED BY <1>1, <1>2, <1>3, <2>1, Plain, InvParts DEF ServeImport, Replaced, RequestsHaveForms
<1> QED BY <1>4, <1>5, <1>6, NextParts

\* A user is created.
LEMMA ServeNewUserKeeps ==
  ASSUME FormsInv, ServeNewUser
  PROVE  FormsInv'
<1>1. subject \in Creating /\ subject \notin Standing /\ toGrant' = FALSE
  BY InvParts DEF ServeNewUser, TypedForms, RequestsHaveForms, Creating, Standing
<1>2. save.body \in Rows
  BY <1>1, InvParts DEF ServeNewUser, RequestsHaveForms, Creating
<1> QED BY <1>1, <1>2, WrittenKeeps DEF ServeNewUser

\* A role is created, without permissions.
LEMMA ServeCreateKeeps ==
  ASSUME FormsInv, ServeCreate
  PROVE  FormsInv'
<1> USE DEF FormsInv, ServeCreate
<1>1. TypedForms'
  BY Plain, InvParts DEF TypedForms, SaveType, Modals, Standing, Creating, Subjects
<1>2. UntouchedAsLoaded'
  BY Plain, InvParts DEF TypedForms, SaveType, UntouchedAsLoaded, RequestsHaveForms, Modals, Standing, Creating, Subjects, Rows
<1>3. RequestsHaveForms'
  BY Plain, InvParts DEF TypedForms, SaveType, RequestsHaveForms, Modals, Standing, Creating, Subjects
<1> QED BY <1>1, <1>2, <1>3, NextParts

\* Its permissions are set.
LEMMA ServeGrantKeeps ==
  ASSUME FormsInv, ServeGrant
  PROVE  FormsInv'
<1>1. subject \in Creating /\ subject \notin Standing /\ toGrant' = FALSE
  BY InvParts DEF ServeGrant, TypedForms, RequestsHaveForms, Creating, Standing
<1>2. save.body \in Rows
  BY <1>1, InvParts DEF ServeGrant, RequestsHaveForms, Creating
<1> QED BY <1>1, <1>2, WrittenKeeps DEF ServeGrant

\* A request is refused, or lost.
LEMMA SaveRefusedKeeps ==
  ASSUME FormsInv, SaveRefused
  PROVE  FormsInv'
<1> USE DEF FormsInv, SaveRefused
<1>1. TypedForms'
  BY Plain, InvParts DEF TypedForms, SaveType, Modals, Standing, Creating, Subjects
<1>2. UntouchedAsLoaded'
  BY Plain, InvParts DEF TypedForms, SaveType, UntouchedAsLoaded, RequestsHaveForms, Modals, Standing, Creating, Subjects, Rows
<1>3. RequestsHaveForms'
  BY Plain, InvParts DEF TypedForms, SaveType, RequestsHaveForms, Modals, Standing, Creating, Subjects
<1> QED BY <1>1, <1>2, <1>3, NextParts

\* The list takes an answer.
LEMMA ListSavedKeeps ==
  ASSUME FormsInv, ListSaved
  PROVE  FormsInv'
<1> USE DEF FormsInv, ListSaved, NoSave
<1>1. TypedForms'
  BY Plain, InvParts DEF TypedForms, SaveType, Modals, Standing, Creating, Subjects
<1>2. UntouchedAsLoaded'
  BY Plain, InvParts DEF TypedForms, SaveType, UntouchedAsLoaded, RequestsHaveForms, Modals, Standing, Creating, Subjects, Rows
<1>3. RequestsHaveForms'
  BY Plain, InvParts DEF TypedForms, SaveType, RequestsHaveForms, Modals, Standing, Creating, Subjects
<1> QED BY <1>1, <1>2, <1>3, NextParts

\* The page takes an answer.
LEMMA PageSavedKeeps ==
  ASSUME FormsInv, PageSaved
  PROVE  FormsInv'
<1> USE DEF FormsInv, PageSaved, Shows, NoSave
<1>1. TypedForms'
  <2>1. save.body \in Rows
    BY InvParts DEF RequestsHaveForms
  <2> QED BY <2>1, Plain, InvParts DEF TypedForms, SaveType, Modals, Standing, Creating, Subjects
<1>2. UntouchedAsLoaded'
  BY Plain, InvParts DEF TypedForms, SaveType, UntouchedAsLoaded, RequestsHaveForms, Modals, Standing, Creating, Subjects, Rows
<1>3. RequestsHaveForms'
  <2>1. save.body \in Rows
    BY InvParts DEF RequestsHaveForms
  <2> QED BY <2>1, Plain, InvParts DEF TypedForms, RequestsHaveForms, Standing, Creating
<1> QED BY <1>1, <1>2, <1>3, NextParts

\* The settings were replaced.
LEMMA SettingsReplacedKeeps ==
  ASSUME FormsInv, SettingsReplaced
  PROVE  FormsInv'
<1> USE DEF FormsInv, SettingsReplaced, Shows, NoSave
<1>1. TypedForms'
  BY Plain, InvParts DEF TypedForms, SaveType, Modals, Standing, Creating, Subjects
<1>2. UntouchedAsLoaded'
  BY Plain, InvParts DEF TypedForms, SaveType, UntouchedAsLoaded, RequestsHaveForms, Modals, Standing, Creating, Subjects, Rows
<1>3. RequestsHaveForms'
  BY Plain, InvParts DEF TypedForms, SaveType, RequestsHaveForms, Modals, Standing, Creating, Subjects
<1> QED BY <1>1, <1>2, <1>3, NextParts

\* The form shows an error.
LEMMA NotSavedKeeps ==
  ASSUME FormsInv, NotSaved
  PROVE  FormsInv'
<1> USE DEF FormsInv, NotSaved, NoSave
<1>1. TypedForms'
  BY Plain, InvParts DEF TypedForms, SaveType, Modals, Standing, Creating, Subjects
<1>2. UntouchedAsLoaded'
  BY Plain, InvParts DEF TypedForms, SaveType, UntouchedAsLoaded, RequestsHaveForms, Modals, Standing, Creating, Subjects, Rows
<1>3. RequestsHaveForms'
  BY Plain, InvParts DEF TypedForms, SaveType, RequestsHaveForms, Modals, Standing, Creating, Subjects
<1> QED BY <1>1, <1>2, <1>3, NextParts

\* A record is deleted.
LEMMA DeleteKeeps ==
  ASSUME FormsInv, Delete
  PROVE  FormsInv'
<1> USE DEF FormsInv, Delete
<1>1. TypedForms'
  BY Plain, InvParts DEF TypedForms, SaveType, Modals, Standing, Creating, Subjects
<1>2. UntouchedAsLoaded'
  BY Plain, InvParts DEF TypedForms, SaveType, UntouchedAsLoaded, RequestsHaveForms, Modals, Standing, Creating, Subjects, Rows
<1>3. RequestsHaveForms'
  BY Plain, InvParts DEF TypedForms, SaveType, RequestsHaveForms, Modals, Standing, Creating, Subjects
<1> QED BY <1>1, <1>2, <1>3, NextParts

\* Another administrator writes, or deletes.
LEMMA OthersWriteKeeps ==
  ASSUME FormsInv, OthersWrite
  PROVE  FormsInv'
<1> USE DEF FormsInv, OthersWrite
<1>1. TypedForms'
  BY Plain, InvParts DEF TypedForms, SaveType, Modals, Standing, Creating, Subjects
<1>2. UntouchedAsLoaded'
  BY Plain, InvParts DEF TypedForms, SaveType, UntouchedAsLoaded, RequestsHaveForms, Modals, Standing, Creating, Subjects, Rows
<1>3. RequestsHaveForms'
  BY Plain, InvParts DEF TypedForms, SaveType, RequestsHaveForms, Modals, Standing, Creating, Subjects
<1> QED BY <1>1, <1>2, <1>3, NextParts

-----------------------------------------------------------------------------
(***************************************************************************)
(* What the pages send.                                                    *)
(***************************************************************************)

\* A request with fields that were typed in, and no other field that differs from
\* what was loaded.
LEMMA Sends ==
  ASSUME FormsInv, NEW state \in {"sent", "resetting", "importing"}, NEW body \in Bodies, NEW fields \in SUBSET Names,
         SendForm(state, body, fields),
         IF subject = "theater" THEN DOMAIN body \subseteq fields ELSE body \in Rows,
         subject \notin Creating => \A f \in DOMAIN body \ fields : body[f] = base[f],
         state # "sent" => subject = "settings"
  PROVE  FormsInv'
<1> USE DEF SendForm
<1> DEFINE s == [state |-> state, body |-> body, base |-> base, touched |-> fields]
<1>1. s \in SaveType /\ s.state = state /\ s.body = body /\ s.base = base /\ s.touched = fields
  BY InvParts DEF SaveType, TypedForms
<1>2. save' = s
  OBVIOUS
<1> HIDE DEF s
<1>3. TypedForms'
  BY <1>1, <1>2, InvParts DEF TypedForms
<1>4. UntouchedAsLoaded'
  BY <1>1, <1>2, InvParts DEF UntouchedAsLoaded
<1>5. RequestsHaveForms'
  BY <1>1, <1>2, InvParts DEF RequestsHaveForms, TypedForms
<1> QED BY <1>3, <1>4, <1>5, NextParts

\* A form sends all it holds: what nobody typed is as it was loaded.
LEMMA WholeForm ==
  ASSUME FormsInv, subject # "theater", SendForm("sent", draft, touched)
  PROVE  FormsInv'
<1>1. draft \in Bodies /\ touched \in SUBSET Names /\ draft \in Rows
  BY Plain, InvParts DEF TypedForms
<1>2. subject \notin Creating => \A f \in DOMAIN draft \ touched : draft[f] = base[f]
  BY <1>1, InvParts DEF UntouchedAsLoaded, RequestsHaveForms, SendForm, Rows
<1> QED BY <1>1, <1>2, Sends

\* What the edit form of a Theater sends is what was typed, where it changed.
LEMMA TheaterSent ==
  ASSUME FormsInv, SubmitTheater
  PROVE  FormsInv'
<1>1. Differing \subseteq touched
  BY InvParts DEF SubmitTheater, Differing, UntouchedAsLoaded, RequestsHaveForms, Creating
<1>2. TheaterUpdate \in Bodies /\ DOMAIN TheaterUpdate \subseteq Differing
  <2> DEFINE sent == {g \in Differing : draft[g] # Blank}
  <2>1. sent \in SUBSET Names /\ draft \in [Names -> Contents]
    BY InvParts DEF Differing, TypedForms, Rows
  <2>2. TheaterUpdate \in [sent -> Contents]
    BY <2>1 DEF TheaterUpdate
  <2> QED BY <2>1, <2>2, Sendable
<1>3. touched \in SUBSET Names
  BY InvParts DEF TypedForms
<1> QED BY <1>1, <1>2, <1>3, Sends DEF SubmitTheater

\* A form that sends all its fields sends what was typed.
LEMMA AllSent ==
  ASSUME FormsInv,
         \/ SubmitSchedule \/ SubmitPermissions \/ SubmitUserRole \/ SubmitNewRole \/ SubmitNewUser
         \/ SubmitSettings \/ SubmitLimits
  PROVE  FormsInv'
BY WholeForm DEF SubmitSchedule, SubmitPermissions, SubmitUserRole, SubmitNewRole, SubmitNewUser,
   SubmitSettings, SubmitLimits

\* Every field is meant.
LEMMA ReplacementSent ==
  ASSUME FormsInv, ResetSettings \/ ResetLimits \/ \E r \in Rows : ImportSettings(r)
  PROVE  FormsInv'
<1>1. ASSUME NEW r \in Rows, NEW state \in {"sent", "resetting", "importing"}, SendForm(state, r, Names),
             subject # "theater", state # "sent" => subject = "settings"
      PROVE  FormsInv'
  <2>1. r \in Bodies /\ DOMAIN r = Names
    BY Plain DEF Rows
  <2> QED BY <1>1, <2>1, Sends
<1> QED BY <1>1, Plain DEF ResetSettings, ResetLimits, ImportSettings

-----------------------------------------------------------------------------

\* The invariant holds before a form is opened.
LEMMA FormsStart == FormsInit => FormsInv
<1> SUFFICES ASSUME FormsInit PROVE FormsInv
  OBVIOUS
<1>1. subject \in Subjects /\ save = NoSave /\ draft = BlankRow /\ touched = {} /\ toGrant = FALSE
  BY DEF FormsInit
<1>2. /\ base = record /\ record = IF subject \in Creating THEN Gone ELSE BlankRow
      /\ form = IF subject \in Standing THEN "open" ELSE "closed"
  BY DEF FormsInit
<1>3. TypedForms
  BY <1>1, <1>2, Plain DEF TypedForms
<1>4. UntouchedAsLoaded
  BY <1>1, <1>2, Plain DEF UntouchedAsLoaded, Standing, Creating
<1>6. RequestsHaveForms
  BY <1>1, <1>2, Plain DEF RequestsHaveForms, Standing, Creating
<1> QED BY <1>3, <1>4, <1>6, InvParts

\* Every step of the admin forms preserves the invariant.
LEMMA FormsSteps == FormsInv /\ [FormsNext]_formVars => FormsInv'
<1> SUFFICES ASSUME FormsInv, [FormsNext]_formVars PROVE FormsInv'
  OBVIOUS
<1>1. CASE FormsNext
  BY <1>1, LoadListKeeps, LoadSettingsKeeps, LoadLimitsKeeps, OpenFormKeeps, OpenNewKeeps, TypeKeeps, CloseFormKeeps,
     TheaterSent, AllSent, ReplacementSent, ServeTheaterKeeps, ServeRowKeeps, ServeSettingsKeeps, ServeResetKeeps,
     ServeImportKeeps, ServeNewUserKeeps, ServeCreateKeeps, ServeGrantKeeps, SaveRefusedKeeps, ListSavedKeeps,
     PageSavedKeeps, SettingsReplacedKeeps, NotSavedKeeps, DeleteKeeps, OthersWriteKeeps DEF FormsNext
<1>2. CASE UNCHANGED formVars
  BY <1>2, InvParts, NextParts DEF formVars, TypedForms, UntouchedAsLoaded, RequestsHaveForms
<1> QED BY <1>1, <1>2

\* A form shows what its page loaded until somebody types, and a request in flight
\* carries what its form held, for any fields and contents.
THEOREM Forms == FormsSpec => []FormsInv
BY FormsStart, FormsSteps, PTL DEF FormsSpec

\* A served save changes only what was typed, or what somebody else changed under a
\* page that sends its whole form (the pages of client/src/pages/admin).
THEOREM SavesTyped == FormsSpec => SavesWhatWasTyped
<1> DEFINE Meant ==
      ServeTheater \/ ServeRow \/ ServeSettings => \A f \in Names : record'[f] # record[f] =>
        f \in save.touched \/ (subject # "theater" /\ record[f] # save.base[f])
<1>1. ASSUME FormsInv PROVE Meant
  <2> SUFFICES ASSUME ServeTheater \/ ServeRow \/ ServeSettings, NEW f \in Names, record'[f] # record[f]
               PROVE  f \in save.touched \/ (subject # "theater" /\ record[f] # save.base[f])
    OBVIOUS
  <2>1. record # Gone /\ record' = Updated(save.body) /\ save.state = "sent" /\ subject \notin Creating
    BY <1>1, InvParts DEF ServeTheater, ServeRow, ServeSettings, Written, RequestsHaveForms, Standing, Creating
  <2>2. record'[f] = IF f \in DOMAIN save.body THEN save.body[f] ELSE record[f]
    BY <1>1, <2>1, InvParts, UpdatedRow
  <2>3. f \in DOMAIN save.body /\ save.body[f] # record[f]
    BY <2>2
  <2> QED BY <1>1, <2>1, <2>3, InvParts DEF UntouchedAsLoaded
<1>2. FormsSpec => [][Meant]_formVars
  BY <1>1, Forms, PTL DEF FormsSpec
<1> QED BY <1>2 DEF SavesWhatWasTyped
-----------------------------------------------------------------------------
(***************************************************************************)
(* CronForm.                                                               *)
(***************************************************************************)

\* Reading what the controls have built gives the controls' expression again.
LEMMA BuiltReads ==
  ASSUME NEW c \in AllControls
  PROVE  Normal(Built(c)) = Built(c)
<1>1. {Number(d) : d \in c.weekdays} = c.weekdays
  BY DEF AllControls, Number
<1>2. Number(c.hour) = c.hour
  BY DEF AllControls, Number
<1>3. {Number(d) : d \in {}} = {}
  OBVIOUS
<1>4. CASE c.frequency = "weekly" /\ c.weekdays # {}
  BY <1>1, <1>2, <1>4 DEF AllControls, Normal, Built, Controls
<1>5. CASE c.frequency = "monthly"
  BY <1>2, <1>5 DEF AllControls, Normal, Built, Controls, Star
<1>6. CASE c.frequency = "daily" \/ (c.frequency = "weekly" /\ c.weekdays = {})
  BY <1>2, <1>6 DEF AllControls, Normal, Built, Controls, Star
<1> QED BY <1>4, <1>5, <1>6 DEF AllControls

\* What the controls can say is what they build.
LEMMA ExpressibleKept ==
  ASSUME NEW x \in CronExprs, Expressible(x)
  PROVE  Normal(x) = x
<1>1. x.weekdays \subseteq {0, 3}
  BY DEF CronExprs, Expressible, Every
<1>2. {Number(d) : d \in x.weekdays} = x.weekdays
  BY <1>1 DEF Number
<1>3. Number(x.hour) = x.hour
  BY DEF CronExprs, Number, Expressible, Star, Every
<1>4. CASE x.weekdays # {}
  BY <1>2, <1>3, <1>4 DEF CronExprs, Expressible, Normal, Built, Controls, Star
<1>5. CASE x.weekdays = {}
  BY <1>3, <1>5 DEF CronExprs, Expressible, Normal, Built, Controls, Star
<1> QED BY <1>4, <1>5

\* The controls have a reading of every expression.
LEMMA Readings ==
  /\ \A x \in CronExprs : Controls(x) \in AllControls
  /\ Presets \subseteq CronExprs
<1>1. ASSUME NEW x \in CronExprs PROVE Controls(x) \in AllControls
  <2>1. Number(x.hour) \in {0, 3}
    BY DEF CronExprs, Number, Star, Every
  <2>2. {Number(d) : d \in x.weekdays} \in SUBSET {0, 3}
    BY DEF CronExprs, Number, Every
  <2>3. x.day \in {Star, 1}
    BY DEF CronExprs
  <2> QED BY <2>1, <2>2, <2>3 DEF Controls, AllControls
<1>2. Presets \subseteq CronExprs
  BY DEF Presets, CronExprs, WednesdayAt3, Weekly
<1> QED BY <1>1, <1>2

\* CronInv in a form that a step preserves: the opened expression is kept as it was
\* or as the controls build it.
CronFits ==
  /\ CronTypeOK
  /\ isOpen => \A x \in openedOn : Expressible(x) => expression = x
  /\ mode = "simple" => Normal(expression) = Built(controls)

\* The inductive invariant of the cron form implies the one that is model-checked.
LEMMA FitsShow == CronFits => CronInv
<1> SUFFICES ASSUME CronFits PROVE CronInv
  OBVIOUS
<1>1. mode = "simple" /\ Expressible(expression) => expression = Built(controls)
  <2>1. Expressible(expression) => Normal(expression) = expression
    BY ExpressibleKept, BuiltReads DEF CronFits, CronTypeOK
  <2> QED BY <2>1 DEF CronFits
<1> QED BY <1>1 DEF CronFits, CronInv, UntouchedCronKept

\* It holds before the form is opened.
LEMMA CronStarts == CronInit => CronFits
<1>1. WednesdayAt3 \in CronExprs /\ Controls(WednesdayAt3) \in AllControls
  BY Readings DEF Presets
<1> QED BY <1>1 DEF CronInit, CronFits, CronTypeOK, Normal

\* The effects of a render, in simple mode: the expression is the controls', or
\* the one that reads as they do.
LEMMA SettledReads ==
  ASSUME CronTypeOK, NEW x, controls' \in AllControls, mode' \in {"simple", "advanced"}, Settles(x),
         x \in CronExprs \union {Built(c) : c \in AllControls},
         mode' = "simple" => Normal(x) = Built(controls')
  PROVE  /\ expression' \in CronExprs \union {Built(c) : c \in AllControls}
         /\ mode' = "simple" => Normal(expression') = Built(controls')
         /\ expression' = x \/ expression' = Built(controls')
BY BuiltReads DEF Settles

\* Every step of the cron form preserves it.
LEMMA CronSteps == CronFits /\ [CronNext]_cronVars => CronFits'
<1> SUFFICES ASSUME CronFits, [CronNext]_cronVars PROVE CronFits'
  OBVIOUS
<1> USE DEF CronFits
<1>1. ASSUME NEW x \in CronExprs, OpenSchedule(x) PROVE CronFits'
  <2>1. /\ controls' = Controls(x) /\ controls' \in AllControls /\ mode' = "simple"
        /\ openedOn' = {x} /\ isOpen' = TRUE /\ Settles(x)
    BY <1>1, Readings DEF OpenSchedule
  <2>2. Normal(x) = Built(controls')
    BY <2>1 DEF Normal
  <2>3. /\ expression' \in CronExprs \union {Built(c) : c \in AllControls}
        /\ Normal(expression') = Built(controls')
        /\ expression' = x \/ expression' = Built(controls')
    BY <2>1, <2>2, SettledReads
  <2>4. Expressible(x) => expression' = x
    BY <2>2, <2>3, ExpressibleKept
  <2> QED BY <2>1, <2>3, <2>4 DEF CronTypeOK
<1>2. ASSUME NEW x \in Presets, ClickPreset(x) PROVE CronFits'
  <2>1. /\ controls' = Controls(x) /\ controls' \in AllControls /\ mode' = "simple" /\ x \in CronExprs
        /\ openedOn' = {} /\ isOpen' = TRUE /\ Settles(x)
    BY <1>2, Readings DEF ClickPreset, CronTypeOK
  <2>2. Normal(x) = Built(controls')
    BY <2>1 DEF Normal
  <2>3. /\ expression' \in CronExprs \union {Built(c) : c \in AllControls}
        /\ Normal(expression') = Built(controls')
    BY <2>1, <2>2, SettledReads
  <2> QED BY <2>1, <2>3 DEF CronTypeOK
<1>3. ASSUME NEW c \in AllControls, SetControls(c) PROVE CronFits'
  <2>1. /\ controls' = c /\ mode = "simple" /\ mode' = "simple" /\ openedOn' = {} /\ isOpen' = TRUE
        /\ Settles(expression)
    BY <1>3 DEF SetControls, CronTypeOK
  <2>2. /\ expression' \in CronExprs \union {Built(k) : k \in AllControls}
        /\ Normal(expression') = Built(controls')
    BY <2>1, BuiltReads DEF Settles, CronTypeOK
  <2> QED BY <2>1, <2>2 DEF CronTypeOK
<1>4. ASSUME NEW x \in CronExprs, TypeExpression(x) PROVE CronFits'
  BY <1>4 DEF TypeExpression, CronTypeOK
<1>5. CASE SwitchMode
  <2>1. /\ controls' = controls /\ mode' \in {"simple", "advanced"} /\ openedOn' = {} /\ isOpen' = TRUE
        /\ Settles(expression) /\ (mode' = "simple" => mode # "simple")
    BY <1>5 DEF SwitchMode, CronTypeOK
  <2>2. /\ expression' \in CronExprs \union {Built(k) : k \in AllControls}
        /\ mode' = "simple" => Normal(expression') = Built(controls')
    BY <2>1, BuiltReads DEF Settles, CronTypeOK
  <2> QED BY <2>1, <2>2 DEF CronTypeOK
<1>6. CASE CloseSchedule
  BY <1>6 DEF CloseSchedule, CronTypeOK
<1>7. CASE UNCHANGED cronVars
  BY <1>7 DEF cronVars, CronTypeOK
<1> QED BY <1>1, <1>2, <1>3, <1>4, <1>5, <1>6, <1>7 DEF CronNext

\* A schedule saved without a change keeps its expression whenever the simple
\* controls can say it, after any use of the form (ScheduleModal.tsx, cron.ts).
THEOREM CronKept == CronSpec => []UntouchedCronKept
BY CronStarts, CronSteps, FitsShow, PTL DEF CronSpec, CronInv

-----------------------------------------------------------------------------
(***************************************************************************)
(* SearchBar.                                                              *)
(***************************************************************************)

\* What every step preserves: between a reset and the next rest of the text
\* the filter is dropped while the debounced query still stands.
FilterKnown ==
  /\ flights \in [Phrases -> Nat]
  /\ box \in Boxes
  /\ rested \in Boxes
  /\ ~stray /\ flights = [p \in Phrases |-> 0] =>
       filter.of = rested.of \/ (filter = NoFilter /\ box # rested)

\* The invariant holds while the search bar is empty.
LEMMA SearchStarts == SearchInit => FilterKnown
BY DEF SearchInit, FilterKnown, Boxes, Brief, NoFilter

\* EmptyBox boxes differ from every debounced query but the empty one.
LEMMA EmptyBox ==
  ASSUME FilterKnown
  PROVE  Brief \in Boxes /\ (rested = Brief \/ rested # Brief) /\ Brief.of = {} /\ NoFilter.of = {}
BY DEF Boxes, Brief, NoFilter

\* Every step of the search bar preserves the invariant.
LEMMA SearchSteps == FilterKnown /\ [SearchNext]_searchVars => FilterKnown'
<1> SUFFICES ASSUME FilterKnown, [SearchNext]_searchVars PROVE FilterKnown'
  OBVIOUS
<1> USE EmptyBox
<1>1. ASSUME NEW q \in Boxes, Typed(q) PROVE FilterKnown'
  <2>1. CASE q = rested
    BY <1>1, <2>1 DEF Typed, FilterKnown, Boxes, Brief, NoFilter, Query
  <2>2. CASE q # rested
    BY <1>1, <2>2 DEF Typed, FilterKnown
  <2> QED BY <2>1, <2>2
<1>2. CASE Reset
  BY <1>2 DEF Reset, FilterKnown
<1>3. CASE PickResult
  BY <1>3 DEF PickResult, FilterKnown
<1>4. CASE Rest300
  <2>1. CASE box = Brief
    BY <1>4, <2>1 DEF Rest300, FilterKnown, Unfiltered
  <2>2. CASE box # Brief
    <3>1. PICK p \in Phrases : box = Query(p)
      BY <2>2 DEF FilterKnown, Boxes
    <3>2. flights' \in [Phrases -> Nat] /\ flights'[p] > 0
      BY <1>4, <2>2, <3>1 DEF Rest300, FilterKnown
    <3>3. flights' # [q \in Phrases |-> 0]
      BY <3>2
    <3> QED BY <1>4, <2>2, <3>2, <3>3 DEF Rest300, FilterKnown
  <2> QED BY <2>1, <2>2
<1>5. CASE Remount
  BY <1>5 DEF Remount, FilterKnown, Unfiltered
<1>6. ASSUME NEW p \in Phrases, NEW failed \in BOOLEAN, SearchAnswers(p, failed) PROVE FilterKnown'
  <2>1. flights' \in [Phrases -> Nat]
    BY <1>6 DEF SearchAnswers, FilterKnown
  <2>2. stray' \/ rested = Query(p)
    BY <1>6 DEF SearchAnswers
  <2>3. rested = Query(p) => filter'.of = rested.of
    BY <1>6 DEF SearchAnswers, Query
  <2>4. UNCHANGED <<box, rested>>
    BY <1>6 DEF SearchAnswers
  <2> QED BY <2>1, <2>2, <2>3, <2>4 DEF FilterKnown
<1>7. CASE UNCHANGED searchVars
  BY <1>7 DEF searchVars, FilterKnown
<1> QED BY <1>1, <1>2, <1>3, <1>4, <1>5, <1>6, <1>7 DEF SearchNext

\* At rest the page is filtered by what the box says, for every set of queries and
\* any amount of typing, unless an answer came too late or a query was typed again
\* right after a reset (MovieSearchBar.tsx, HomePage.tsx).
THEOREM Filtered == SearchSpec => []FilterFollowsBox
<1>1. FilterKnown => FilterFollowsBox
  BY DEF FilterKnown, FilterFollowsBox, Quiescent
<1> QED BY <1>1, SearchStarts, SearchSteps, PTL DEF SearchSpec

\* Counting what the user did: a search is under way for every rest of a text
\* typed since, the text yet to rest included.
SearchIInv ==
  /\ SearchInv
  /\ typed \in 0 .. MaxTyped
  /\ box \in Boxes /\ rested \in Boxes
  /\ rested # Brief => typed > 0
  /\ \A p \in Phrases : flights[p] + (IF box # rested THEN 1 ELSE 0) <= typed

\* The invariant holds before anything is typed.
LEMMA SearchCountStarts == SearchInit => SearchIInv
BY SearchAssumption DEF SearchInit, SearchIInv, SearchInv, Boxes

\* What the user does pays for the search its text makes.
LEMMA UserPays ==
  ASSUME SearchIInv, User, UNCHANGED flights, box' \in Boxes, rested' \in Boxes,
         results' # NoFilter /\ filter' # NoFilter => results' = filter'
  PROVE  SearchIInv'
<1>1. typed' \in 0 .. MaxTyped /\ typed' = typed + 1 /\ typed' > 0
  BY SearchAssumption DEF SearchIInv, User
<1>2. \A p \in Phrases : flights'[p] + (IF box' # rested' THEN 1 ELSE 0) <= typed'
  BY <1>1 DEF SearchIInv, SearchInv
<1>3. SearchInv'
  BY <1>1 DEF SearchIInv, SearchInv
<1> QED BY <1>1, <1>2, <1>3 DEF SearchIInv

\* Every step of the search bar preserves it.
LEMMA SearchCountSteps == SearchIInv /\ [SearchNext]_searchVars => SearchIInv'
<1> SUFFICES ASSUME SearchIInv, [SearchNext]_searchVars PROVE SearchIInv'
  OBVIOUS
<1>0. Brief \in Boxes
  BY DEF Boxes
<1>1. ASSUME NEW q \in Boxes, Typed(q) PROVE SearchIInv'
  BY <1>1, UserPays DEF Typed, SearchIInv, SearchInv
<1>2. CASE Reset
  BY <1>0, <1>2, UserPays DEF Reset, SearchIInv
<1>3. CASE PickResult
  BY <1>0, <1>3, UserPays DEF PickResult, SearchIInv
<1>4. CASE Rest300
  <2>1. rested' = box /\ box' = box /\ typed' = typed /\ box # rested
    BY <1>4 DEF Rest300
  <2>2. CASE box = Brief
    BY <1>0, <1>4, <2>1, <2>2 DEF Rest300, SearchIInv, SearchInv
  <2>3. CASE box # Brief
    <3>1. /\ flights' = [p \in Phrases |-> flights[p] + (IF Query(p) = box THEN 1 ELSE 0)]
          /\ UNCHANGED <<results, filter>>
      BY <1>4, <2>3 DEF Rest300
    <3>2. typed \in 0 .. MaxTyped /\ flights \in [Phrases -> 0 .. MaxTyped]
      BY DEF SearchIInv, SearchInv
    <3>3. \A p \in Phrases : flights[p] + 1 <= typed
      BY <2>1 DEF SearchIInv
    <3>4. \A p \in Phrases : flights'[p] \in 0 .. MaxTyped /\ flights'[p] <= typed
      BY <3>1, <3>2, <3>3, SearchAssumption
    <3>5. flights' \in [Phrases -> 0 .. MaxTyped]
      BY <3>1, <3>4
    <3>6. rested' # Brief => typed' > 0
      <4>1. PICK p \in Phrases : box = Query(p)
        BY <2>3 DEF SearchIInv, Boxes
      <4> QED BY <2>1, <3>2, <3>3, <4>1
    <3>7. \A p \in Phrases : flights'[p] + (IF box' # rested' THEN 1 ELSE 0) <= typed'
      BY <2>1, <3>4, <3>2, SearchAssumption
    <3> QED BY <2>1, <2>3, <3>1, <3>2, <3>5, <3>6, <3>7 DEF SearchIInv, SearchInv
  <2> QED BY <2>2, <2>3
<1>5. CASE Remount
  BY <1>0, <1>5, UserPays DEF Remount
<1>6. ASSUME NEW p \in Phrases, NEW late \in BOOLEAN, SearchAnswers(p, late) PROVE SearchIInv'
  <2>1. flights \in [Phrases -> 0 .. MaxTyped] /\ typed \in 0 .. MaxTyped
    BY DEF SearchIInv, SearchInv
  <2>2. flights' = [flights EXCEPT ![p] = @ - 1] /\ flights[p] > 0 /\ results' = filter'
        /\ UNCHANGED <<box, rested, typed>>
    BY <1>6 DEF SearchAnswers
  <2>3. flights' \in [Phrases -> 0 .. MaxTyped] /\ \A q \in Phrases : flights'[q] <= flights[q]
    BY <2>1, <2>2, SearchAssumption
  <2>4. \A q \in Phrases : flights'[q] + (IF box' # rested' THEN 1 ELSE 0) <= typed'
    BY <2>1, <2>2, <2>3, SearchAssumption DEF SearchIInv
  <2> QED BY <2>2, <2>3, <2>4 DEF SearchIInv, SearchInv
<1>7. CASE UNCHANGED searchVars
  BY <1>7 DEF searchVars, SearchIInv, SearchInv
<1> QED BY <1>1, <1>2, <1>3, <1>4, <1>5, <1>6, <1>7 DEF SearchNext

\* No more searches are under way than the user did things, the list under the box
\* is the filter of the page until one of them is dropped, and a box emptied over a
\* searched text was emptied by the user (MovieSearchBar.tsx, HomePage.tsx).
THEOREM SearchKept == SearchSpec => []SearchInv
<1>1. SearchIInv => SearchInv
  BY DEF SearchIInv
<1> QED BY <1>1, SearchCountStarts, SearchCountSteps, PTL DEF SearchSpec
=============================================================================
