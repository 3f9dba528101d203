------------------------------ MODULE CronForm ------------------------------
(***************************************************************************)
(* The cron expression of a schedule in the schedule form: the expression, *)
(* the simple controls beside it, and the effects that keep one in step    *)
(* with the other.  The form keeps its controls while it is closed.        *)
(***************************************************************************)
EXTENDS Integers

Star == -1     \* a star
Every == -2   \* a step such as */6, which reads as no number

\* Expressions somebody can type: an hour, a day of the month, a month and weekdays,
\* no weekday for a star.  Minutes read as hours do.
CronExprs == [hour : {Star, Every, 3}, day : {Star, 1}, month : {Star, 6},
              weekdays : {{}, {3}, {0, 3}, {Every}}]

Weekly(hour, weekdays) == [hour |-> hour, day |-> Star, month |-> Star, weekdays |-> weekdays]

\* "Every Wednesday at 3am", "Every 6 hours" and "Every day at 3am".
WednesdayAt3 == Weekly(3, {3})
Presets == {WednesdayAt3, Weekly(Every, {}), Weekly(3, {})}

-----------------------------------------------------------------------------
Number(token) == IF token < 0 THEN 0 ELSE token

\* A controls' reading that forgets to look at the day of the month.
Controls_NoDay(x) ==
  [frequency |-> IF x.weekdays # {} THEN "weekly" ELSE "daily",
   hour |-> Number(x.hour),
   weekdays |-> IF x.weekdays # {} THEN {Number(d) : d \in x.weekdays} ELSE {3},
   monthDay |-> IF x.day # Star THEN x.day ELSE 1]

\* parseCronToSimple, then cronPartsToState: the month is dropped.
Controls(x) ==
  [frequency |-> IF x.weekdays # {} THEN "weekly" ELSE IF x.day # Star THEN "monthly" ELSE "daily",
   hour |-> Number(x.hour),
   weekdays |-> IF x.weekdays # {} THEN {Number(d) : d \in x.weekdays} ELSE {3},
   monthDay |-> IF x.day # Star THEN x.day ELSE 1]

\* buildCron: a week without days is every day.
Built(c) ==
  [hour |-> c.hour,
   day |-> IF c.frequency = "monthly" THEN c.monthDay ELSE Star,
   month |-> Star,
   weekdays |-> IF c.frequency = "weekly" THEN c.weekdays ELSE {}]

Normal(x) == Built(Controls(x))

AllControls == [frequency : {"daily", "weekly", "monthly"}, hour : {0, 3},
                weekdays : SUBSET {0, 3}, monthDay : {1}]

-----------------------------------------------------------------------------
VARIABLES
  openedOn,   \* the expression the form was opened on, until somebody touches the form
  expression, \* the one it would save
  controls,   \* the simple controls
  mode,       \* "simple" or "advanced"
  isOpen      \* the form is shown

cronVars == <<openedOn, expression, controls, mode, isOpen>>

CronInit ==
  /\ openedOn = {}
  /\ expression = WednesdayAt3
  /\ controls = Controls(WednesdayAt3)
  /\ mode = "simple"
  /\ isOpen = FALSE

\* After a render: the expression follows the controls if theirs changed, or the mode did.
Settles(x) ==
  expression' =
    IF mode' = "simple" /\ (Built(controls') # Built(controls) \/ mode # "simple")
      THEN Built(controls') ELSE x

\* A new schedule starts from Wednesdays at three.
OpenSchedule(x) ==
  /\ ~isOpen
  /\ isOpen' = TRUE
  /\ openedOn' = {x}
  /\ controls' = Controls(x)
  /\ mode' = "simple"
  /\ Settles(x)

ClickPreset(x) ==
  /\ isOpen
  /\ mode = "simple"
  /\ controls' = Controls(x)
  /\ openedOn' = {}
  /\ UNCHANGED <<mode, isOpen>>
  /\ Settles(x)

SetControls(c) ==
  /\ isOpen
  /\ mode = "simple"
  /\ controls' = c
  /\ openedOn' = {}
  /\ UNCHANGED <<mode, isOpen>>
  /\ Settles(expression)

\* Typed in the advanced editor, which leaves the controls alone.
TypeExpression(x) ==
  /\ isOpen
  /\ mode = "advanced"
  /\ expression' = x
  /\ openedOn' = {}
  /\ UNCHANGED <<controls, mode, isOpen>>

SwitchMode ==
  /\ isOpen
  /\ mode' = IF mode = "simple" THEN "advanced" ELSE "simple"
  /\ openedOn' = {}
  /\ UNCHANGED <<controls, isOpen>>
  /\ Settles(expression)

\* Saved with the expression, or cancelled.
CloseSchedule ==
  /\ isOpen
  /\ isOpen' = FALSE
  /\ openedOn' = {}
  /\ UNCHANGED <<expression, controls, mode>>

CronNext ==
  \/ \E x \in CronExprs : OpenSchedule(x) \/ TypeExpression(x)
  \/ \E x \in Presets : ClickPreset(x)
  \/ \E c \in AllControls : SetControls(c)
  \/ SwitchMode
  \/ CloseSchedule

CronSpec == CronInit /\ [][CronNext]_cronVars

-----------------------------------------------------------------------------
(* Properties.                                                             *)

\* What the controls can say: numbers, every month, and weekdays or a day, not both.
Expressible(x) ==
  /\ x.hour >= 0 /\ x.month = Star
  /\ Every \notin x.weekdays
  /\ x.weekdays = {} \/ x.day = Star

\* A schedule saved without a change keeps its expression if the controls can say it;
\* in simple mode the controls show what the expression reads as, so that what they
\* show is what is saved whenever they can say it.
UntouchedCronKept ==
  isOpen =>
    /\ \A x \in openedOn : Expressible(x) => expression = x
    /\ mode = "simple" => Normal(expression) = Built(controls)
    /\ mode = "simple" /\ Expressible(expression) => expression = Built(controls)

CronTypeOK ==
  /\ openedOn \subseteq CronExprs
  /\ expression \in CronExprs \union {Built(c) : c \in AllControls}
  /\ controls \in AllControls
  /\ mode \in {"simple", "advanced"}
  /\ isOpen \in BOOLEAN

CronInv == CronTypeOK /\ UntouchedCronKept
=============================================================================
