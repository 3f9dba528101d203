----------------------------- MODULE MCServices -----------------------------
(* Small instances of the components of the server and of the scraper that *)
(* stand beside the submission pipeline.  They share no state, so that a   *)
(* behaviour runs one of them, chosen at the start, while the variables of *)
(* the others keep their initial values.                                   *)
EXTENDS Sessions, StaffRoles, NotificationBus, ScheduleSync, LivePush, RateLimits, Programme, Startup, ParseCache,
        TLC

VARIABLE part   \* the component that runs

vars == <<part, sessionVars, staffVars, busVars, scheduleVars, pushVars, rateVars, programmeVars, startupVars,
          parseVars>>

Parts == {"sessions", "staff", "bus", "schedule", "push", "rate", "programme", "startup", "parse"}

Init ==
  /\ part \in Parts
  /\ SessionsInit /\ StaffInit /\ BusInit /\ ScheduleInit /\ PushInit /\ RateInit /\ ProgrammeInit
  /\ StartupInit /\ ParseInit
  /\ part # "programme" => today = FirstDay
  /\ part # "rate" => \A v \in Maxima : limitRow <= v
  /\ part # "startup" => recorded = Files /\ adminUser = "admin"

Rest ==
  /\ UNCHANGED part
  /\ part # "sessions" => UNCHANGED sessionVars
  /\ part # "staff" => UNCHANGED staffVars
  /\ part # "bus" => UNCHANGED busVars
  /\ part # "schedule" => UNCHANGED scheduleVars
  /\ part # "push" => UNCHANGED pushVars
  /\ part # "rate" => UNCHANGED rateVars
  /\ part # "programme" => UNCHANGED programmeVars
  /\ part # "startup" => UNCHANGED startupVars
  /\ part # "parse" => UNCHANGED parseVars

Next ==
  \/ part = "sessions" /\ SessionsNext /\ Rest
  \/ part = "staff" /\ StaffNext /\ Rest
  \/ part = "bus" /\ BusNext /\ Rest
  \/ part = "schedule" /\ ScheduleNext /\ Rest
  \/ part = "push" /\ PushNext /\ Rest
  \/ part = "rate" /\ RateNext /\ Rest
  \/ part = "programme" /\ ProgrammeNext /\ Rest
  \/ part = "startup" /\ StartupNext /\ Rest
  \/ part = "parse" /\ ParseNext /\ Rest

Spec == Init /\ [][Next]_vars

\* The configuration gives sets of different components the same elements, so
\* that one group of permutations serves them all.
Symmetry == Permutations(Requests)

\* What every component's steps preserve, between any two statements.
ServicesInv ==
  /\ part = "sessions" => SessionsInv
  /\ part = "staff" => StaffInv
  /\ part = "bus" => BusInv
  /\ part = "schedule" => ScheduleInv
  /\ part = "push" => PushInv
  /\ part = "rate" => RateInv
  /\ part = "programme" => ProgrammeInv
  /\ part = "startup" => StartupInv
  /\ part = "parse" => ParseInv

\* A limited scrape takes today and days of the same cinema week only, on every
\* weekday, for any configured number of days (a week and more are alike) and any
\* day of the change to summer time around it (getScrapeDates).  It depends on no
\* scrape, so it is looked at once, at the start.
LimitedScrapesFit ==
  part = "programme" /\ scrapes = 0 =>
    \A day \in today .. today + 6, n \in 0 .. 8 : \A spring \in {Never} \union (day - 1 .. day + 7) :
      LimitedScrapeFits(day, n, spring)
=============================================================================
