------------------------------ MODULE Startup --------------------------------
(***************************************************************************)
(* The start of a server process on a database that docker/init.sql has    *)
(* laid: pending migrations, the first administrator, the seed of the      *)
(* catalog.  Each statement commits by itself; a process may die, or a     *)
(* statement fail, between any two of them, and two processes may start at *)
(* once.                                                                   *)
(***************************************************************************)
EXTENDS Naturals, FiniteSets

CONSTANTS Servers,     \* processes
          LastFile,    \* the files of migrations/ are numbered from 1
          Seeds,       \* theaters of config/theaters.json
          MaxDeaths    \* bound on the processes that die or fail

ASSUME StartupAssumption == LastFile \in Nat /\ MaxDeaths \in Nat /\ IsFiniteSet(Seeds)

VARIABLES
  ran,       \* file -> how often it was executed
  recorded,  \* schema_migrations
  adminUser, \* users.username = 'admin': "none" without a row, "admin", or "demoted"
  printed,   \* how many passwords were logged
  catalog,   \* theaters with a URL
  boot,      \* process -> where its start stands
  deaths

startupVars == <<ran, recorded, adminUser, printed, catalog, boot, deaths>>

Files == 1 .. LastFile
Down == [at |-> "down", todo |-> {}, left |-> {}, alone |-> FALSE]

\* An older release has applied the first files.
StartupInit ==
    /\ \E n \in 0 .. LastFile :
          /\ recorded = 1 .. n
          /\ ran = [f \in Files |-> IF f <= n THEN 1 ELSE 0]
          /\ adminUser \in {"admin"} \union {u \in {"none"} : n = 0}
          /\ printed = IF adminUser = "admin" THEN 1 ELSE 0
    /\ catalog = {}
    /\ boot = [s \in Servers |-> Down]
    /\ deaths = 0

------------------------------------------------------------------------------

Goto(s, at) == boot' = [boot EXCEPT ![s].at = at]

\* alone: no other process has run since this one started (history).
Boot(s) == /\ boot[s].at = "down"
           /\ boot' = [t \in Servers |->
                         IF t = s THEN [Down EXCEPT !.at = "pending", !.alone = \A o \in Servers \ {s} : boot[o].at \in {"down", "up"}]
                         ELSE [boot[t] EXCEPT !.alone = FALSE]]
           /\ UNCHANGED <<ran, recorded, adminUser, printed, catalog, deaths>>

\* A start that throws exits the process, which is started again.
Exits(s) == boot' = [boot EXCEPT ![s] = Down]

GetPendingMigrations(s) ==
    /\ boot[s].at = "pending"
    /\ boot' = [boot EXCEPT ![s].at = "apply", ![s].todo = Files \ recorded]
    /\ UNCHANGED <<ran, recorded, adminUser, printed, catalog, deaths>>

First(todo) == CHOOSE f \in todo : \A g \in todo : f <= g

\* The file's own transaction, then the row of schema_migrations.
Effect(s, f) ==
    IF boot[s].at = "apply" THEN ran' = [ran EXCEPT ![f] = @ + 1] /\ UNCHANGED recorded
    ELSE recorded' = recorded \union {f} /\ UNCHANGED ran

ExecuteFile(s) ==
    /\ boot[s].at = "apply" /\ boot[s].todo # {}
    /\ Effect(s, First(boot[s].todo))
    /\ Goto(s, "record")
    /\ UNCHANGED <<adminUser, printed, catalog, deaths>>

\* Another process has recorded it: the primary key refuses the row.
RecordFile(s) ==
    /\ boot[s].at = "record"
    /\ LET f == First(boot[s].todo)
       IN IF f \in recorded THEN Exits(s) /\ UNCHANGED <<ran, recorded>>
          ELSE /\ Effect(s, f)
               /\ boot' = [boot EXCEPT ![s].at = "apply", ![s].todo = @ \ {f}]
    /\ UNCHANGED <<adminUser, printed, catalog, deaths>>

\* ensureInitialAdmin: is there a user with the role?
CountAdmins(s) ==
    /\ boot[s].at = "apply" /\ boot[s].todo = {}
    /\ Goto(s, IF adminUser = "admin" THEN "seed" ELSE "admin")
    /\ UNCHANGED <<ran, recorded, adminUser, printed, catalog, deaths>>

InsertAdmin(s) ==
    /\ boot[s].at = "admin"
    /\ IF adminUser # "none" THEN Exits(s) /\ UNCHANGED adminUser
       ELSE adminUser' = "admin" /\ Goto(s, "print")
    /\ UNCHANGED <<ran, recorded, printed, catalog, deaths>>

PrintPassword(s) ==
    /\ boot[s].at = "print"
    /\ printed' = printed + 1
    /\ Goto(s, "seed")
    /\ UNCHANGED <<ran, recorded, adminUser, catalog, deaths>>

CountTheaters(s) ==
    /\ boot[s].at = "seed"
    /\ boot' = [boot EXCEPT ![s].at = IF catalog = {} THEN "seeding" ELSE "up", ![s].left = IF catalog = {} THEN Seeds ELSE {}]
    /\ UNCHANGED <<ran, recorded, adminUser, printed, catalog, deaths>>

\* ON CONFLICT DO NOTHING.
SeedTheater(s, t) ==
    /\ boot[s].at = "seeding" /\ t \in boot[s].left
    /\ catalog' = catalog \union {t}
    /\ boot' = [boot EXCEPT ![s].left = @ \ {t}]
    /\ UNCHANGED <<ran, recorded, adminUser, printed, deaths>>

\* All are seeded, or a statement failed, which does not stop the start.
Seeded(s) == /\ boot[s].at = "seeding"
             /\ boot[s].left = {} \/ deaths < MaxDeaths
             /\ deaths' = IF boot[s].left = {} THEN deaths ELSE deaths + 1
             /\ boot' = [boot EXCEPT ![s].at = "up", ![s].left = {}]
             /\ UNCHANGED <<ran, recorded, adminUser, printed, catalog>>

\* The process dies, is stopped, or a statement of its start fails.
Dies(s) == /\ boot[s].at # "down"
           /\ deaths < MaxDeaths /\ deaths' = deaths + 1
           /\ Exits(s)
           /\ UNCHANGED <<ran, recorded, adminUser, printed, catalog>>

\* Two overlapping demotions (StaffRoles) leave no administrator.
LastAdminLost == /\ adminUser = "admin"
                 /\ \E s \in Servers : boot[s].at = "up"
                 /\ adminUser' = "demoted"
                 /\ UNCHANGED <<ran, recorded, printed, catalog, boot, deaths>>

StartupNext ==
    \/ LastAdminLost
    \/ \E s \in Servers :
          \/ Boot(s) \/ GetPendingMigrations(s) \/ ExecuteFile(s) \/ RecordFile(s)
          \/ CountAdmins(s) \/ InsertAdmin(s) \/ PrintPassword(s)
          \/ CountTheaters(s) \/ Seeded(s) \/ Dies(s)
          \/ \E t \in Seeds : SeedTheater(s, t)

StartupSpec == StartupInit /\ [][StartupNext]_startupVars

------------------------------------------------------------------------------
(* Properties.                                                              *)

\* A file counts as applied only if it has run, after all those before it,
\* whatever died between its execution and its record (migrations.ts:121-136).
RecordedHasRun ==
    /\ \A f \in recorded : ran[f] > 0
    /\ \A f, g \in Files : f < g /\ ran[g] > 0 => f \in recorded

\* A process that serves has every migration and, unless the last administrator
\* was demoted since, an administrator (schema.ts:20-55, index.ts:15-162).
ServesOnWholeSchema ==
    \A s \in Servers :
        /\ boot[s].at \in {"admin", "print", "seed", "seeding", "up"} => recorded = Files
        /\ boot[s].at \in {"seed", "seeding", "up"} => adminUser # "none"

\* A password that was logged is the stored one: one at most is ever logged, and
\* none for a start whose INSERT was refused (admin-bootstrap.ts:45-62).
OnePassword == /\ printed <= 1
               /\ printed = 1 => adminUser # "none"
               /\ \A s \in Servers : boot[s].at = "print" => printed = 0 /\ adminUser # "none"

\* What an earlier start that died has left never stops a start that runs alone:
\* no row it is about to insert exists, but for a demoted user named admin
\* (migrations.ts:87-136, admin-bootstrap.ts:34-56).
LoneStartGoesOn ==
    \A s \in Servers : boot[s].alone =>
        /\ boot[s].todo \intersect recorded = {}
        /\ boot[s].at = "admin" => adminUser # "admin"

StartupInv == RecordedHasRun /\ ServesOnWholeSchema /\ OnePassword /\ LoneStartGoesOn
=============================================================================
