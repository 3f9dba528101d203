----------------------------- MODULE StaffRoles -----------------------------
(***************************************************************************)
(* The Staff roster and the roles' permissions, as the requests of several *)
(* administrators change them.  Each request checks and then writes with   *)
(* statements of its own on the connection pool, no transaction around     *)
(* them, so that any two requests interleave between check and write.  A   *)
(* rejected request changes no row and is not a step.                      *)
(***************************************************************************)
EXTENDS Naturals, FiniteSets

CONSTANTS
  Staff,           \* the Staff rows of users there may ever be
  InitialAdmin,    \* the row with the username admin
  Roles,           \* the roles administrators create; not admin, operator or member
  Permissions,     \* the rows of permissions
  StaffRequests    \* slots for the requests in flight

ASSUME StaffAssumption ==
  /\ InitialAdmin \in Staff
  /\ IsFiniteSet(Staff)
  /\ "admin" \notin Roles
  /\ "none" \notin Roles
  /\ "none" \notin Staff

VARIABLES
  staffRole,     \* users.role_id, "none" without a row
  roleRows,      \* the custom roles present
  grants,        \* role_permissions
  serving,       \* whether the server listens
  staffRequest   \* the requests in flight

staffVars == <<staffRole, roleRows, grants, serving, staffRequest>>

NoStaffRequest == [op |-> "none", pc |-> "idle", user |-> "none", role |-> "none",
                   asked |-> {}, overtaken |-> FALSE]

Admins == {u \in Staff : staffRole[u] = "admin"}
Assignable == roleRows \cup {"admin"}

StaffTypeOK ==
  /\ staffRole \in [Staff -> Roles \cup {"admin", "none"}]
  /\ roleRows \subseteq Roles
  /\ grants \in [Roles -> SUBSET Permissions]
  /\ serving \in BOOLEAN
  /\ staffRequest \in [StaffRequests ->
       [op : {"none", "create", "assign", "remove", "drop", "replace"},
        pc : {"idle", "checked", "cleared"}, user : Staff \cup {"none"},
        role : Roles \cup {"admin", "none"}, asked : SUBSET Permissions, overtaken : BOOLEAN]]

StaffInit ==
  /\ staffRole = [u \in Staff |-> "none"]
  /\ roleRows = {}
  /\ grants = [ro \in Roles |-> {}]
  /\ serving = FALSE
  /\ staffRequest = [r \in StaffRequests |-> NoStaffRequest]

-----------------------------------------------------------------------------
(* Requests.                                                               *)

Ready(r, op, pc) == staffRequest[r].op = op /\ staffRequest[r].pc = pc

Open(r, req) ==
  /\ serving
  /\ staffRequest[r].pc = "idle"
  /\ staffRequest' = [staffRequest EXCEPT ![r] = req]

Respond(r) == staffRequest' = [staffRequest EXCEPT ![r] = NoStaffRequest]

\* r ends; the requests it overtook are marked (history, no part of the code).
RespondOver(r, over) ==
  staffRequest' = [q \in StaffRequests |->
    IF q = r THEN NoStaffRequest
    ELSE [staffRequest[q] EXCEPT !.overtaken = @ \/ over[q]]]

\* A change of the roster overtakes every check of the roster.
RespondRoster(r) == RespondOver(r, [q \in StaffRequests |-> staffRequest[q].op \in {"assign", "remove"}])

-----------------------------------------------------------------------------
(* Start-up and stop.                                                      *)

\* Without an administrator the row admin is inserted; if a Staff user without the
\* role already has that name, the INSERT fails and the process exits.
ServerStarts ==
  /\ ~serving
  /\ \/ Admins # {} /\ UNCHANGED staffRole
     \/ /\ Admins = {}
        /\ staffRole[InitialAdmin] = "none"
        /\ staffRole' = [staffRole EXCEPT ![InitialAdmin] = "admin"]
  /\ serving' = TRUE
  /\ UNCHANGED <<roleRows, grants, staffRequest>>

\* What a request has written stays, what it had left to write never happens.
ServerStops ==
  /\ serving
  /\ serving' = FALSE
  /\ staffRequest' = [r \in StaffRequests |-> NoStaffRequest]
  /\ UNCHANGED <<staffRole, roleRows, grants>>

-----------------------------------------------------------------------------
(* The roster.                                                             *)

\* The role exists, and it is not the role of Members.
CreateUser(r, u, ro) ==
  /\ ro \in Assignable
  /\ Open(r, [NoStaffRequest EXCEPT !.op = "create", !.pc = "checked", !.user = u, !.role = ro])
  /\ UNCHANGED <<staffRole, roleRows, grants, serving>>

\* The INSERT fails on a username taken or a role gone meanwhile.  A new row has
\* an id that no request in flight refers to.
InsertUser(r) ==
  LET u == staffRequest[r].user
      ro == staffRequest[r].role IN
  /\ Ready(r, "create", "checked")
  /\ \A q \in StaffRequests : staffRequest[q].op \in {"assign", "remove"} => staffRequest[q].user # u
  /\ staffRole' = IF staffRole[u] = "none" /\ ro \in Assignable
                    THEN [staffRole EXCEPT ![u] = ro]
                    ELSE staffRole
  /\ RespondRoster(r)
  /\ UNCHANGED <<roleRows, grants, serving>>

\* A count that is off by one.
LeavesAnAdmin_OffByOne(u) == staffRole[u] = "admin" => Cardinality(Admins) > 0

\* An administrator is demoted or deleted only while another one is counted.
LeavesAnAdmin(u) == staffRole[u] = "admin" => Cardinality(Admins) > 1

UpdateUserRole(r, u, ro) ==
  /\ staffRole[u] # "none"
  /\ ro \in Assignable
  /\ ro # "admin" => LeavesAnAdmin(u)
  /\ Open(r, [NoStaffRequest EXCEPT !.op = "assign", !.pc = "checked", !.user = u, !.role = ro])
  /\ UNCHANGED <<staffRole, roleRows, grants, serving>>

\* No row left is no error; a role gone meanwhile violates the foreign key.
AssignRole(r) ==
  LET u == staffRequest[r].user
      ro == staffRequest[r].role IN
  /\ Ready(r, "assign", "checked")
  /\ staffRole' = IF staffRole[u] # "none" /\ ro \in Assignable
                    THEN [staffRole EXCEPT ![u] = ro]
                    ELSE staffRole
  /\ RespondRoster(r)
  /\ UNCHANGED <<roleRows, grants, serving>>

\* Nobody deletes the own account.
DeleteUser(r, u, actor) ==
  /\ u # actor
  /\ staffRole[u] # "none"
  /\ LeavesAnAdmin(u)
  /\ Open(r, [NoStaffRequest EXCEPT !.op = "remove", !.pc = "checked", !.user = u])
  /\ UNCHANGED <<staffRole, roleRows, grants, serving>>

RemoveUser(r) ==
  /\ Ready(r, "remove", "checked")
  /\ staffRole' = [staffRole EXCEPT ![staffRequest[r].user] = "none"]
  /\ RespondRoster(r)
  /\ UNCHANGED <<roleRows, grants, serving>>

-----------------------------------------------------------------------------
(* Roles and their permissions.                                            *)

\* A new row has an id that no request in flight refers to.
CreateRole(ro) ==
  /\ serving
  /\ ro \notin roleRows
  /\ \A q \in StaffRequests : staffRequest[q].role # ro
  /\ roleRows' = roleRows \cup {ro}
  /\ UNCHANGED <<staffRole, grants, serving, staffRequest>>

\* A custom role that no user holds.
DeleteRole(r, ro) ==
  /\ ro \in roleRows
  /\ \A u \in Staff : staffRole[u] # ro
  /\ Open(r, [NoStaffRequest EXCEPT !.op = "drop", !.pc = "checked", !.role = ro])
  /\ UNCHANGED <<staffRole, roleRows, grants, serving>>

\* The foreign key of users restricts the DELETE.
MayDrop(ro) == ro \in roleRows /\ \A u \in Staff : staffRole[u] # ro

\* The permissions of the role cascade.
DropRole(r) ==
  LET ro == staffRequest[r].role IN
  /\ Ready(r, "drop", "checked")
  /\ IF MayDrop(ro)
       THEN roleRows' = roleRows \ {ro} /\ grants' = [grants EXCEPT ![ro] = {}]
       ELSE UNCHANGED <<roleRows, grants>>
  /\ RespondOver(r, [q \in StaffRequests |->
       staffRequest[q].pc = "cleared" /\ staffRequest[q].role = ro])
  /\ UNCHANGED <<staffRole, serving>>

SetRolePermissions(r, ro, ps) ==
  /\ ro \in roleRows
  /\ Open(r, [NoStaffRequest EXCEPT !.op = "replace", !.pc = "checked", !.role = ro, !.asked = ps])
  /\ UNCHANGED <<staffRole, roleRows, grants, serving>>

\* Only the permissions about to be inserted are deleted.
Cleared_AskedOnly(r, ps) == ps \ staffRequest[r].asked

\* The first statement deletes every permission of the role.
Cleared(r, ps) == {}

ClearGrants(r) ==
  /\ Ready(r, "replace", "checked")
  /\ grants' = [grants EXCEPT ![staffRequest[r].role] = Cleared(r, @)]
  /\ staffRequest' = [staffRequest EXCEPT ![r].pc = "cleared"]
  /\ UNCHANGED <<staffRole, roleRows, serving>>

\* The second inserts those asked for, on top of what others inserted meanwhile.
GrantAsked(r) ==
  LET ro == staffRequest[r].role IN
  /\ Ready(r, "replace", "cleared")
  /\ grants' = IF ro \in roleRows THEN [grants EXCEPT ![ro] = @ \cup staffRequest[r].asked]
                                  ELSE grants
  /\ RespondOver(r, [q \in StaffRequests |->
       staffRequest[q].pc = "cleared" /\ staffRequest[q].role = ro])
  /\ UNCHANGED <<staffRole, roleRows, serving>>

\* A statement fails, a foreign key among the reasons: what was written stays.
StaffFails(r) ==
  /\ staffRequest[r].pc # "idle"
  /\ Respond(r)
  /\ UNCHANGED <<staffRole, roleRows, grants, serving>>

-----------------------------------------------------------------------------
StaffNext ==
  \/ ServerStarts
  \/ ServerStops
  \/ \E ro \in Roles : CreateRole(ro)
  \/ \E r \in StaffRequests :
       \/ \E u \in Staff, ro \in Assignable : CreateUser(r, u, ro) \/ UpdateUserRole(r, u, ro)
       \/ \E u \in Staff, actor \in Staff : DeleteUser(r, u, actor)
       \/ \E ro \in Roles : DeleteRole(r, ro)
       \/ \E ro \in Roles, ps \in SUBSET Permissions : SetRolePermissions(r, ro, ps)
       \/ InsertUser(r)
       \/ AssignRole(r)
       \/ RemoveUser(r)
       \/ DropRole(r)
       \/ ClearGrants(r)
       \/ GrantAsked(r)
       \/ StaffFails(r)

StaffSpec == StaffInit /\ [][StaffNext]_staffVars

-----------------------------------------------------------------------------
(* Properties.                                                             *)

\* A serving system that had an administrator loses the last one only to a
\* request whose check was overtaken by another change of the roster; one
\* request, or requests after one another, never lock everybody out.
LastAdminLostToRace ==
  [][Admins # {} /\ Admins' = {} =>
       \E r \in StaffRequests : /\ staffRequest[r].pc = "checked"
                                /\ staffRequest[r].overtaken
                                /\ staffRequest'[r].pc = "idle"]_staffVars

\* A replace of a role's permissions that no other change of the role overlapped
\* leaves exactly the permissions asked for, whatever an earlier replace that
\* failed half-way left behind.
ReplaceIsExact ==
  [][\A r \in StaffRequests :
       /\ Ready(r, "replace", "cleared")
       /\ staffRequest'[r].pc = "idle"
       /\ grants' # grants
       /\ ~staffRequest[r].overtaken
       => grants'[staffRequest[r].role] = staffRequest[r].asked]_staffVars

\* Every Staff user has a role that exists, however the checks of a creation, an
\* assignment and a deletion of the role interleave; a role that is gone grants nothing.
NoDanglingRole ==
  /\ \A u \in Staff : staffRole[u] # "none" => staffRole[u] \in Assignable
  /\ \A ro \in Roles \ roleRows : grants[ro] = {}

\* Between two statements: what the requests in flight may rely on.  An
\* administrator whose removal was checked and not overtaken is not the last one,
\* and a replace that cleared the role and was not overtaken still finds it clear.
StaffInv ==
  /\ StaffTypeOK
  /\ NoDanglingRole
  /\ ~serving => \A r \in StaffRequests : staffRequest[r].pc = "idle"
  /\ \A r \in StaffRequests :
       LET q == staffRequest[r] IN
       /\ q.pc = "idle" <=> q = NoStaffRequest
       /\ q.pc = "idle" <=> q.op = "none"
       /\ q.op \in {"create", "assign", "remove"} => q.user \in Staff
       /\ q.op \in {"drop", "replace"} => q.role \in Roles
       /\ q.op = "assign" => q.role # "none"
       /\ q.op = "remove" => q.role = "none"
       /\ q.pc = "cleared" => q.op = "replace"
       /\ q.op \in {"assign", "remove"} /\ q.role # "admin" /\ ~q.overtaken =>
            LeavesAnAdmin(q.user)
       /\ q.pc = "cleared" /\ ~q.overtaken => grants[q.role] = {}
=============================================================================
