--------------------------- MODULE ServicesProofs ---------------------------
(***************************************************************************)
(* Proofs about StaffRoles, for every finite set of users and any sets of  *)
(* roles, permissions and request slots; RateLimits, for any maxima,       *)
(* administrators and connections; Startup, for any migrations and seeds;  *)
(* and ParseCache, for any texts and size.  Then the services together, as *)
(* MCServices runs them.                                                   *)
(***************************************************************************)
EXTENDS MCServices, SessionsProofs, NotificationProofs, ProgrammeProofs, WellFoundedInduction

-----------------------------------------------------------------------------
(* Users, roles and permissions.                                           *)

ReqType ==
  [op : {"none", "create", "assign", "remove", "drop", "replace"},
   pc : {"idle", "checked", "cleared"}, user : Staff \cup {"none"},
   role : Roles \cup {"admin", "none"}, asked : SUBSET Permissions, overtaken : BOOLEAN]

\* What StaffInv says of one request, apart from what it may rely on.
WellFormed(q) ==
  /\ q \in ReqType
  /\ q.pc = "idle" <=> q = NoStaffRequest
  /\ q.pc = "idle" <=> q.op = "none"
  /\ q.op \in {"create", "assign", "remove"} => q.user \in Staff
  /\ q.op \in {"drop", "replace"} => q.role \in Roles
  /\ q.op = "assign" => q.role # "none"
  /\ q.op = "remove" => q.role = "none"
  /\ q.pc = "cleared" => q.op = "replace"

\* What a request may rely on until another one overtakes it.
Relies(q) ==
  /\ q.op \in {"assign", "remove"} /\ q.role # "admin" /\ ~q.overtaken => LeavesAnAdmin(q.user)
  /\ q.pc = "cleared" /\ ~q.overtaken => grants[q.role] = {}

Tables ==
  /\ staffRole \in [Staff -> Roles \cup {"admin", "none"}]
  /\ roleRows \subseteq Roles
  /\ grants \in [Roles -> SUBSET Permissions]
  /\ serving \in BOOLEAN
  /\ NoDanglingRole

Slots ==
  /\ staffRequest \in [StaffRequests -> ReqType]
  /\ ~serving => \A r \in StaffRequests : staffRequest[r].pc = "idle"
  /\ \A r \in StaffRequests : WellFormed(staffRequest[r])

AllRely == \A r \in StaffRequests : Relies(staffRequest[r])

\* StaffInv, part by part.
LEMMA InvParts == StaffInv <=> Tables /\ Slots /\ AllRely
BY DEF StaffInv, StaffTypeOK, Tables, Slots, AllRely, ReqType, WellFormed, Relies

\* The parts of the invariant, after a step.
LEMMA NextParts == StaffInv' <=> Tables' /\ Slots' /\ AllRely'
BY DEF StaffInv, StaffTypeOK, Tables, Slots, AllRely, ReqType, WellFormed, Relies

\* A free request slot has the type of a request and relies on nothing.
LEMMA IdleSlot ==
  NoStaffRequest \in ReqType /\ WellFormed(NoStaffRequest) /\ NoStaffRequest.pc = "idle"
  /\ NoStaffRequest.op = "none"
BY DEF NoStaffRequest, ReqType, WellFormed

\* Marking a request in flight as overtaken keeps it well formed.
LEMMA Marked ==
  ASSUME NEW q, WellFormed(q), NEW m \in BOOLEAN, q.pc = "idle" => ~m
  PROVE  LET o == [q EXCEPT !.overtaken = m]
         IN  /\ WellFormed(o) /\ o.overtaken = m
             /\ o.op = q.op /\ o.pc = q.pc /\ o.user = q.user /\ o.role = q.role /\ o.asked = q.asked
<1> DEFINE o == [q EXCEPT !.overtaken = m]
<1>1. /\ o \in ReqType /\ o.overtaken = m
      /\ o.op = q.op /\ o.pc = q.pc /\ o.user = q.user /\ o.role = q.role /\ o.asked = q.asked
  BY DEF WellFormed, ReqType
<1>2. o.pc = "idle" => o = NoStaffRequest
  <2>1. o.pc = "idle" => q = NoStaffRequest /\ m = FALSE
    BY <1>1 DEF WellFormed
  <2> HIDE DEF o
  <2>2. q = NoStaffRequest /\ m = FALSE => o = NoStaffRequest
    BY <1>1 DEF ReqType, NoStaffRequest
  <2> QED BY <2>1, <2>2
<1>3. o = NoStaffRequest => o.pc = "idle"
  BY IdleSlot
<1> HIDE DEF o
<1>4. WellFormed(o)
  BY <1>1, <1>2, <1>3 DEF WellFormed
<1> QED BY <1>1, <1>4 DEF o

\* A request ends and overtakes others in flight: the slots stay well formed, and
\* those it did not overtake keep what they were.
LEMMA Ends ==
  ASSUME StaffInv, NEW r \in StaffRequests, NEW over \in [StaffRequests -> BOOLEAN],
         \A q \in StaffRequests : staffRequest[q].pc = "idle" => ~over[q],
         RespondOver(r, over), serving' = serving
  PROVE  /\ Slots'
         /\ staffRequest'[r] = NoStaffRequest
         /\ \A q \in StaffRequests \ {r} :
              /\ staffRequest'[q].op = staffRequest[q].op /\ staffRequest'[q].pc = staffRequest[q].pc
              /\ staffRequest'[q].user = staffRequest[q].user /\ staffRequest'[q].role = staffRequest[q].role
              /\ staffRequest'[q].overtaken = (staffRequest[q].overtaken \/ over[q])
<1>1. ASSUME NEW q \in StaffRequests \ {r}
      PROVE  /\ WellFormed(staffRequest'[q])
             /\ staffRequest'[q].op = staffRequest[q].op /\ staffRequest'[q].pc = staffRequest[q].pc
             /\ staffRequest'[q].user = staffRequest[q].user /\ staffRequest'[q].role = staffRequest[q].role
             /\ staffRequest'[q].overtaken = (staffRequest[q].overtaken \/ over[q])
  <2> DEFINE m == staffRequest[q].overtaken \/ over[q]
  <2>1. WellFormed(staffRequest[q])
    BY InvParts DEF Slots
  <2>2. staffRequest[q].pc = "idle" => ~m
    BY <2>1 DEF WellFormed, NoStaffRequest
  <2>3. m \in BOOLEAN
    OBVIOUS
  <2>4. staffRequest'[q] = [staffRequest[q] EXCEPT !.overtaken = m]
    BY DEF RespondOver
  <2> HIDE DEF m
  <2>5. /\ WellFormed(staffRequest'[q]) /\ staffRequest'[q].overtaken = m
        /\ staffRequest'[q].op = staffRequest[q].op /\ staffRequest'[q].pc = staffRequest[q].pc
        /\ staffRequest'[q].user = staffRequest[q].user /\ staffRequest'[q].role = staffRequest[q].role
    BY <2>1, <2>2, <2>3, <2>4, Marked
  <2> QED BY <2>5 DEF m
<1>2. staffRequest'[r] = NoStaffRequest
  BY DEF RespondOver
<1>3. \A q \in StaffRequests : WellFormed(staffRequest'[q])
  BY <1>1, <1>2, IdleSlot
<1>4. staffRequest' \in [StaffRequests -> ReqType]
  <2>1. staffRequest' = [q \in StaffRequests |-> staffRequest'[q]]
    BY DEF RespondOver
  <2> QED BY <2>1, <1>3 DEF WellFormed
<1>5. ~serving => \A q \in StaffRequests : staffRequest'[q].pc = "idle"
  BY <1>1, <1>2, InvParts, IdleSlot DEF Slots
<1> QED BY <1>1, <1>2, <1>3, <1>4, <1>5 DEF Slots

\* A request begins or goes on: only its slot changes.
LEMMA Writes ==
  ASSUME StaffInv, NEW r \in StaffRequests, NEW s, WellFormed(s), serving \/ s.pc = "idle",
         staffRequest' = [staffRequest EXCEPT ![r] = s], serving' = serving
  PROVE  /\ Slots' /\ staffRequest'[r] = s
         /\ \A q \in StaffRequests \ {r} : staffRequest'[q] = staffRequest[q]
BY InvParts DEF Slots, WellFormed

-----------------------------------------------------------------------------
(***************************************************************************)
(* The requests, one by one.                                               *)
(***************************************************************************)

\* A check has passed and its request is in flight.
LEMMA Opened ==
  ASSUME StaffInv, NEW r \in StaffRequests, NEW s, WellFormed(s), Relies(s), Open(r, s),
         UNCHANGED <<staffRole, roleRows, grants, serving>>
  PROVE  StaffInv'
<1>1. Slots' /\ staffRequest'[r] = s /\ \A q \in StaffRequests \ {r} : staffRequest'[q] = staffRequest[q]
  BY Writes DEF Open
<1>2. Tables'
  BY InvParts DEF Tables, NoDanglingRole, Assignable
<1>3. AllRely'
  BY <1>1, InvParts DEF AllRely, Relies, LeavesAnAdmin, Admins
<1> QED BY <1>1, <1>2, <1>3, NextParts

\* A request that has read its rows, before it writes (userService, role-queries).
LEMMA Checks ==
  ASSUME StaffInv, NEW r \in StaffRequests,
         \/ \E u \in Staff, ro \in Assignable : CreateUser(r, u, ro) \/ UpdateUserRole(r, u, ro)
         \/ \E u \in Staff, actor \in Staff : DeleteUser(r, u, actor)
         \/ \E ro \in Roles : DeleteRole(r, ro)
         \/ \E ro \in Roles, ps \in SUBSET Permissions : SetRolePermissions(r, ro, ps)
  PROVE  StaffInv'
<1>0. "none" \notin Roles /\ Assignable \subseteq Roles \cup {"admin"}
  BY StaffAssumption, InvParts DEF StaffAssumption, Tables, Assignable
<1>1. ASSUME NEW u \in Staff, NEW ro \in Assignable, CreateUser(r, u, ro) PROVE StaffInv'
  <2> DEFINE s == [NoStaffRequest EXCEPT !.op = "create", !.pc = "checked", !.user = u, !.role = ro]
  <2>1. WellFormed(s) /\ Relies(s)
    BY <1>0 DEF WellFormed, Relies, NoStaffRequest, ReqType
  <2> QED BY <1>1, <2>1, Opened DEF CreateUser
<1>2. ASSUME NEW u \in Staff, NEW ro \in Assignable, UpdateUserRole(r, u, ro) PROVE StaffInv'
  <2> DEFINE s == [NoStaffRequest EXCEPT !.op = "assign", !.pc = "checked", !.user = u, !.role = ro]
  <2>1. WellFormed(s)
    BY <1>0 DEF WellFormed, NoStaffRequest, ReqType
  <2>2. Relies(s)
    BY <1>2 DEF UpdateUserRole, Relies, NoStaffRequest
  <2> QED BY <1>2, <2>1, <2>2, Opened DEF UpdateUserRole
<1>3. ASSUME NEW u \in Staff, NEW actor \in Staff, DeleteUser(r, u, actor) PROVE StaffInv'
  <2> DEFINE s == [NoStaffRequest EXCEPT !.op = "remove", !.pc = "checked", !.user = u]
  <2>1. WellFormed(s)
    BY <1>0 DEF WellFormed, NoStaffRequest, ReqType
  <2>2. Relies(s)
    BY <1>3 DEF DeleteUser, Relies, NoStaffRequest
  <2> QED BY <1>3, <2>1, <2>2, Opened DEF DeleteUser
<1>4. ASSUME NEW ro \in Roles, DeleteRole(r, ro) PROVE StaffInv'
  <2> DEFINE s == [NoStaffRequest EXCEPT !.op = "drop", !.pc = "checked", !.role = ro]
  <2>1. WellFormed(s) /\ Relies(s)
    BY <1>0 DEF WellFormed, Relies, NoStaffRequest, ReqType
  <2> QED BY <1>4, <2>1, Opened DEF DeleteRole
<1>5. ASSUME NEW ro \in Roles, NEW ps \in SUBSET Permissions, SetRolePermissions(r, ro, ps) PROVE StaffInv'
  <2> DEFINE s == [NoStaffRequest EXCEPT !.op = "replace", !.pc = "checked", !.role = ro, !.asked = ps]
  <2>1. WellFormed(s) /\ Relies(s)
    BY <1>0 DEF WellFormed, Relies, NoStaffRequest, ReqType
  <2> QED BY <1>5, <2>1, Opened DEF SetRolePermissions
<1> QED BY <1>1, <1>2, <1>3, <1>4, <1>5

\* A write to the roster that keeps every role in use: whoever relied on a count of
\* administrators has been overtaken.
LEMMA RosterWritten ==
  ASSUME StaffInv, NEW r \in StaffRequests, RespondRoster(r),
         staffRole' \in [Staff -> Roles \cup {"admin", "none"}],
         \A u \in Staff : staffRole'[u] # "none" => staffRole'[u] = staffRole[u] \/ staffRole'[u] \in Assignable,
         UNCHANGED <<roleRows, grants, serving>>
  PROVE  StaffInv'
<1> DEFINE over == [q \in StaffRequests |-> staffRequest[q].op \in {"assign", "remove"}]
<1>0. \A q \in StaffRequests : over[q] <=> staffRequest[q].op \in {"assign", "remove"}
  OBVIOUS
<1>1. RespondOver(r, over)
  BY DEF RespondRoster
<1>2. over \in [StaffRequests -> BOOLEAN]
  OBVIOUS
<1>3. \A q \in StaffRequests : staffRequest[q].pc = "idle" => ~over[q]
  BY InvParts DEF Slots, WellFormed
<1> HIDE DEF over
<1>4. /\ Slots'
      /\ staffRequest'[r] = NoStaffRequest
      /\ \A q \in StaffRequests \ {r} :
           /\ staffRequest'[q].op = staffRequest[q].op /\ staffRequest'[q].pc = staffRequest[q].pc
           /\ staffRequest'[q].user = staffRequest[q].user /\ staffRequest'[q].role = staffRequest[q].role
           /\ staffRequest'[q].overtaken = (staffRequest[q].overtaken \/ over[q])
  BY <1>1, <1>2, <1>3, Ends
<1>5. Tables'
  BY InvParts DEF Tables, NoDanglingRole, Assignable
<1>6. AllRely'
  <2>1. ASSUME NEW q \in StaffRequests \ {r} PROVE Relies(staffRequest[q])' 
    <3>1. Relies(staffRequest[q])
      BY InvParts DEF AllRely
    <3>2. staffRequest[q].op \in {"assign", "remove"} => staffRequest'[q].overtaken
      BY <1>0, <1>4
    <3>3. ~staffRequest'[q].overtaken => ~staffRequest[q].overtaken
      BY <1>4
    <3> QED BY <1>4, <3>1, <3>2, <3>3 DEF Relies
  <2>2. Relies(staffRequest[r])'
    BY <1>4 DEF Relies, NoStaffRequest
  <2> QED BY <2>1, <2>2 DEF AllRely
<1> QED BY <1>4, <1>5, <1>6, NextParts

\* The writes on the users table: creation, change of role, deletion.
LEMMA RosterSteps ==
  ASSUME StaffInv, NEW r \in StaffRequests, InsertUser(r) \/ AssignRole(r) \/ RemoveUser(r)
  PROVE  StaffInv'
<1>0. /\ staffRole \in [Staff -> Roles \cup {"admin", "none"}]
      /\ Assignable \subseteq Roles \cup {"admin", "none"}
  BY InvParts DEF Tables, Assignable
<1>1. staffRole' \in [Staff -> Roles \cup {"admin", "none"}]
  BY <1>0 DEF InsertUser, AssignRole, RemoveUser
<1>2. \A u \in Staff : staffRole'[u] # "none" => staffRole'[u] = staffRole[u] \/ staffRole'[u] \in Assignable
  BY <1>0 DEF InsertUser, AssignRole, RemoveUser
<1>3. RespondRoster(r) /\ UNCHANGED <<roleRows, grants, serving>>
  BY DEF InsertUser, AssignRole, RemoveUser
<1> QED BY <1>1, <1>2, <1>3, RosterWritten

\* A write to the permissions of one role: a replace of that role under way has been overtaken.
LEMMA GrantsWritten ==
  ASSUME StaffInv, NEW r \in StaffRequests, NEW ro \in Roles,
         RespondOver(r, [q \in StaffRequests |-> staffRequest[q].pc = "cleared" /\ staffRequest[q].role = ro]),
         grants' \in [Roles -> SUBSET Permissions], roleRows' \subseteq roleRows,
         \A o \in Roles \ {ro} : grants'[o] = grants[o],
         NoDanglingRole', UNCHANGED <<staffRole, serving>>
  PROVE  StaffInv'
<1> DEFINE over == [q \in StaffRequests |-> staffRequest[q].pc = "cleared" /\ staffRequest[q].role = ro]
<1>0. \A q \in StaffRequests : over[q] <=> staffRequest[q].pc = "cleared" /\ staffRequest[q].role = ro
  OBVIOUS
<1>2. over \in [StaffRequests -> BOOLEAN]
  OBVIOUS
<1>1. RespondOver(r, over)
  OBVIOUS
<1> HIDE DEF over
<1>3. \A q \in StaffRequests : staffRequest[q].pc = "idle" => ~over[q]
  BY <1>0
<1>4. /\ Slots'
      /\ staffRequest'[r] = NoStaffRequest
      /\ \A q \in StaffRequests \ {r} :
           /\ staffRequest'[q].op = staffRequest[q].op /\ staffRequest'[q].pc = staffRequest[q].pc
           /\ staffRequest'[q].user = staffRequest[q].user /\ staffRequest'[q].role = staffRequest[q].role
           /\ staffRequest'[q].overtaken = (staffRequest[q].overtaken \/ over[q])
  BY <1>1, <1>2, <1>3, Ends
<1>5. Tables'
  BY InvParts DEF Tables
<1>6. AllRely'
  <2>1. ASSUME NEW q \in StaffRequests \ {r} PROVE Relies(staffRequest[q])'
    <3>1. Relies(staffRequest[q]) /\ WellFormed(staffRequest[q])
      BY InvParts DEF AllRely, Slots
    <3>2. staffRequest'[q].pc = "cleared" /\ ~staffRequest'[q].overtaken =>
            staffRequest[q].role \in Roles \ {ro}
      BY <1>0, <1>4, <3>1 DEF WellFormed
    <3>3. ~staffRequest'[q].overtaken => ~staffRequest[q].overtaken
      BY <1>4
    <3> QED BY <1>4, <3>1, <3>2, <3>3 DEF Relies, LeavesAnAdmin, Admins
  <2>2. Relies(staffRequest[r])'
    BY <1>4 DEF Relies, NoStaffRequest
  <2> QED BY <2>1, <2>2 DEF AllRely
<1> QED BY <1>4, <1>5, <1>6, NextParts

\* The two statements of setRolePermissions, and the deletion of a role.
LEMMA GrantSteps ==
  ASSUME StaffInv, NEW r \in StaffRequests, DropRole(r) \/ GrantAsked(r)
  PROVE  StaffInv'
<1> DEFINE ro == staffRequest[r].role
<1>1. WellFormed(staffRequest[r])
  BY InvParts DEF Slots
<1>2. ro \in Roles
  BY <1>1 DEF DropRole, GrantAsked, Ready, WellFormed
<1>3. /\ staffRequest[r].asked \subseteq Permissions
      /\ grants \in [Roles -> SUBSET Permissions] /\ NoDanglingRole /\ roleRows \subseteq Roles
  BY <1>1, InvParts DEF WellFormed, ReqType, Tables
<1>4. grants' \in [Roles -> SUBSET Permissions] /\ \A o \in Roles \ {ro} : grants'[o] = grants[o]
  BY <1>2, <1>3 DEF DropRole, GrantAsked
<1>5. NoDanglingRole'
  <2>1. CASE DropRole(r)
    BY <2>1, <1>2, <1>3, StaffAssumption DEF DropRole, MayDrop, NoDanglingRole, Assignable
  <2>2. CASE GrantAsked(r)
    BY <2>2, <1>2, <1>3 DEF GrantAsked, NoDanglingRole, Assignable
  <2> QED BY <2>1, <2>2
<1>6. roleRows' \subseteq roleRows /\ UNCHANGED <<staffRole, serving>>
  BY DEF DropRole, GrantAsked
<1>7. RespondOver(r, [q \in StaffRequests |-> staffRequest[q].pc = "cleared" /\ staffRequest[q].role = ro])
  BY DEF DropRole, GrantAsked
<1> HIDE DEF ro
<1> QED BY <1>2, <1>4, <1>5, <1>6, <1>7, GrantsWritten

\* The first statement of a replace leaves the role clear.
LEMMA Clears ==
  ASSUME StaffInv, NEW r \in StaffRequests, ClearGrants(r)
  PROVE  StaffInv'
<1> DEFINE ro == staffRequest[r].role
           s == [staffRequest[r] EXCEPT !.pc = "cleared"]
<1>1. WellFormed(staffRequest[r]) /\ serving
  BY InvParts DEF Slots, ClearGrants, Ready
<1>2. ro \in Roles
  BY <1>1 DEF ClearGrants, Ready, WellFormed
<1>3. WellFormed(s)
  BY <1>1 DEF ClearGrants, Ready, WellFormed, ReqType, NoStaffRequest
<1>4. s.op = "replace" /\ s.role = ro /\ s.pc = "cleared"
  BY <1>1 DEF ClearGrants, Ready, WellFormed, ReqType
<1>5. staffRequest' = [staffRequest EXCEPT ![r] = s]
  BY DEF ClearGrants
<1>6. UNCHANGED <<staffRole, roleRows, serving>> /\ grants' = [grants EXCEPT ![ro] = {}]
  BY DEF ClearGrants, Cleared
<1> HIDE DEF s, ro
<1>7. Slots' /\ staffRequest'[r] = s /\ \A q \in StaffRequests \ {r} : staffRequest'[q] = staffRequest[q]
  BY <1>1, <1>3, <1>5, <1>6, Writes
<1>8. Tables'
  BY <1>2, <1>6, InvParts DEF Tables, NoDanglingRole, Assignable
<1>9. AllRely'
  <2>1. ASSUME NEW q \in StaffRequests \ {r} PROVE Relies(staffRequest[q])'
    <3>1. Relies(staffRequest[q]) /\ WellFormed(staffRequest[q]) /\ grants \in [Roles -> SUBSET Permissions]
      BY InvParts DEF AllRely, Slots, Tables
    <3>2. staffRequest[q].pc = "cleared" => staffRequest[q].role \in Roles
      BY <3>1 DEF WellFormed
    <3> QED BY <1>6, <1>7, <3>1, <3>2 DEF Relies, LeavesAnAdmin, Admins
  <2>2. Relies(staffRequest[r])'
    <3>1. grants \in [Roles -> SUBSET Permissions]
      BY InvParts DEF Tables
    <3> QED BY <1>2, <1>4, <1>6, <1>7, <3>1 DEF Relies
  <2> QED BY <2>1, <2>2 DEF AllRely
<1> QED BY <1>7, <1>8, <1>9, NextParts

\* A request that fails, or whose process dies, leaves the tables as they are.
LEMMA StaffFailsKeeps ==
  ASSUME StaffInv, NEW r \in StaffRequests, StaffFails(r)
  PROVE  StaffInv'
<1>1. Slots' /\ staffRequest'[r] = NoStaffRequest /\ \A q \in StaffRequests \ {r} : staffRequest'[q] = staffRequest[q]
  BY Writes, IdleSlot DEF StaffFails, Respond
<1>2. Tables'
  BY InvParts DEF StaffFails, Tables, NoDanglingRole, Assignable
<1>3. AllRely'
  BY <1>1, InvParts DEF StaffFails, AllRely, Relies, LeavesAnAdmin, Admins, NoStaffRequest
<1> QED BY <1>1, <1>2, <1>3, NextParts

-----------------------------------------------------------------------------
(***************************************************************************)
(* The server.                                                             *)
(***************************************************************************)

\* The server's start and stop, and ensureInitialAdmin.
LEMMA ServerSteps ==
  ASSUME StaffInv, ServerStarts \/ ServerStops \/ \E ro \in Roles : CreateRole(ro)
  PROVE  StaffInv'
<1>0. Tables /\ Slots /\ AllRely
  BY InvParts
<1>1. CASE ServerStarts
  <2>1. Tables'
    BY <1>0, <1>1, StaffAssumption DEF ServerStarts, Tables, NoDanglingRole, Assignable
  <2>2. Slots'
    BY <1>0, <1>1 DEF ServerStarts, Slots, WellFormed
  <2>3. \A q \in StaffRequests : staffRequest[q].op = "none" /\ staffRequest[q].pc = "idle"
    BY <1>0, <1>1 DEF ServerStarts, Slots, WellFormed
  <2>4. AllRely'
    BY <1>1, <2>3 DEF ServerStarts, AllRely, Relies
  <2> QED BY <2>1, <2>2, <2>4, NextParts
<1>2. CASE ServerStops
  <2>1. Tables'
    BY <1>0, <1>2 DEF ServerStops, Tables, NoDanglingRole, Assignable
  <2>2. \A q \in StaffRequests : staffRequest'[q] = NoStaffRequest
    BY <1>2 DEF ServerStops
  <2>3. Slots'
    BY <1>0, <1>2, <2>2, IdleSlot DEF ServerStops, Slots
  <2>4. AllRely'
    BY <2>2 DEF AllRely, Relies, NoStaffRequest
  <2> QED BY <2>1, <2>3, <2>4, NextParts
<1>3. ASSUME NEW ro \in Roles, CreateRole(ro) PROVE StaffInv'
  <2>1. Tables'
    BY <1>0, <1>3 DEF CreateRole, Tables, NoDanglingRole, Assignable
  <2>2. Slots'
    BY <1>0, <1>3 DEF CreateRole, Slots, WellFormed
  <2>3. AllRely'
    BY <1>0, <1>3 DEF CreateRole, AllRely, Relies, LeavesAnAdmin, Admins
  <2> QED BY <2>1, <2>2, <2>3, NextParts
<1> QED BY <1>1, <1>2, <1>3

-----------------------------------------------------------------------------
(***************************************************************************)
(* The theorems.                                                           *)
(***************************************************************************)

\* The invariant holds at first.
LEMMA StaffStarts == StaffInit => StaffInv
<1> SUFFICES ASSUME StaffInit PROVE StaffInv
  OBVIOUS
<1>1. \A r \in StaffRequests : staffRequest[r] = NoStaffRequest
  BY DEF StaffInit
<1>2. Tables
  BY DEF StaffInit, Tables, NoDanglingRole
<1>3. Slots
  BY <1>1, IdleSlot DEF StaffInit, Slots
<1>4. AllRely
  BY <1>1 DEF AllRely, Relies, NoStaffRequest
<1> QED BY <1>2, <1>3, <1>4, InvParts

\* Every step preserves the invariant.
LEMMA StaffSteps == StaffInv /\ [StaffNext]_staffVars => StaffInv'
<1> SUFFICES ASSUME StaffInv, [StaffNext]_staffVars PROVE StaffInv'
  OBVIOUS
<1>1. CASE StaffNext
  BY <1>1, Checks, RosterSteps, GrantSteps, Clears, StaffFailsKeeps, ServerSteps DEF StaffNext
<1>2. CASE UNCHANGED staffVars
  <2>1. Tables' /\ Slots' /\ AllRely'
    BY <1>2, InvParts DEF staffVars, Tables, NoDanglingRole, Assignable, Slots, WellFormed, AllRely, Relies, LeavesAnAdmin, Admins
  <2> QED BY <2>1, NextParts
<1> QED BY <1>1, <1>2

\* Every user has a role that exists, and what a request in flight has checked
\* holds until another one overtakes it (user-service.ts, role-queries.ts).
THEOREM Roster == StaffSpec => []StaffInv
BY StaffStarts, StaffSteps, PTL DEF StaffSpec

\* Of two administrators one may go.
LEMMA AnotherAdmin ==
  ASSUME NEW u, Cardinality(Admins) > 1
  PROVE  Admins \ {u} # {}
<1>1. IsFiniteSet(Admins)
  BY StaffAssumption, FS_Subset DEF StaffAssumption, Admins
<1>2. SUFFICES ASSUME Admins \subseteq {u} PROVE FALSE
  OBVIOUS
<1>3. Cardinality(Admins) <= 1
  <2>1. IsFiniteSet({u}) /\ Cardinality({u}) = 1
    BY FS_Singleton
  <2> QED BY <1>2, <2>1, FS_Subset
<1>4. Cardinality(Admins) \in Nat
  BY <1>1, FS_CardinalityType
<1> QED BY <1>3, <1>4

\* Only a request that was overtaken takes the last administrator, for any number
\* of users and of requests at once (user-service.ts, update and delete).
THEOREM LastAdmin == StaffSpec => LastAdminLostToRace
<1> DEFINE Lost == Admins # {} /\ Admins' = {} =>
       \E r \in StaffRequests : /\ staffRequest[r].pc = "checked"
                                /\ staffRequest[r].overtaken
                                /\ staffRequest'[r].pc = "idle"
<1>1. ASSUME StaffInv, [StaffNext]_staffVars PROVE Lost
  <2> SUFFICES ASSUME Admins # {}, Admins' = {}
               PROVE  \E r \in StaffRequests : /\ staffRequest[r].pc = "checked"
                                               /\ staffRequest[r].overtaken
                                               /\ staffRequest'[r].pc = "idle"
    OBVIOUS
  <2>1. staffRole' # staffRole
    BY DEF Admins
  <2>2. ~ServerStarts
    BY <2>1 DEF ServerStarts
  <2>3. PICK r \in StaffRequests : InsertUser(r) \/ AssignRole(r) \/ RemoveUser(r)
    BY <1>1, <2>1, <2>2 DEF StaffNext, staffVars, ServerStops, CreateRole, CreateUser, UpdateUserRole,
       DeleteUser, DeleteRole, SetRolePermissions, DropRole, ClearGrants, GrantAsked, StaffFails
  <2> DEFINE s == staffRequest[r]
  <2>4. /\ staffRequest'[r] = NoStaffRequest /\ s.pc = "checked" /\ s.overtaken \in BOOLEAN
        /\ WellFormed(s) /\ Relies(s)
    BY <1>1, <2>3, InvParts DEF InsertUser, AssignRole, RemoveUser, RespondRoster, RespondOver, Ready,
       AllRely, Slots, WellFormed, ReqType
  <2>5. /\ staffRole \in [Staff -> Roles \cup {"admin", "none"}]
        /\ s.user \in Staff
    BY <1>1, <2>3, <2>4, InvParts DEF Tables, InsertUser, AssignRole, RemoveUser, Ready, WellFormed
  <2>6. \A v \in Staff \ {s.user} : staffRole'[v] = staffRole[v]
    BY <2>3, <2>5 DEF InsertUser, AssignRole, RemoveUser
  <2>7. Admins \ {s.user} = {}
    BY <2>6 DEF Admins
  <2>8. staffRole[s.user] = "admin" /\ staffRole'[s.user] # "admin"
    BY <2>5, <2>7 DEF Admins
  <2>9. s.op \in {"assign", "remove"} /\ s.role # "admin"
    <3>1. ~InsertUser(r)
      BY <2>5, <2>8 DEF InsertUser
    <3>2. CASE AssignRole(r)
      BY <2>5, <2>8, <3>2 DEF AssignRole, Ready
    <3>3. CASE RemoveUser(r)
      BY <2>4, <3>3 DEF RemoveUser, Ready, WellFormed
    <3> QED BY <2>3, <3>1, <3>2, <3>3
  <2>10. ~LeavesAnAdmin(s.user)
    BY <2>7, <2>8, AnotherAdmin DEF LeavesAnAdmin
  <2>11. s.overtaken
    BY <2>4, <2>9, <2>10 DEF Relies
  <2> QED BY <2>4, <2>11, IdleSlot
<1>2. StaffSpec => [][Lost]_staffVars
  BY <1>1, Roster, PTL DEF StaffSpec
<1> QED BY <1>2 DEF LastAdminLostToRace

\* A replace of a role's permissions that was not overtaken leaves what was asked,
\* for any number of roles, permissions and requests at once (role-queries.ts:243-264).
THEOREM Replaced == StaffSpec => ReplaceIsExact
<1> DEFINE Exact == \A r \in StaffRequests :
       /\ Ready(r, "replace", "cleared")
       /\ staffRequest'[r].pc = "idle"
       /\ grants' # grants
       /\ ~staffRequest[r].overtaken
       => grants'[staffRequest[r].role] = staffRequest[r].asked
<1>1. ASSUME StaffInv, [StaffNext]_staffVars PROVE Exact
  <2> SUFFICES ASSUME NEW r \in StaffRequests, Ready(r, "replace", "cleared"), staffRequest'[r].pc = "idle",
                      grants' # grants, ~staffRequest[r].overtaken
               PROVE  grants'[staffRequest[r].role] = staffRequest[r].asked
    OBVIOUS
  <2>1. PICK q \in StaffRequests : DropRole(q) \/ ClearGrants(q) \/ GrantAsked(q)
    BY <1>1 DEF StaffNext, staffVars, ServerStarts, ServerStops, CreateRole, CreateUser, UpdateUserRole,
       DeleteUser, DeleteRole, SetRolePermissions, InsertUser, AssignRole, RemoveUser, StaffFails
  <2>2. WellFormed(staffRequest[r]) /\ Relies(staffRequest[r]) /\ staffRequest \in [StaffRequests -> ReqType]
    BY <1>1, InvParts DEF AllRely, Slots
  <2>3. q = r
    BY <2>1, <2>2 DEF DropRole, ClearGrants, GrantAsked, RespondOver, Ready, ReqType
  <2>4. GrantAsked(r)
    BY <2>1, <2>3 DEF DropRole, ClearGrants, Ready
  <2>5. /\ staffRequest[r].role \in Roles /\ grants \in [Roles -> SUBSET Permissions]
        /\ grants[staffRequest[r].role] = {}
    BY <1>1, <2>2, InvParts DEF Relies, Ready, WellFormed, Tables
  <2> QED BY <2>4, <2>5 DEF GrantAsked
<1>2. StaffSpec => [][Exact]_staffVars
  BY <1>1, Roster, PTL DEF StaffSpec
<1> QED BY <1>2 DEF ReplaceIsExact

-----------------------------------------------------------------------------
(* The rate limits.                                                        *)

Amount == Maxima \union {Unset}
RateSteps == {"idle", "begin", "select", "unchanged", "update", "audit", "commit", "failed", "load"}

\* The types of the rows and connections.
PoolType ==
  /\ limitRow \in Maxima /\ audits \in Nat
  /\ session \in [Connections -> [tx : {"none", "open", "aborted"}, row : Amount, audits : Nat]]
  /\ rowLock \in Connections \union {Unset}
  /\ change \in [Administrators -> [at : RateSteps, value : Amount, old : Amount]]
  /\ asked \in Nat

\* Only a transaction buffers anything or locks the row, and what it buffers for
\* the row it has locked.
PoolOK ==
  /\ PoolType
  /\ \A k \in Connections :
       /\ session[k].tx # "open" => session[k] = [Autocommit EXCEPT !.tx = session[k].tx]
       /\ session[k].row # Unset => rowLock = k
       /\ rowLock = k => session[k].tx # "none"
  /\ \A a \in Administrators :
       /\ change[a].at # "idle" => change[a].value \in Maxima
       /\ change[a].at \in {"update", "audit", "commit"} => change[a].old \in Maxima

WindowType == [hits : Nat, age : Nat, allowed : Nat, starts : Nat]

\* What the window was let through was counted by the counter of now, or by one of
\* those that it replaced; none of them counted more than was allowed in the window.
LimiterOK ==
  /\ inMemory \in Maxima /\ polls \in Amount /\ due \in BOOLEAN
  /\ counter \in [hits : Nat, age : Nat]
  /\ window \in WindowType
  /\ counter.hits <= inMemory
  /\ counter.hits > 0 /\ window.hits > 0 => inMemory <= window.allowed
  /\ window.hits <= counter.hits + window.allowed * window.starts

RateIInv == PoolOK /\ LimiterOK

\* A product grows with either factor.
LEMMA ProductGrows ==
  ASSUME NEW a \in Nat, NEW b \in Nat, NEW s \in Nat, a <= b
  PROVE  a * s \in Nat /\ b * s \in Nat /\ a * s <= b * s /\ a * (1 + s) = a * s + a
OBVIOUS

\* A window that ages, and meets a fresh counter, is a window.
LEMMA WindowAges ==
  ASSUME NEW w \in WindowType
  PROVE  [w EXCEPT !.age = @ + 1] \in WindowType /\ [w EXCEPT !.age = @ + 1, !.starts = @ + 1] \in WindowType
<1>1. ASSUME NEW a \in Nat, NEW n \in Nat
      PROVE  [w EXCEPT !.age = a] \in WindowType /\ [w EXCEPT !.age = a, !.starts = n] \in WindowType
  BY DEF WindowType
<1>2. w.age + 1 \in Nat /\ w.starts + 1 \in Nat
  BY DEF WindowType
<1> QED BY <1>1, <1>2

\* The bound of the window follows.
LEMMA WindowHolds == LimiterOK => WindowBounded
<1> SUFFICES ASSUME LimiterOK PROVE WindowBounded
  OBVIOUS
<1>1. /\ window.hits \in Nat /\ window.allowed \in Nat /\ window.starts \in Nat /\ counter.hits \in Nat
      /\ inMemory \in Nat
  BY MaximaAssumption DEF LimiterOK, WindowType, MaximaAssumption
<1>2. /\ window.allowed * window.starts \in Nat
      /\ window.allowed * (1 + window.starts) = window.allowed * window.starts + window.allowed
  BY <1>1, ProductGrows
<1>3. window.hits = 0 \/ counter.hits <= window.allowed
  BY <1>1 DEF LimiterOK, WindowType
<1> QED BY <1>1, <1>2, <1>3 DEF LimiterOK, WindowType, WindowBounded

\* The invariant implies RateInv.
LEMMA RateImplies == RateIInv => RateInv
BY WindowHolds DEF RateIInv, PoolOK, PoolType, LimiterOK, WindowType, RateInv, Amount

\* What a connection shows of the row is a maximum.
LEMMA VisibleIsMaximum == ASSUME PoolOK, NEW k \in Connections PROVE Visible(k) \in Maxima
BY DEF PoolOK, PoolType, Visible, Amount

\* Any counter that starts afresh within the window is one more of its counters.
LEMMA FreshCounter ==
  ASSUME LimiterOK, counter' = Empty, NEW v \in Maxima, inMemory' = v, polls' \in Amount, due' \in BOOLEAN,
         window' \in WindowType,
         window'.hits = 0 \/ (window'.hits = window.hits /\ window'.allowed = window.allowed
                                /\ window'.starts = window.starts + 1)
  PROVE  LimiterOK'
<1>1. WindowBounded /\ v \in Nat
  BY WindowHolds, MaximaAssumption DEF MaximaAssumption
<1>2. /\ counter'.hits = 0 /\ counter' \in [hits : Nat, age : Nat]
      /\ window'.hits \in Nat /\ window'.allowed \in Nat /\ window'.starts \in Nat
      /\ window.starts \in Nat
  BY DEF Empty, LimiterOK, WindowType
<1>3. window'.allowed * window'.starts \in Nat
  BY <1>2, ProductGrows
<1>4. window'.hits <= window'.allowed * window'.starts
  <2>1. CASE window'.hits = 0
    BY <2>1, <1>3
  <2>2. CASE window'.hits # 0
    <3>1. window'.starts = 1 + window.starts /\ window'.hits = window.hits /\ window'.allowed = window.allowed
      BY <2>2, <1>2
    <3> QED BY <3>1, <1>1 DEF WindowBounded
  <2> QED BY <2>1, <2>2
<1>5. window'.hits <= counter'.hits + window'.allowed * window'.starts
  BY <1>2, <1>3, <1>4
<1> QED BY <1>1, <1>2, <1>5 DEF LimiterOK, WindowType

\* The invariant holds when the server begins to listen.
LEMMA RateStarts == RateInit => RateIInv
<1> SUFFICES ASSUME RateInit PROVE RateIInv
  OBVIOUS
<1>1. PoolOK
  BY MaximaAssumption DEF MaximaAssumption, RateInit, PoolOK, PoolType, Autocommit, NoChange, Amount, RateSteps
<1>2. LimiterOK
  BY MaximaAssumption DEF MaximaAssumption, RateInit, LimiterOK, WindowType, Empty, NoWindow, Amount
<1> QED BY <1>1, <1>2 DEF RateIInv

\* Asking for a change, its BEGIN, its SELECT and its failures.
LEMMA AskKeeps ==
  ASSUME PoolOK, NEW a \in Administrators, NEW v \in Maxima, Ask(a, v)
  PROVE  PoolOK'
BY MaximaAssumption DEF MaximaAssumption, Ask, poolVars, PoolOK, PoolType, Amount, RateSteps

\* The statements before the row is written.
LEMMA ReadsKeep ==
  ASSUME PoolOK, NEW a \in Administrators, NEW k \in Connections, BeginTx(a, k) \/ SelectRow(a, k)
  PROVE  PoolOK'
<1>1. Visible(k) \in Maxima
  BY VisibleIsMaximum
<1>2. CASE BeginTx(a, k)
  BY <1>2, MaximaAssumption DEF MaximaAssumption, BeginTx, GoOn, PoolOK, PoolType, Amount, RateSteps, Autocommit
<1>3. CASE SelectRow(a, k)
  BY <1>1, <1>3, MaximaAssumption
     DEF MaximaAssumption, SelectRow, MayLock, Works, PoolOK, PoolType, Amount, RateSteps
<1> QED BY <1>2, <1>3

\* The row and its audit entry are written, or buffered.
LEMMA WritesKeep ==
  ASSUME PoolOK, NEW a \in Administrators, NEW k \in Connections, UpdateRow(a, k) \/ InsertAudit(a, k)
  PROVE  PoolOK'
<1>1. CASE UpdateRow(a, k)
  BY <1>1, MaximaAssumption
     DEF MaximaAssumption, UpdateRow, GoOn, MayLock, Works, PoolOK, PoolType, Amount, RateSteps, Autocommit
<1>2. CASE InsertAudit(a, k)
  BY <1>2, MaximaAssumption
     DEF MaximaAssumption, InsertAudit, GoOn, Works, PoolOK, PoolType, Amount, RateSteps, Autocommit
<1> QED BY <1>1, <1>2

\* The transaction of the connection ends, if it has one.
LEMMA EndsKeep ==
  ASSUME PoolOK, NEW a \in Administrators, NEW k \in Connections,
         Commit(a, k) \/ Rollback(a, k) \/ StatementFails(a, k)
  PROVE  PoolOK'
<1>1. Visible(k) \in Maxima
  BY VisibleIsMaximum
<1>2. CASE Commit(a, k)
  BY <1>1, <1>2, MaximaAssumption
     DEF MaximaAssumption, Commit, Ended, GoOn, Works, PoolOK, PoolType, Amount, RateSteps, Autocommit
<1>3. CASE Rollback(a, k)
  BY <1>3, MaximaAssumption
     DEF MaximaAssumption, Rollback, Ended, NoChange, PoolOK, PoolType, Amount, RateSteps, Autocommit
<1>4. CASE StatementFails(a, k)
  BY <1>4, MaximaAssumption
     DEF MaximaAssumption, StatementFails, GoOn, PoolOK, PoolType, Amount, RateSteps, Autocommit
<1> QED BY <1>2, <1>3, <1>4

\* The copy in memory is assigned, and every counter starts afresh.
LEMMA ReloadedKeeps ==
  ASSUME LimiterOK, NEW v \in Maxima, Reloaded(v), polls' \in Amount, due' \in BOOLEAN
  PROVE  LimiterOK'
<1>1. window' \in WindowType
  BY DEF Reloaded, LimiterOK, WindowType
<1>2. window'.hits = 0 \/ (window'.hits = window.hits /\ window'.allowed = window.allowed
                             /\ window'.starts = window.starts + 1)
  BY DEF Reloaded, LimiterOK, WindowType
<1> QED BY <1>1, <1>2, FreshCounter DEF Reloaded

\* A change reloads, and a poll reads and stores.
LEMMA LoadsKeep ==
  ASSUME RateIInv,
         \/ \E a \in Administrators, k \in Connections : Reload(a, k)
         \/ \E k \in Connections : PollReads(k)
         \/ PollStores
  PROVE  RateIInv'
<1> USE DEF RateIInv
<1>1. ASSUME NEW a \in Administrators, NEW k \in Connections, Reload(a, k) PROVE RateIInv'
  <2>1. PoolOK'
    BY <1>1, MaximaAssumption
       DEF MaximaAssumption, Reload, NoChange, poolVars, PoolOK, PoolType, Amount, RateSteps
  <2>2. Visible(k) \in Maxima /\ polls' = polls /\ due' = due
    BY <1>1, VisibleIsMaximum DEF Reload
  <2>3. CASE Reloaded(Visible(k))
    BY <2>1, <2>2, <2>3, ReloadedKeeps DEF LimiterOK, WindowType
  <2>4. CASE UNCHANGED <<inMemory, counter, window>>
    BY <2>1, <2>2, <2>4 DEF LimiterOK, WindowType
  <2> QED BY <1>1, <2>1, <2>3, <2>4 DEF Reload
<1>2. ASSUME NEW k \in Connections, PollReads(k) PROVE RateIInv'
  <2>1. PoolOK'
    BY <1>2 DEF PollReads, poolVars, PoolOK, PoolType
  <2>2. Visible(k) \in Maxima
    BY VisibleIsMaximum
  <2> QED BY <1>2, <2>1, <2>2 DEF PollReads, LimiterOK, WindowType, Amount
<1>3. CASE PollStores
  <2>1. PoolOK'
    BY <1>3 DEF PollStores, poolVars, PoolOK, PoolType
  <2>2. polls \in Maxima /\ polls' \in Amount /\ due' \in BOOLEAN
    BY <1>3 DEF PollStores, LimiterOK, WindowType, Amount
  <2> QED BY <1>3, <2>1, <2>2, ReloadedKeeps DEF PollStores
<1> QED BY <1>1, <1>2, <1>3

\* A request is let through.
LEMMA RequestKeeps ==
  ASSUME RateIInv, Request
  PROVE  RateIInv'
<1>1. PoolOK'
  BY DEF RateIInv, Request, poolVars, PoolOK, PoolType
<1>2. /\ inMemory \in Nat /\ counter.hits \in Nat /\ window.hits \in Nat /\ window.allowed \in Nat
      /\ window.starts \in Nat /\ counter.hits < inMemory
  BY MaximaAssumption DEF MaximaAssumption, RateIInv, Request, LimiterOK, WindowType
<1>3. /\ counter'.hits = counter.hits + 1 /\ counter' \in [hits : Nat, age : Nat]
      /\ window'.hits = window.hits + 1 /\ window' \in WindowType
      /\ window'.starts = window.starts
      /\ window'.allowed >= window.allowed /\ window'.allowed >= inMemory
  <2>1. counter \in [hits : Nat, age : Nat] /\ window \in WindowType
    BY DEF RateIInv, LimiterOK, WindowType
  <2>2. counter'.hits = counter.hits + 1 /\ counter' \in [hits : Nat, age : Nat]
    BY <2>1 DEF Request, WindowType
  <2>3. /\ window'.hits = window.hits + 1 /\ window'.starts = window.starts /\ window'.age = window.age
        /\ window'.allowed = IF window.allowed > inMemory THEN window.allowed ELSE inMemory
    BY <2>1 DEF Request, WindowType
  <2>4. window' = [hits |-> window'.hits, age |-> window'.age, allowed |-> window'.allowed, starts |-> window'.starts]
    BY <2>1 DEF Request, WindowType
  <2> QED BY <1>2, <2>1, <2>2, <2>3, <2>4 DEF WindowType
<1>4. window.allowed * window.starts <= window'.allowed * window'.starts
      /\ window.allowed * window.starts \in Nat /\ window'.allowed * window'.starts \in Nat
  <2>1. window'.allowed \in Nat
    BY <1>3 DEF WindowType
  <2> QED BY <2>1, <1>2, <1>3, ProductGrows
<1>5. window'.hits <= counter'.hits + window'.allowed * window'.starts
  BY <1>2, <1>3, <1>4 DEF RateIInv, LimiterOK, WindowType
<1>6. inMemory' = inMemory /\ polls' = polls /\ due' = due
  BY DEF Request
<1>7. LimiterOK'
  BY <1>2, <1>3, <1>5, <1>6 DEF RateIInv, LimiterOK, WindowType
<1> QED BY <1>1, <1>7 DEF RateIInv

\* A minute passes for the counter and for the window.
LEMMA MinuteKeeps ==
  ASSUME RateIInv, MinutePasses
  PROVE  RateIInv'
<1> USE MinutesAssumption DEF MinutesAssumption
<1>1. PoolOK'
  BY DEF RateIInv, MinutePasses, poolVars, PoolOK, PoolType
<1>2. LimiterOK
  BY DEF RateIInv
<1>3. inMemory' = inMemory /\ polls' = polls /\ due' \in BOOLEAN
  BY DEF MinutePasses
<1>4. window' \in WindowType
  <2>1. window \in WindowType /\ NoWindow \in WindowType
    BY <1>2 DEF LimiterOK, WindowType, NoWindow
  <2> QED BY <2>1, WindowAges DEF MinutePasses, Older
<1>5. CASE Over(counter)
  <2>1. counter' = Empty
    BY <1>5 DEF MinutePasses, Older
  <2>2. window'.hits = 0 \/ (window'.hits = window.hits /\ window'.allowed = window.allowed
                               /\ window'.starts = window.starts + 1)
    <3>1. CASE Over(window)
      BY <1>5, <3>1 DEF MinutePasses, Older, NoWindow
    <3>2. CASE ~Over(window)
      BY <1>2, <1>5, <3>2 DEF MinutePasses, LimiterOK, WindowType
    <3> QED BY <3>1, <3>2
  <2>3. inMemory \in Maxima /\ polls' \in Amount
    BY <1>2, <1>3 DEF LimiterOK, WindowType
  <2> QED BY <1>1, <1>2, <1>3, <1>4, <2>1, <2>2, <2>3, FreshCounter DEF RateIInv
<1>6. CASE ~Over(counter)
  <2>1. counter'.hits = counter.hits /\ counter' \in [hits : Nat, age : Nat]
    BY <1>2, <1>6 DEF MinutePasses, Older, LimiterOK, WindowType
  <2>2. CASE Over(window)
    <3>1. window' = NoWindow
      BY <1>6, <2>2 DEF MinutePasses, Older
    <3> QED BY <1>1, <1>2, <1>3, <1>4, <2>1, <3>1 DEF NoWindow, LimiterOK, WindowType, RateIInv
  <2>3. CASE ~Over(window)
    <3>1. window'.hits = window.hits /\ window'.allowed = window.allowed /\ window'.starts = window.starts
      BY <1>2, <1>6, <2>3 DEF MinutePasses, Older, LimiterOK, WindowType
    <3> QED BY <1>1, <1>2, <1>3, <1>4, <2>1, <3>1 DEF LimiterOK, WindowType, RateIInv
  <2> QED BY <2>2, <2>3
<1> QED BY <1>5, <1>6

\* Every step of the administrators, the polls and the clients preserves the invariant.
LEMMA RateKeeps == RateIInv /\ [RateNext]_rateVars => RateIInv'
<1> SUFFICES ASSUME RateIInv, [RateNext]_rateVars PROVE RateIInv'
  OBVIOUS
<1>1. LimiterOK /\ UNCHANGED limiterVars => LimiterOK'
  BY DEF limiterVars, LimiterOK, WindowType
<1>2. ASSUME NEW a \in Administrators, NEW v \in Maxima, Ask(a, v) PROVE RateIInv'
  BY <1>1, <1>2, AskKeeps DEF Ask, RateIInv
<1>3. ASSUME NEW a \in Administrators, NEW k \in Connections,
             \/ BeginTx(a, k) \/ SelectRow(a, k) \/ UpdateRow(a, k) \/ InsertAudit(a, k)
             \/ Commit(a, k) \/ Rollback(a, k) \/ StatementFails(a, k)
      PROVE  RateIInv'
  <2>1. UNCHANGED limiterVars
    BY <1>3 DEF BeginTx, SelectRow, UpdateRow, InsertAudit, Commit, Rollback, StatementFails
  <2>2. PoolOK'
    BY <1>3, ReadsKeep, WritesKeep, EndsKeep DEF RateIInv
  <2> QED BY <1>1, <2>1, <2>2 DEF RateIInv
<1>4. CASE UNCHANGED rateVars
  <2>1. UNCHANGED <<limitRow, audits, session, rowLock, change, asked>> /\ UNCHANGED limiterVars
    BY <1>4 DEF rateVars, limiterVars
  <2> QED BY <1>1, <2>1 DEF RateIInv, PoolOK, PoolType
<1> QED BY <1>2, <1>3, <1>4, LoadsKeep, RequestKeeps, MinuteKeeps DEF RateNext

\* A client is let through no more often than the maximum, once for each counter that was
\* begun within its window, whatever changes, polls and reloads interleave; and whichever
\* connections of the pool the statements take, only an open transaction buffers or locks
\* (rate-limit-source.ts, rate-limit-queries.ts, middleware/rate-limit.ts).
THEOREM RatesKept == RateSpec => []RateInv
BY RateStarts, RateKeeps, RateImplies, PTL DEF RateSpec

-----------------------------------------------------------------------------
(* The start of a server process.                                          *)

BootSteps == {"down", "pending", "apply", "record", "admin", "print", "seed", "seeding", "up"}
BootType == [at : BootSteps, todo : SUBSET Files, left : SUBSET Seeds, alone : BOOLEAN]

StartupType ==
  /\ ran \in [Files -> Nat] /\ recorded \in SUBSET Files
  /\ adminUser \in {"none", "admin", "demoted"} /\ printed \in Nat
  /\ catalog \in SUBSET Seeds /\ boot \in [Servers -> BootType] /\ deaths \in Nat

\* What a process has not to do is recorded; what it is about to record has run.
Applies(s) ==
  /\ boot[s].at \in {"apply", "record"} => Files \ boot[s].todo \subseteq recorded
  /\ boot[s].at = "record" => boot[s].todo # {} /\ ran[First(boot[s].todo)] > 0
  /\ boot[s].at \notin {"apply", "record"} => boot[s].todo = {}

\* While a process is alone, the others are down or serve.
IsAlone(s) == boot[s].alone => \A o \in Servers \ {s} : boot[o].at \in {"down", "up"}

\* One process at most is about to log the password.
OnePrints == \A s, t \in Servers : boot[s].at = "print" /\ boot[t].at = "print" => s = t

StartupIInv ==
  /\ StartupType /\ StartupInv /\ OnePrints
  /\ \A s \in Servers : Applies(s) /\ IsAlone(s)

\* The smallest file that is left to do.
LEMMA FirstIsLeast ==
  ASSUME NEW todo \in SUBSET Files, todo # {}
  PROVE  First(todo) \in todo /\ \A g \in todo : First(todo) <= g
<1>1. IsWellFoundedOn(OpToRel(<, Nat), Nat)
  BY NatLessThanWellFounded
<1>2. todo \subseteq Nat
  BY StartupAssumption DEF StartupAssumption, Files
<1>3. PICK f \in todo : \A g \in todo : ~(<<g, f>> \in OpToRel(<, Nat))
  BY <1>1, <1>2, WFMin
<1>4. \A g \in todo : <<g, f>> \in OpToRel(<, Nat) <=> g < f
  BY <1>2 DEF OpToRel
<1>5. \A g \in todo : f <= g
  <2> TAKE g \in todo
  <2>1. g \in Nat /\ f \in Nat /\ ~(g < f)
    BY <1>2, <1>3, <1>4
  <2> QED BY <2>1
<1>6. \E h \in todo : \A g \in todo : h <= g
  BY <1>5
<1> QED BY <1>6, Zenon DEF First

\* The invariant holds on the database of any older release.
LEMMA BootStarts == StartupInit => StartupIInv
<1> SUFFICES ASSUME StartupInit PROVE StartupIInv
  OBVIOUS
<1> USE StartupAssumption DEF StartupAssumption
<1>1. PICK n \in 0 .. LastFile :
        /\ recorded = 1 .. n
        /\ ran = [f \in Files |-> IF f <= n THEN 1 ELSE 0]
        /\ adminUser \in {"admin"} \union {u \in {"none"} : n = 0}
        /\ printed = IF adminUser = "admin" THEN 1 ELSE 0
  BY DEF StartupInit
<1>2. boot = [s \in Servers |-> Down] /\ catalog = {} /\ deaths = 0
  BY DEF StartupInit
<1>3. Down \in BootType /\ Down.at = "down" /\ Down.todo = {} /\ Down.alone = FALSE
  BY DEF Down, BootType, BootSteps
<1>4. StartupType
  BY <1>1, <1>2, <1>3 DEF StartupType, Files
<1>5. \A s \in Servers : boot[s].at = "down" /\ boot[s].todo = {} /\ boot[s].alone = FALSE
  BY <1>2, <1>3
<1>6. RecordedHasRun
  BY <1>1 DEF RecordedHasRun, Files
<1>7. ServesOnWholeSchema /\ OnePassword /\ LoneStartGoesOn
  BY <1>1, <1>5 DEF ServesOnWholeSchema, OnePassword, LoneStartGoesOn
<1>8. OnePrints /\ \A s \in Servers : Applies(s) /\ IsAlone(s)
  BY <1>5 DEF OnePrints, Applies, IsAlone
<1> QED BY <1>4, <1>6, <1>7, <1>8 DEF StartupIInv, StartupInv

\* What a quiet step of s does to its start.
QuietStep(s) ==
  \/ /\ boot'[s].at = "pending" /\ boot'[s].todo = {}
     /\ boot'[s].alone = (\A o \in Servers \ {s} : boot[o].at \in {"down", "up"})
     /\ \A t \in Servers \ {s} : boot'[t].alone = FALSE
  \/ /\ boot[s].at = "pending" /\ boot'[s].at = "apply"
     /\ boot'[s].todo = Files \ recorded /\ boot'[s].alone = boot[s].alone
  \/ /\ boot[s].at = "apply" /\ boot[s].todo = {} /\ boot'[s].todo = {} /\ boot'[s].alone = boot[s].alone
     /\ boot'[s].at = IF adminUser = "admin" THEN "seed" ELSE "admin"
  \/ /\ boot[s].at \in {"seed", "seeding"} /\ boot'[s].at \in {"seeding", "up"}
     /\ boot'[s].todo = boot[s].todo /\ boot'[s].alone = boot[s].alone
  \/ boot'[s].at = "down" /\ boot'[s].todo = {} /\ boot'[s].alone = FALSE

\* A process that changes leaves the others where they stand, alone or no more.
Others(s) ==
  \A t \in Servers \ {s} : /\ boot'[t].at = boot[t].at /\ boot'[t].todo = boot[t].todo
                           /\ boot'[t].alone = boot[t].alone \/ boot'[t].alone = FALSE

\* The fields of a start that is replaced or changed.
LEMMA BootFields ==
  ASSUME boot \in [Servers -> BootType], NEW s \in Servers, NEW b \in BootType, boot' = [boot EXCEPT ![s] = b]
  PROVE  boot' \in [Servers -> BootType] /\ boot'[s] = b /\ Others(s) /\ \A t \in Servers \ {s} : boot'[t] = boot[t]
BY DEF Others

\* Each of the quiet steps is one.
LEMMA QuietSteps ==
  ASSUME StartupType, NEW s \in Servers,
         \/ Boot(s) \/ GetPendingMigrations(s) \/ CountAdmins(s) \/ CountTheaters(s)
         \/ Seeded(s) \/ Dies(s) \/ \E t \in Seeds : SeedTheater(s, t)
  PROVE  /\ StartupType' /\ QuietStep(s) /\ Others(s)
         /\ ran' = ran /\ recorded' = recorded /\ adminUser' = adminUser /\ printed' = printed
<1> USE StartupAssumption DEF StartupAssumption, BootSteps
<1>1. boot \in [Servers -> BootType] /\ boot[s] \in BootType /\ deaths \in Nat /\ catalog \in SUBSET Seeds
  BY DEF StartupType
<1>2. Down \in BootType /\ Down.at = "down" /\ Down.todo = {} /\ Down.alone = FALSE
  BY DEF Down, BootType
<1>3. ran' = ran /\ recorded' = recorded /\ adminUser' = adminUser /\ printed' = printed
  BY DEF Boot, GetPendingMigrations, CountAdmins, CountTheaters, Seeded, Dies, SeedTheater
<1>4. deaths' \in Nat /\ catalog' \in SUBSET Seeds
  <2>1. deaths' \in {deaths, deaths + 1}
    BY DEF Boot, GetPendingMigrations, CountAdmins, CountTheaters, Seeded, Dies, SeedTheater
  <2>2. catalog' = catalog \/ \E t \in Seeds : catalog' = catalog \union {t}
    BY DEF Boot, GetPendingMigrations, CountAdmins, CountTheaters, Seeded, Dies, SeedTheater
  <2> QED BY <1>1, <2>1, <2>2
<1>5. /\ boot' \in [Servers -> BootType] /\ QuietStep(s) /\ Others(s)
  <2>1. CASE Boot(s)
    <3>1. \A t \in Servers \ {s} : /\ boot'[t] = [boot[t] EXCEPT !.alone = FALSE] /\ boot[t] \in BootType
      BY <1>1, <2>1 DEF Boot
    <3>2. boot'[s] = [Down EXCEPT !.at = "pending", !.alone = \A o \in Servers \ {s} : boot[o].at \in {"down", "up"}]
      BY <1>1, <2>1 DEF Boot
    <3>3. boot'[s] \in BootType /\ boot'[s].at = "pending" /\ boot'[s].todo = {}
          /\ boot'[s].alone = (\A o \in Servers \ {s} : boot[o].at \in {"down", "up"})
      BY <1>2, <3>2 DEF BootType, Down
    <3>4. \A t \in Servers \ {s} : /\ boot'[t] \in BootType /\ boot'[t].alone = FALSE
                                   /\ boot'[t].at = boot[t].at /\ boot'[t].todo = boot[t].todo
      BY <3>1 DEF BootType
    <3>5. boot' \in [Servers -> BootType]
      <4>1. DOMAIN boot' = Servers /\ \A t \in Servers : boot'[t] \in BootType
        BY <2>1, <3>3, <3>4 DEF Boot
      <4> QED BY <2>1, <4>1 DEF Boot
    <3> QED BY <3>3, <3>4, <3>5 DEF QuietStep, Others
  <2>2. CASE GetPendingMigrations(s)
    <3>1. boot' = [boot EXCEPT ![s] = [boot[s] EXCEPT !.at = "apply", !.todo = Files \ recorded]]
      BY <1>1, <2>2 DEF GetPendingMigrations
    <3>2. [boot[s] EXCEPT !.at = "apply", !.todo = Files \ recorded] \in BootType
      BY <1>1 DEF BootType
    <3>3. /\ boot' \in [Servers -> BootType] /\ Others(s)
          /\ boot'[s] = [boot[s] EXCEPT !.at = "apply", !.todo = Files \ recorded]
      BY <1>1, <3>1, <3>2, BootFields
    <3>4. boot[s].at = "pending" /\ boot'[s].at = "apply" /\ boot'[s].todo = Files \ recorded
            /\ boot'[s].alone = boot[s].alone
      BY <1>1, <2>2, <3>3 DEF GetPendingMigrations, BootType
    <3> QED BY <3>3, <3>4 DEF QuietStep
  <2>3. CASE CountAdmins(s)
    <3>1. boot' = [boot EXCEPT ![s] = [boot[s] EXCEPT !.at = IF adminUser = "admin" THEN "seed" ELSE "admin"]]
      BY <1>1, <2>3 DEF CountAdmins, Goto
    <3>2. [boot[s] EXCEPT !.at = IF adminUser = "admin" THEN "seed" ELSE "admin"] \in BootType
      BY <1>1 DEF BootType
    <3> QED BY <1>1, <2>3, <3>1, <3>2, BootFields DEF CountAdmins, QuietStep, BootType
  <2>4. ASSUME NEW at \in {"seeding", "up"}, NEW left \in SUBSET Seeds, boot[s].at \in {"seed", "seeding"},
               boot' = [boot EXCEPT ![s] = [boot[s] EXCEPT !.at = at, !.left = left]]
        PROVE  /\ boot' \in [Servers -> BootType] /\ QuietStep(s) /\ Others(s)
    <3>1. [boot[s] EXCEPT !.at = at, !.left = left] \in BootType
      BY <1>1 DEF BootType
    <3> QED BY <1>1, <2>4, <3>1, BootFields DEF QuietStep, BootType
  <2>5. CASE CountTheaters(s)
    <3> DEFINE left == IF catalog = {} THEN Seeds ELSE {}
               at == IF catalog = {} THEN "seeding" ELSE "up"
    <3>1. boot' = [boot EXCEPT ![s] = [boot[s] EXCEPT !.at = at, !.left = left]]
      BY <1>1, <2>5 DEF CountTheaters
    <3>2. left \in SUBSET Seeds /\ at \in {"seeding", "up"} /\ boot[s].at \in {"seed", "seeding"}
      BY <2>5 DEF CountTheaters
    <3> QED BY <2>4, <3>1, <3>2
  <2>6. CASE Seeded(s)
    <3>1. boot' = [boot EXCEPT ![s] = [boot[s] EXCEPT !.at = "up", !.left = {}]] /\ boot[s].at = "seeding"
      BY <1>1, <2>6 DEF Seeded
    <3>2. "up" \in {"seeding", "up"} /\ {} \in SUBSET Seeds /\ boot[s].at \in {"seed", "seeding"}
      BY <3>1
    <3> QED BY <2>4, <3>1, <3>2
  <2>7. CASE \E t \in Seeds : SeedTheater(s, t)
    <3>1. PICK t \in Seeds : SeedTheater(s, t)
      BY <2>7
    <3>2. boot[s].at = "seeding" /\ boot[s].left \ {t} \in SUBSET Seeds
      BY <1>1, <3>1 DEF SeedTheater, BootType
    <3>3. boot' = [boot EXCEPT ![s] = [boot[s] EXCEPT !.at = "seeding", !.left = boot[s].left \ {t}]]
      <4>1. boot' = [boot EXCEPT ![s] = [boot[s] EXCEPT !.left = boot[s].left \ {t}]]
        BY <1>1, <3>1 DEF SeedTheater
      <4>2. [boot[s] EXCEPT !.left = boot[s].left \ {t}] = [boot[s] EXCEPT !.at = "seeding", !.left = boot[s].left \ {t}]
        BY <1>1, <3>2 DEF BootType
      <4> QED BY <4>1, <4>2
    <3> QED BY <2>4, <3>2, <3>3
  <2>8. CASE Dies(s)
    <3>1. boot' = [boot EXCEPT ![s] = Down]
      BY <2>8 DEF Dies, Exits
    <3> QED BY <1>1, <1>2, <3>1, BootFields DEF QuietStep
  <2> QED BY <2>1, <2>2, <2>3, <2>5, <2>6, <2>7, <2>8
<1> QED BY <1>3, <1>4, <1>5 DEF StartupType

\* The steps of a start that keep what is recorded and logged.
LEMMA QuietStepsKeep ==
  ASSUME StartupIInv, NEW s \in Servers, StartupType', QuietStep(s), Others(s),
         ran' = ran, recorded' = recorded, adminUser' = adminUser, printed' = printed
  PROVE  StartupIInv'
<1>1. StartupType
  BY DEF StartupIInv
<1>6. RecordedHasRun'
  BY DEF StartupIInv, StartupInv, RecordedHasRun
<1>7. ServesOnWholeSchema'
  BY <1>1 DEF QuietStep, Others, StartupType, StartupIInv, StartupInv, ServesOnWholeSchema, Applies
<1>8. OnePassword' /\ OnePrints'
  BY DEF QuietStep, Others, StartupIInv, StartupInv, OnePassword, OnePrints
<1>9. LoneStartGoesOn'
  BY DEF QuietStep, Others, StartupIInv, StartupInv, LoneStartGoesOn
<1>10. \A t \in Servers : Applies(t)'
  BY <1>1 DEF QuietStep, Others, StartupType, StartupIInv, Applies
<1>11. \A t \in Servers : IsAlone(t)'
  BY DEF QuietStep, Others, StartupIInv, IsAlone
<1> QED BY <1>6, <1>7, <1>8, <1>9, <1>10, <1>11 DEF StartupIInv, StartupInv

\* A file runs: all those before it are recorded.
LEMMA ExecuteKeeps ==
  ASSUME StartupIInv, NEW s \in Servers, ExecuteFile(s)
  PROVE  StartupIInv'
<1> DEFINE todo == boot[s].todo
           f == First(todo)
<1>1. StartupType /\ Applies(s) /\ RecordedHasRun
  BY DEF StartupIInv, StartupInv
<1>2. /\ boot[s].at = "apply" /\ todo # {} /\ todo \in SUBSET Files /\ boot[s] \in BootType
      /\ ran' = [ran EXCEPT ![f] = @ + 1] /\ recorded' = recorded
      /\ boot' = [boot EXCEPT ![s] = [boot[s] EXCEPT !.at = "record"]]
      /\ adminUser' = adminUser /\ printed' = printed /\ catalog' = catalog /\ deaths' = deaths
  BY <1>1 DEF ExecuteFile, Effect, Goto, StartupType, BootType
<1>3. f \in todo /\ \A g \in todo : f <= g
  BY <1>2, FirstIsLeast
<1>4. [boot[s] EXCEPT !.at = "record"] \in BootType
  BY <1>2 DEF BootType, BootSteps
<1>5. /\ boot' \in [Servers -> BootType] /\ \A t \in Servers \ {s} : boot'[t] = boot[t]
      /\ boot'[s].at = "record" /\ boot'[s].todo = todo /\ boot'[s].alone = boot[s].alone
  BY <1>1, <1>2, <1>4, BootFields DEF StartupType, BootType
<1>6. /\ ran' \in [Files -> Nat] /\ ran'[f] > 0 /\ f \in Files
      /\ \A g \in Files : ran'[g] >= ran[g] /\ (g # f => ran'[g] = ran[g])
  BY <1>1, <1>2, <1>3 DEF StartupType
<1>7. StartupType'
  BY <1>1, <1>2, <1>5, <1>6 DEF StartupType
<1>8. RecordedHasRun'
  <2>1. \A g \in Files : g < f => g \in recorded
    BY <1>1, <1>2, <1>3, <1>6, StartupAssumption DEF StartupAssumption, Applies, Files
  <2>2. \A g \in recorded : ran'[g] > 0
    BY <1>1, <1>6 DEF StartupType, RecordedHasRun
  <2>3. \A g, h \in Files : g < h /\ ran'[h] > 0 => g \in recorded
    BY <2>1, <1>1, <1>6 DEF RecordedHasRun
  <2> QED BY <2>2, <2>3, <1>2 DEF RecordedHasRun
<1>9. \A t \in Servers : Applies(t)'
  <2>1. Applies(s)'
    BY <1>1, <1>2, <1>5, <1>6 DEF Applies
  <2>2. ASSUME NEW t \in Servers \ {s} PROVE Applies(t)'
    <3>1. Applies(t) /\ boot[t].todo \in SUBSET Files
      BY <1>1 DEF StartupIInv, StartupType, BootType
    <3>2. CASE boot[t].at = "record"
      <4>1. First(boot[t].todo) \in Files
        BY <3>1, <3>2, FirstIsLeast DEF Applies
      <4>2. ran'[First(boot[t].todo)] > 0
        BY <4>1, <3>1, <3>2, <1>1, <1>6 DEF Applies, StartupType
      <4> QED BY <3>1, <3>2, <4>2, <1>2, <1>5 DEF Applies
    <3>3. CASE boot[t].at # "record"
      BY <3>1, <3>3, <1>2, <1>5 DEF Applies
    <3> QED BY <3>2, <3>3
  <2> QED BY <2>1, <2>2
<1>10. ServesOnWholeSchema' /\ OnePassword' /\ OnePrints'
  BY <1>2, <1>5 DEF StartupIInv, StartupInv, ServesOnWholeSchema, OnePassword, OnePrints
<1>11. LoneStartGoesOn'
  BY <1>2, <1>5 DEF StartupIInv, StartupInv, LoneStartGoesOn
<1>12. \A t \in Servers : IsAlone(t)'
  BY <1>2, <1>5 DEF StartupIInv, IsAlone
<1> QED BY <1>7, <1>8, <1>9, <1>10, <1>11, <1>12 DEF StartupIInv, StartupInv

\* The file that has run is recorded, or another process was faster.
LEMMA RecordKeeps ==
  ASSUME StartupIInv, NEW s \in Servers, RecordFile(s)
  PROVE  StartupIInv'
<1> DEFINE todo == boot[s].todo
           f == First(todo)
<1>1. StartupType /\ Applies(s) /\ RecordedHasRun
  BY DEF StartupIInv, StartupInv
<1>2. /\ boot[s].at = "record" /\ todo # {} /\ todo \in SUBSET Files /\ boot[s] \in BootType
      /\ adminUser' = adminUser /\ printed' = printed /\ catalog' = catalog /\ deaths' = deaths
  BY <1>1 DEF RecordFile, StartupType, BootType, Applies
<1>3. f \in todo /\ f \in Files /\ ran[f] > 0
  BY <1>1, <1>2, FirstIsLeast DEF Applies
<1>4. CASE f \in recorded
  <2>1. boot' = [boot EXCEPT ![s] = Down] /\ ran' = ran /\ recorded' = recorded
    BY <1>4 DEF RecordFile, Exits
  <2>2. Down \in BootType /\ Down.at = "down" /\ Down.todo = {} /\ Down.alone = FALSE
    BY DEF Down, BootType, BootSteps
  <2>3. boot' \in [Servers -> BootType] /\ boot'[s] = Down /\ Others(s)
    BY <1>1, <2>1, <2>2, BootFields DEF StartupType
  <2>4. StartupType' /\ QuietStep(s)
    BY <1>1, <1>2, <2>1, <2>2, <2>3 DEF StartupType, QuietStep
  <2> QED BY <1>2, <2>1, <2>3, <2>4, QuietStepsKeep
<1>5. CASE f \notin recorded
  <2>1. /\ recorded' = recorded \union {f} /\ ran' = ran
        /\ boot' = [boot EXCEPT ![s] = [boot[s] EXCEPT !.at = "apply", !.todo = todo \ {f}]]
    BY <1>1, <1>2, <1>5 DEF RecordFile, Effect, StartupType
  <2>2. [boot[s] EXCEPT !.at = "apply", !.todo = todo \ {f}] \in BootType
    BY <1>2 DEF BootType, BootSteps
  <2>3. /\ boot' \in [Servers -> BootType] /\ \A t \in Servers \ {s} : boot'[t] = boot[t]
        /\ boot'[s].at = "apply" /\ boot'[s].todo = todo \ {f} /\ boot'[s].alone = boot[s].alone
    BY <1>1, <1>2, <2>1, <2>2, BootFields DEF StartupType, BootType
  <2>4. StartupType'
    BY <1>1, <1>2, <1>3, <2>1, <2>3 DEF StartupType
  <2>5. RecordedHasRun'
    BY <1>1, <1>3, <2>1 DEF RecordedHasRun
  <2>6. \A t \in Servers : Applies(t)'
    BY <1>1, <1>2, <2>1, <2>3 DEF StartupIInv, Applies
  <2>7. ServesOnWholeSchema' /\ OnePassword' /\ OnePrints'
    BY <1>1, <1>2, <1>3, <2>1, <2>3 DEF StartupType, StartupIInv, StartupInv, ServesOnWholeSchema, OnePassword, OnePrints
  <2>8. LoneStartGoesOn'
    <3> SUFFICES ASSUME NEW t \in Servers, boot'[t].alone
                 PROVE  boot'[t].todo \intersect recorded' = {} /\ (boot'[t].at = "admin" => adminUser' # "admin")
      BY DEF LoneStartGoesOn
    <3>1. CASE t = s
      BY <1>2, <2>1, <2>3, <3>1 DEF StartupIInv, StartupInv, LoneStartGoesOn
    <3>2. CASE t # s
      BY <1>2, <2>3, <3>2 DEF StartupIInv, IsAlone
    <3> QED BY <3>1, <3>2
  <2>9. \A t \in Servers : IsAlone(t)'
    BY <1>2, <2>3 DEF StartupIInv, IsAlone
  <2> QED BY <2>4, <2>5, <2>6, <2>7, <2>8, <2>9 DEF StartupIInv, StartupInv
<1> QED BY <1>4, <1>5

\* The first administrator is inserted, its password is logged, the last one is demoted.
LEMMA AdminStepsKeep ==
  ASSUME StartupIInv, LastAdminLost \/ \E s \in Servers : InsertAdmin(s) \/ PrintPassword(s)
  PROVE  StartupIInv'
<1>1. StartupType
  BY DEF StartupIInv
<1>2. /\ ran' = ran /\ recorded' = recorded /\ catalog' = catalog /\ deaths' = deaths
  BY DEF LastAdminLost, InsertAdmin, PrintPassword
<1>3. CASE LastAdminLost
  <2>1. boot' = boot /\ adminUser = "admin" /\ adminUser' = "demoted" /\ printed' = printed
    BY <1>3 DEF LastAdminLost
  <2> QED BY <1>1, <1>2, <2>1 DEF StartupIInv, StartupInv, StartupType, RecordedHasRun, ServesOnWholeSchema, OnePassword,
          LoneStartGoesOn, OnePrints, Applies, IsAlone
<1>4. ASSUME NEW s \in Servers, InsertAdmin(s), adminUser # "none" PROVE StartupIInv'
  <2>1. boot' = [boot EXCEPT ![s] = Down] /\ adminUser' = adminUser /\ printed' = printed
    BY <1>4 DEF InsertAdmin, Exits
  <2>2. Down \in BootType /\ Down.at = "down" /\ Down.todo = {} /\ Down.alone = FALSE
    BY DEF Down, BootType, BootSteps
  <2>3. boot' \in [Servers -> BootType] /\ boot'[s] = Down /\ Others(s)
    BY <1>1, <2>1, <2>2, BootFields DEF StartupType
  <2>4. StartupType' /\ QuietStep(s)
    BY <1>1, <1>2, <2>1, <2>2, <2>3 DEF StartupType, QuietStep
  <2> QED BY <1>2, <2>1, <2>3, <2>4, QuietStepsKeep
<1>5. ASSUME NEW s \in Servers, NEW at \in {"print", "seed"}, boot' = [boot EXCEPT ![s].at = at]
      PROVE  /\ boot' \in [Servers -> BootType] /\ \A t \in Servers \ {s} : boot'[t] = boot[t]
             /\ boot'[s].at = at /\ boot'[s].todo = boot[s].todo /\ boot'[s].alone = boot[s].alone
  <2>1. boot[s] \in BootType /\ boot' = [boot EXCEPT ![s] = [boot[s] EXCEPT !.at = at]]
    BY <1>1, <1>5 DEF StartupType
  <2>2. [boot[s] EXCEPT !.at = at] \in BootType
    BY <2>1 DEF BootType, BootSteps
  <2> QED BY <1>1, <2>1, <2>2, BootFields DEF StartupType, BootType
<1>6. ASSUME NEW s \in Servers, InsertAdmin(s), adminUser = "none" PROVE StartupIInv'
  <2>1. boot[s].at = "admin" /\ boot' = [boot EXCEPT ![s].at = "print"] /\ adminUser' = "admin" /\ printed' = printed
    BY <1>6 DEF InsertAdmin, Goto
  <2>2. /\ boot' \in [Servers -> BootType] /\ \A t \in Servers \ {s} : boot'[t] = boot[t]
        /\ boot'[s].at = "print" /\ boot'[s].todo = boot[s].todo /\ boot'[s].alone = boot[s].alone
    BY <2>1, <1>5
  <2>3. printed = 0 /\ \A t \in Servers : boot[t].at # "print"
    BY <1>1, <1>6 DEF StartupIInv, StartupInv, OnePassword, StartupType
  <2>4. StartupType' /\ RecordedHasRun'
    BY <1>1, <1>2, <2>1, <2>2 DEF StartupType, StartupIInv, StartupInv, RecordedHasRun
  <2>5. ServesOnWholeSchema' /\ OnePassword' /\ OnePrints'
    BY <1>2, <2>1, <2>2, <2>3 DEF StartupIInv, StartupInv, ServesOnWholeSchema, OnePassword, OnePrints
  <2>6. LoneStartGoesOn'
    <3> SUFFICES ASSUME NEW t \in Servers, boot'[t].alone
                 PROVE  boot'[t].todo \intersect recorded' = {} /\ (boot'[t].at = "admin" => adminUser' # "admin")
      BY DEF LoneStartGoesOn
    <3>1. CASE t = s
      BY <1>2, <2>2, <3>1 DEF StartupIInv, StartupInv, LoneStartGoesOn
    <3>2. CASE t # s
      BY <2>1, <2>2, <3>2 DEF StartupIInv, IsAlone
    <3> QED BY <3>1, <3>2
  <2>7. \A t \in Servers : Applies(t)' /\ IsAlone(t)'
    BY <1>2, <2>1, <2>2 DEF StartupIInv, Applies, IsAlone
  <2> QED BY <2>4, <2>5, <2>6, <2>7 DEF StartupIInv, StartupInv
<1>7. ASSUME NEW s \in Servers, PrintPassword(s) PROVE StartupIInv'
  <2>1. boot[s].at = "print" /\ boot' = [boot EXCEPT ![s].at = "seed"] /\ adminUser' = adminUser /\ printed' = printed + 1
    BY <1>7 DEF PrintPassword, Goto
  <2>2. /\ boot' \in [Servers -> BootType] /\ \A t \in Servers \ {s} : boot'[t] = boot[t]
        /\ boot'[s].at = "seed" /\ boot'[s].todo = boot[s].todo /\ boot'[s].alone = boot[s].alone
    BY <2>1, <1>5
  <2>3. printed = 0 /\ adminUser # "none" /\ \A t \in Servers \ {s} : boot[t].at # "print"
    BY <2>1 DEF StartupIInv, StartupInv, OnePassword, OnePrints
  <2>4. StartupType' /\ RecordedHasRun'
    BY <1>1, <1>2, <2>1, <2>2 DEF StartupType, StartupIInv, StartupInv, RecordedHasRun
  <2>5. ServesOnWholeSchema' /\ OnePassword' /\ OnePrints' /\ LoneStartGoesOn'
    BY <1>2, <2>1, <2>2, <2>3
       DEF StartupIInv, StartupInv, ServesOnWholeSchema, OnePassword, OnePrints, LoneStartGoesOn
  <2>6. \A t \in Servers : Applies(t)' /\ IsAlone(t)'
    BY <1>2, <2>1, <2>2 DEF StartupIInv, Applies, IsAlone
  <2> QED BY <2>4, <2>5, <2>6 DEF StartupIInv, StartupInv
<1> QED BY <1>3, <1>4, <1>6, <1>7

\* Every step of any number of processes preserves the invariant.
LEMMA BootKeeps == StartupIInv /\ [StartupNext]_startupVars => StartupIInv'
<1> SUFFICES ASSUME StartupIInv, [StartupNext]_startupVars PROVE StartupIInv'
  OBVIOUS
<1>1. ASSUME NEW s \in Servers,
             \/ Boot(s) \/ GetPendingMigrations(s) \/ CountAdmins(s) \/ CountTheaters(s)
             \/ Seeded(s) \/ Dies(s) \/ \E t \in Seeds : SeedTheater(s, t)
      PROVE  StartupIInv'
  <2>1. StartupType
    BY DEF StartupIInv
  <2> QED BY <1>1, <2>1, QuietSteps, QuietStepsKeep
<1>2. CASE UNCHANGED startupVars
  BY <1>2 DEF startupVars, StartupIInv, StartupInv, StartupType, RecordedHasRun, ServesOnWholeSchema, OnePassword,
     LoneStartGoesOn, OnePrints, Applies, IsAlone
<1> QED BY <1>1, <1>2, ExecuteKeeps, RecordKeeps, AdminStepsKeep DEF StartupNext

\* A file counts as applied only if it and all those before it have run, a process that
\* serves has the whole schema and its administrator, one password at most is logged, and
\* a start that runs alone is never stopped by what a dead one has left, for any number of
\* processes, files and deaths (migrations.ts, schema.ts, admin-bootstrap.ts).
THEOREM StartsSafely == StartupSpec => []StartupInv
BY BootStarts, BootKeeps, PTL DEF StartupSpec, StartupIInv

-----------------------------------------------------------------------------
(* The parse cache.                                                        *)

\* The cache is the end of the history of uses, up to its size.
IsTail(cache, history) ==
  /\ Len(cache) <= CacheSize /\ Len(cache) <= Len(history)
  /\ Len(cache) = Len(history) \/ Len(cache) = CacheSize
  /\ \A j \in 1 .. Len(cache) : cache[j] = history[Len(history) - Len(cache) + j]

ParseIInv ==
  /\ entries \in Seq(Texts) /\ uses \in Seq(Texts)
  /\ IsInjective(uses) /\ IsTail(entries, uses)
  /\ spoiled = {} /\ holders = {} /\ answer.asParsed
  /\ cacheHits \in Nat /\ cacheMisses \in Nat /\ Len(entries) <= cacheMisses

\* The cache holds what the history says.
LEMMA TailHolds ==
  ASSUME entries \in Seq(Texts), uses \in Seq(Texts), IsTail(entries, uses)
  PROVE  HoldsLastUsed
<1> USE ParseCacheAssumption DEF ParseCacheAssumption
<1> DEFINE first == IF Len(uses) > CacheSize THEN Len(uses) - CacheSize + 1 ELSE 1
           last == SubSeq(uses, first, Len(uses))
<1>1. first = Len(uses) - Len(entries) + 1 /\ first \in 1 .. Len(uses) + 1
  BY DEF IsTail
<1>2. /\ last \in Seq(Texts) /\ Len(last) = Len(entries)
      /\ \A j \in 1 .. Len(entries) : last[j] = uses[first + j - 1]
  <2>1. \A j \in first .. Len(uses) : uses[j] \in Texts
    BY <1>1
  <2>2. Len(last) = (IF first <= Len(uses) THEN Len(uses) - first + 1 ELSE 0) /\ last \in Seq(Texts)
        /\ \A j \in 1 .. Len(uses) - first + 1 : last[j] = uses[first + j - 1]
    BY <1>1, <2>1, SubSeqProperties
  <2> QED BY <1>1, <2>2
<1>3. \A j \in 1 .. Len(entries) : last[j] = entries[j]
  <2> TAKE j \in 1 .. Len(entries)
  <2>1. first + j - 1 = Len(uses) - Len(entries) + j
    BY <1>1
  <2> QED BY <1>2, <2>1 DEF IsTail
<1>4. last = entries
  BY <1>2, <1>3, SeqEqual
<1> QED BY <1>4 DEF HoldsLastUsed

\* The invariant implies ParseInv.
LEMMA ParseImplies == ParseIInv => ParseInv
BY TailHolds DEF ParseIInv, ParseInv, AnswersAsParsed

\* A key that is renewed goes to the end, the later ones move up.
LEMMA RenewedPlaces ==
  ASSUME NEW map \in Seq(Texts), IsInjective(map), NEW k \in 1 .. Len(map)
  PROVE  /\ Renewed(map, map[k]) \in Seq(Texts) /\ Len(Renewed(map, map[k])) = Len(map)
         /\ IsInjective(Renewed(map, map[k]))
         /\ \A j \in 1 .. Len(map) :
              Renewed(map, map[k])[j] = IF j < k THEN map[j] ELSE IF j < Len(map) THEN map[j + 1] ELSE map[k]
<1> DEFINE text == map[k]
           rest == RemoveAt(map, k)
<1>1. Deleted(map, text) = rest
  <2>1. \A i \in 1 .. Len(map) : map[i] = text => i = k
    BY DEF IsInjective
  <2>2. (CHOOSE i \in 1 .. Len(map) : map[i] = text) = k
    BY <2>1
  <2> QED BY <2>2 DEF Deleted, Keys
<1>2. /\ rest \in Seq(Texts) /\ Len(rest) = Len(map) - 1 /\ IsInjective(rest) /\ text \notin Range(rest)
      /\ \A j \in 1 .. Len(map) - 1 : rest[j] = IF j < k THEN map[j] ELSE map[j + 1]
  BY RemovedAt
<1> HIDE DEF rest
<1>3. text \in Texts
  OBVIOUS
<1>4. Append(rest, text) \in Seq(Texts) /\ Len(Append(rest, text)) = Len(map) /\ IsInjective(Append(rest, text))
  BY <1>2, <1>3, AppendedPipe
<1>5. \A j \in 1 .. Len(map) : Append(rest, text)[j] = IF j < k THEN map[j] ELSE IF j < Len(map) THEN map[j + 1] ELSE text
  BY <1>2, <1>3, AppendProperties
<1> QED BY <1>1, <1>4, <1>5 DEF Renewed

\* A new key goes to the end.
LEMMA RenewedNew ==
  ASSUME NEW map \in Seq(Texts), IsInjective(map), NEW text \in Texts, text \notin Keys(map)
  PROVE  /\ Renewed(map, text) = Append(map, text) /\ Renewed(map, text) \in Seq(Texts)
         /\ IsInjective(Renewed(map, text)) /\ Len(Renewed(map, text)) = Len(map) + 1
<1>1. Keys(map) = Range(map)
  BY DEF Keys, Range
<1> QED BY <1>1, AppendedPipe DEF Renewed, Deleted

\* The places of a tail, counted from the front of the history.
LEMMA TailPlaces ==
  ASSUME entries \in Seq(Texts), uses \in Seq(Texts), IsTail(entries, uses)
  PROVE  /\ Len(uses) - Len(entries) \in Nat
         /\ \A j \in 1 .. Len(entries) : /\ Len(uses) - Len(entries) + j \in 1 .. Len(uses)
                                         /\ entries[j] = uses[Len(uses) - Len(entries) + j]
BY DEF IsTail

\* A hit moves the entry to the end of the cache, and its text to the end of the history.
LEMMA HitKeeps ==
  ASSUME ParseIInv, NEW text \in Texts \union Malformed, Hit(text)
  PROVE  ParseIInv'
<1> DEFINE n == Len(entries)
           off == Len(uses) - n
<1>1. /\ entries \in Seq(Texts) /\ uses \in Seq(Texts) /\ IsInjective(uses) /\ IsTail(entries, uses)
      /\ entries' = Renewed(entries, text) /\ uses' = Renewed(uses, text)
  BY DEF ParseIInv, Hit, Touched
<1>2. PICK i \in 1 .. n : entries[i] = text
  BY DEF Hit, Keys
<1>3. /\ off \in Nat /\ n \in Nat
      /\ \A j \in 1 .. n : off + j \in 1 .. Len(uses) /\ entries[j] = uses[off + j]
  BY <1>1, TailPlaces
<1>4. IsInjective(entries)
  <2>1. ASSUME NEW j \in 1 .. n, NEW k \in 1 .. n, entries[j] = entries[k] PROVE j = k
    <3>1. uses[off + j] = uses[off + k] /\ off + j \in DOMAIN uses /\ off + k \in DOMAIN uses
      BY <1>1, <1>3, <2>1
    <3>2. off + j = off + k
      BY <1>1, <3>1 DEF IsInjective
    <3> QED BY <1>3, <3>2
  <2> QED BY <1>1, <2>1 DEF IsInjective
<1>5. /\ entries' \in Seq(Texts) /\ Len(entries') = n
      /\ \A j \in 1 .. n : entries'[j] = IF j < i THEN entries[j] ELSE IF j < n THEN entries[j + 1] ELSE text
  BY <1>1, <1>2, <1>4, RenewedPlaces
<1>6. /\ uses' \in Seq(Texts) /\ Len(uses') = Len(uses) /\ IsInjective(uses')
      /\ \A j \in 1 .. Len(uses) :
           uses'[j] = IF j < off + i THEN uses[j] ELSE IF j < Len(uses) THEN uses[j + 1] ELSE text
  <2>1. off + i \in 1 .. Len(uses) /\ uses[off + i] = text
    BY <1>2, <1>3
  <2> QED BY <1>1, <2>1, RenewedPlaces
<1>7. ASSUME NEW j \in 1 .. n PROVE entries'[j] = uses'[off + j]
  <2>1. off + j \in 1 .. Len(uses) /\ (off + j < off + i <=> j < i) /\ (off + j < Len(uses) <=> j < n)
    BY <1>3
  <2>2. uses'[off + j] = IF j < i THEN uses[off + j] ELSE IF j < n THEN uses[off + j + 1] ELSE text
    BY <1>6, <2>1
  <2>3. entries[j] = uses[off + j] /\ (j < n => entries[j + 1] = uses[off + j + 1])
    <3>1. entries[j] = uses[off + j]
      BY <1>3
    <3>2. ASSUME j < n PROVE entries[j + 1] = uses[off + j + 1]
      <4>1. j + 1 \in 1 .. n /\ off + (j + 1) = off + j + 1
        BY <1>3, <3>2
      <4>2. entries[j + 1] = uses[off + (j + 1)]
        BY <1>3, <4>1
      <4> QED BY <4>1, <4>2
    <3> QED BY <3>1, <3>2
  <2> QED BY <1>5, <2>2, <2>3
<1>8. IsTail(entries', uses')
  <2>1. Len(uses') - Len(entries') = off /\ Len(entries') = n
    BY <1>5, <1>6
  <2> QED BY <1>1, <1>5, <1>6, <1>7, <2>1 DEF IsTail
<1>9. /\ cacheHits' \in Nat /\ cacheMisses' = cacheMisses /\ spoiled' = {} /\ holders' = {} /\ answer'.asParsed
  <2>1. text \notin spoiled
    BY DEF ParseIInv
  <2>2. answer'.asParsed
    BY <2>1 DEF Hit
  <2> QED BY <2>2 DEF ParseIInv, Hit, Handed
<1> QED BY <1>5, <1>6, <1>8, <1>9 DEF ParseIInv

\* A miss that parses drops the oldest entry at the limit, and puts the new one at the end.
LEMMA MissKeeps ==
  ASSUME ParseIInv, NEW text \in Texts \union Malformed, Miss(text)
  PROVE  ParseIInv'
<1> USE ParseCacheAssumption DEF ParseCacheAssumption
<1> DEFINE n == Len(entries)
           off == Len(uses) - n
<1>1. /\ entries \in Seq(Texts) /\ uses \in Seq(Texts) /\ IsInjective(uses) /\ IsTail(entries, uses)
      /\ text \notin Keys(entries) /\ cacheMisses \in Nat /\ n <= cacheMisses
  BY DEF ParseIInv, Miss
<1>2. /\ cacheHits' \in Nat /\ cacheMisses' = cacheMisses + 1 /\ spoiled' = {} /\ holders' = {}
      /\ answer'.asParsed
  BY DEF ParseIInv, Miss, Handed
<1>3. CASE text \in Malformed
  BY <1>1, <1>2, <1>3 DEF ParseIInv, Miss
<1>4. CASE text \notin Malformed
  <2>1. text \in Texts /\ entries' = Stored(entries, text) /\ uses' = Renewed(uses, text)
    BY <1>4 DEF Miss
  <2>2. /\ off \in Nat /\ n \in Nat /\ n <= CacheSize /\ (off = 0 \/ n = CacheSize)
        /\ \A j \in 1 .. n : off + j \in 1 .. Len(uses) /\ entries[j] = uses[off + j]
    BY <1>1, TailPlaces DEF IsTail
  <2>3. CASE n < CacheSize
    <3>1. entries' = Append(entries, text) /\ off = 0 /\ Len(uses) = n
      BY <2>1, <2>2, <2>3 DEF Stored
    <3>2. text \notin Keys(uses)
      <4>1. \A j \in 1 .. n : uses[j] = entries[j]
        BY <2>2, <3>1
      <4> QED BY <1>1, <3>1, <4>1 DEF Keys
    <3>3. uses' = Append(uses, text) /\ uses' \in Seq(Texts) /\ IsInjective(uses') /\ Len(uses') = n + 1
      BY <1>1, <2>1, <3>1, <3>2, RenewedNew
    <3>4. entries' \in Seq(Texts) /\ Len(entries') = n + 1
      BY <1>1, <2>1, <3>1
    <3>5. \A j \in 1 .. n + 1 : entries'[j] = uses'[j]
      BY <1>1, <2>1, <2>2, <3>1, <3>3, AppendProperties
    <3>6. IsTail(entries', uses')
      <4>1. \A j \in 1 .. n + 1 : Len(uses') - Len(entries') + j = j
        BY <3>3, <3>4
      <4> QED BY <2>2, <2>3, <3>3, <3>4, <3>5, <4>1 DEF IsTail
    <3> QED BY <1>1, <1>2, <3>3, <3>4, <3>6 DEF ParseIInv
  <2>4. CASE n = CacheSize
    <3>1. entries' = Append(Tail(entries), text)
      BY <2>1, <2>4 DEF Stored
    <3>2. /\ Tail(entries) \in Seq(Texts) /\ Len(Tail(entries)) = n - 1
          /\ \A j \in 1 .. n - 1 : Tail(entries)[j] = entries[j + 1]
      BY <1>1, <2>4
    <3>3. /\ entries' \in Seq(Texts) /\ Len(entries') = n
          /\ \A j \in 1 .. n : entries'[j] = IF j < n THEN entries[j + 1] ELSE text
      <4>1. /\ entries' \in Seq(Texts) /\ Len(entries') = (n - 1) + 1 /\ entries'[(n - 1) + 1] = text
            /\ \A j \in 1 .. n - 1 : entries'[j] = Tail(entries)[j]
        BY <2>1, <3>1, <3>2, AppendProperties
      <4>2. (n - 1) + 1 = n
        BY <2>2
      <4>3. ASSUME NEW j \in 1 .. n PROVE entries'[j] = IF j < n THEN entries[j + 1] ELSE text
        <5>1. CASE j < n
          <6>1. j \in 1 .. n - 1
            BY <2>2, <5>1
          <6>2. entries'[j] = entries[j + 1]
            BY <3>2, <4>1, <6>1
          <6> QED BY <5>1, <6>2
        <5>2. CASE j = n
          BY <4>1, <4>2, <5>2
        <5> QED BY <2>2, <5>1, <5>2
      <4> QED BY <4>1, <4>2, <4>3
    <3>4. ASSUME NEW d \in Nat, Len(uses') = n + d, uses' \in Seq(Texts), IsInjective(uses'),
                 \A j \in 1 .. n : uses'[d + j] = IF j < n THEN uses[off + j + 1] ELSE text
          PROVE  ParseIInv'
      <4>1. ASSUME NEW j \in 1 .. n PROVE entries'[j] = uses'[d + j]
        <5>1. ASSUME j < n PROVE entries[j + 1] = uses[off + j + 1]
          <6>1. j + 1 \in 1 .. n /\ off + (j + 1) = off + j + 1
            BY <2>2, <5>1
          <6>2. entries[j + 1] = uses[off + (j + 1)]
            BY <2>2, <6>1
          <6> QED BY <6>1, <6>2
        <5> QED BY <3>3, <3>4, <5>1
      <4>2. Len(uses') - Len(entries') = d /\ Len(entries') = CacheSize /\ Len(entries') <= Len(uses')
        BY <2>2, <2>4, <3>3, <3>4
      <4>3. IsTail(entries', uses')
        <5>1. \A j \in 1 .. n : Len(uses') - Len(entries') + j = d + j
          BY <4>2
        <5> QED BY <2>2, <2>4, <3>3, <4>1, <4>2, <5>1 DEF IsTail
      <4> QED BY <1>1, <1>2, <2>2, <3>3, <3>4, <4>3 DEF ParseIInv
    <3>5. CASE text \notin Keys(uses)
      <4>1. uses' = Append(uses, text) /\ uses' \in Seq(Texts) /\ IsInjective(uses') /\ Len(uses') = n + (off + 1)
        BY <1>1, <2>1, <2>2, <3>5, RenewedNew
      <4>2. ASSUME NEW j \in 1 .. n PROVE uses'[off + 1 + j] = IF j < n THEN uses[off + j + 1] ELSE text
        <5>1. CASE j < n
          <6>1. off + 1 + j \in 1 .. Len(uses) /\ off + 1 + j = off + j + 1
            BY <2>2, <5>1
          <6>2. uses'[off + 1 + j] = uses[off + 1 + j]
            BY <1>1, <2>1, <4>1, <6>1, AppendProperties
          <6> QED BY <5>1, <6>1, <6>2
        <5>2. CASE j = n
          <6>1. off + 1 + j = Len(uses) + 1
            BY <2>2, <5>2
          <6>2. uses'[Len(uses) + 1] = text
            BY <1>1, <2>1, <4>1, AppendProperties
          <6> QED BY <5>2, <6>1, <6>2
        <5> QED BY <5>1, <5>2
      <4>3. off + 1 \in Nat
        BY <2>2
      <4> QED BY <3>4, <4>1, <4>2, <4>3
    <3>6. CASE text \in Keys(uses)
      <4>1. PICK k \in 1 .. Len(uses) : uses[k] = text
        BY <3>6 DEF Keys
      <4>2. k <= off
        <5>1. SUFFICES ASSUME k > off PROVE FALSE
          BY <2>2
        <5>2. k - off \in 1 .. n /\ off + (k - off) = k
          BY <2>2, <5>1
        <5>3. entries[k - off] = uses[k]
          BY <2>2, <5>2
        <5> QED BY <1>1, <4>1, <5>2, <5>3 DEF Keys
      <4>3. /\ uses' \in Seq(Texts) /\ Len(uses') = n + off /\ IsInjective(uses')
            /\ \A j \in 1 .. Len(uses) : uses'[j] = IF j < k THEN uses[j] ELSE IF j < Len(uses) THEN uses[j + 1] ELSE text
        <5>1. uses' = Renewed(uses, uses[k]) /\ Len(uses) = n + off
          BY <1>1, <2>1, <2>2, <4>1
        <5> QED BY <1>1, <4>1, <5>1, RenewedPlaces
      <4>4. ASSUME NEW j \in 1 .. n PROVE uses'[off + j] = IF j < n THEN uses[off + j + 1] ELSE text
        <5>1. off + j \in 1 .. Len(uses) /\ ~(off + j < k) /\ (off + j < Len(uses) <=> j < n)
          BY <2>2, <4>2
        <5> QED BY <4>3, <5>1
      <4> QED BY <2>2, <3>4, <4>3, <4>4
    <3> QED BY <3>5, <3>6
  <2> QED BY <2>2, <2>3, <2>4
<1> QED BY <1>3, <1>4

\* Every call and every change of a value preserves the invariant.
LEMMA ParseKeeps == ParseIInv /\ [ParseNext]_parseVars => ParseIInv'
<1> SUFFICES ASSUME ParseIInv, [ParseNext]_parseVars PROVE ParseIInv'
  OBVIOUS
<1>1. ASSUME NEW text \in Texts, Change(text) PROVE ParseIInv'
  <2>1. UNCHANGED <<entries, holders, answer, cacheHits, cacheMisses, uses>> /\ spoiled' = {}
    BY <1>1 DEF Change, ParseIInv
  <2> QED BY <2>1 DEF ParseIInv
<1>2. CASE UNCHANGED parseVars
  BY <1>2 DEF parseVars, ParseIInv
<1> QED BY <1>1, <1>2, HitKeeps, MissKeeps DEF ParseNext

\* The cache is empty at first.
LEMMA ParseStarts == ParseInit => ParseIInv
BY ParseCacheAssumption DEF ParseCacheAssumption, ParseInit, ParseIInv, IsTail, IsInjective

\* The cache holds the texts used last, in the order of their last use and no more than its
\* size, and every call gets what its text says, for any texts, size and number of calls
\* (json-parse-cache.ts).
THEOREM CacheKeepsLastUsed == ParseSpec => []ParseInv
BY ParseStarts, ParseKeeps, ParseImplies, PTL DEF ParseSpec

-----------------------------------------------------------------------------
(* The services together: one component moves at a time, and every         *)
(* behaviour of the whole is a behaviour of each component.                *)

\* A step of the whole is a step of a component or leaves it alone.
LEMMA OneServiceMoves ==
  ASSUME [Next]_vars
  PROVE  /\ [SessionsNext]_sessionVars /\ [StaffNext]_staffVars /\ [BusNext]_busVars
         /\ [ScheduleNext]_scheduleVars /\ [PushNext]_pushVars /\ [RateNext]_rateVars
         /\ [ProgrammeNext]_programmeVars /\ [StartupNext]_startupVars /\ [ParseNext]_parseVars
<1>1. ASSUME Rest
      PROVE  /\ part # "sessions" => UNCHANGED sessionVars
             /\ part # "staff" => UNCHANGED staffVars
             /\ part # "bus" => UNCHANGED busVars
             /\ part # "schedule" => UNCHANGED scheduleVars
             /\ part # "push" => UNCHANGED pushVars
             /\ part # "rate" => UNCHANGED rateVars
             /\ part # "programme" => UNCHANGED programmeVars
             /\ part # "startup" => UNCHANGED startupVars
             /\ part # "parse" => UNCHANGED parseVars
  BY <1>1 DEF Rest
<1>2. CASE Next
  <2>1. Rest
    BY <1>2 DEF Next
  <2>2. /\ part = "sessions" => SessionsNext
        /\ part = "staff" => StaffNext
        /\ part = "bus" => BusNext
        /\ part = "schedule" => ScheduleNext
        /\ part = "push" => PushNext
        /\ part = "rate" => RateNext
        /\ part = "programme" => ProgrammeNext
        /\ part = "startup" => StartupNext
        /\ part = "parse" => ParseNext
    BY <1>2 DEF Next
  <2> QED BY <1>1, <2>1, <2>2
<1>3. CASE UNCHANGED vars
  BY <1>3 DEF vars
<1> QED BY <1>2, <1>3

\* The whole behaves as each of its components.
LEMMA ServicesBehave ==
  Spec => /\ SessionsSpec /\ StaffSpec /\ BusSpec /\ ScheduleSpec /\ PushSpec /\ RateSpec
          /\ ProgrammeSpec /\ StartupSpec /\ ParseSpec
<1>1. Init => /\ SessionsInit /\ StaffInit /\ BusInit /\ ScheduleInit /\ PushInit /\ RateInit
              /\ ProgrammeInit /\ StartupInit /\ ParseInit
  BY DEF Init
<1>2. [Next]_vars => /\ [SessionsNext]_sessionVars /\ [StaffNext]_staffVars /\ [BusNext]_busVars
                     /\ [ScheduleNext]_scheduleVars /\ [PushNext]_pushVars /\ [RateNext]_rateVars
                     /\ [ProgrammeNext]_programmeVars /\ [StartupNext]_startupVars
                     /\ [ParseNext]_parseVars
  BY OneServiceMoves
<1> QED
  BY <1>1, <1>2, PTL DEF Spec, SessionsSpec, StaffSpec, BusSpec, ScheduleSpec, PushSpec, RateSpec,
                         ProgrammeSpec, StartupSpec, ParseSpec

\* Whatever component runs, what its steps preserve holds between any two of its
\* statements: requests and their locks, tokens and links (Sessions), the roster,
\* the connections of the bus, the schedules and their tasks, the event streams, the
\* rate limits, the programme, the start of a server and the parse cache.
THEOREM ServicesKeepInv == Spec => []ServicesInv
<1>1. BusSpec => []BusInv
  BY BusStarts, BusSteps, PTL DEF BusSpec
<1>2. SessionsInv /\ StaffInv /\ BusInv /\ ScheduleInv /\ PushInv /\ RateInv /\ ProgrammeInv /\ StartupInv
        /\ ParseInv => ServicesInv
  BY DEF ServicesInv
<1>3. (ScheduleInv /\ TasksFollowTable => ScheduleInv) /\ (PushInv /\ PipesAreServed => PushInv)
      /\ (ProgrammeTypeOK /\ ProgrammeInv => ProgrammeInv)
  OBVIOUS
<1> QED
  BY <1>1, <1>2, <1>3, ServicesBehave, SessionsKept, Roster, TasksKept, PipesServed, RatesKept,
     RowsReferToRows, StartsSafely, CacheKeepsLastUsed, PTL

\* A limited scrape takes today and days of the same cinema week only, on every
\* weekday of every reachable day, for any configured number of days and any change
\* to summer time the run looks at (getScrapeDates).
THEOREM LimitedScrapesKept == Spec => []LimitedScrapesFit
<1>1. ProgrammeTypeOK => LimitedScrapesFit
  <2> SUFFICES ASSUME today \in Nat, NEW day \in today .. today + 6, NEW n \in 0 .. 8,
                      NEW spring \in {Never} \union (day - 1 .. day + 7)
               PROVE  LimitedScrapeFits(day, n, spring)
    BY DEF ProgrammeTypeOK, LimitedScrapesFit
  <2>1. day \in Nat /\ n \in Int /\ spring \in Int
    BY DEF Never
  <2> QED BY <2>1, LimitedFits
<1>2. ProgrammeTypeOK /\ ProgrammeInv => ProgrammeTypeOK
  OBVIOUS
<1> QED BY <1>1, <1>2, ServicesBehave, RowsReferToRows, PTL
=============================================================================
