------------------------------- MODULE Roles -------------------------------
(***************************************************************************)
(* The roles, the permissions the seeds give them, and the two questions   *)
(* the guards and pipes ask: may this caller do it, and is that user or    *)
(* role within the caller's reach?                                         *)
(***************************************************************************)

RoleId == {"admin", "technicalAdmin", "businessAdmin",
           "accountManager", "labManager", "player"}

DependentRoles ==
  [admin |-> RoleId, technicalAdmin |-> {"labManager"}, businessAdmin |-> {"accountManager"},
   accountManager |-> {}, labManager |-> {}, player |-> {}]

(* The keys some endpoint asks for; the others of the enumeration guard nothing. *)
PermissionKeys ==
  {"userViewAll", "userViewOwn", "userUpdateOwn", "userStatus", "userInvite",
   "roleViewAll", "roleViewOne", "roleAssignToUser", "permissionViewAll",
   "permissionAssignToRole"}

(* RolesSeeder: the admin gets every permission, the others what the table says. *)
RolePermissions ==
  [r \in RoleId |->
     CASE r = "admin" -> PermissionKeys
       [] r \in {"technicalAdmin", "businessAdmin"} ->
            {"userViewAll", "userViewOwn", "userUpdateOwn", "userStatus", "userInvite",
             "roleViewAll", "roleAssignToUser"}
       [] OTHER -> {"userViewOwn", "userUpdateOwn"}]

(* Fault: a caller with any permission at all passes. *)
FaultyCan(held, needed) == needed = {} \/ held # {}

(* AuthService.can, for the permissions of the caller's role and the caller's   *)
(* own together.  Routes that ask for no permission let everybody pass.         *)
Can(held, needed) == needed = {} \/ held \cap needed # {}

(* Fault: every user is within every caller's reach. *)
FaultyWithinReach(caller, target) == TRUE

(* RoleAuthorizationPipe and isAuthorizedOnRole. *)
WithinReach(caller, target) == target \in DependentRoles[caller]
=============================================================================
