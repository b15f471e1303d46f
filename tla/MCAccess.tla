------------------------------ MODULE MCAccess ------------------------------
(* Small instances of Access for TLC. *)
EXTENDS Access, TLC

CONSTANTS q1, q2, a, b

MCSlots == {q1, q2}
MCUsers == {a, b}

(* One administrator, and one who is reached by them and reaches others. *)
MCFirstRole == (a :> "admin") @@ (b :> "technicalAdmin")

MCBundles == {{"userViewOwn", "userViewAll"}, {"userViewOwn"}}

Everybody == [filters |-> <<>>, fields |-> {}, term |-> MCUsers]
TwoFilters ==
  [filters |-> <<[key |-> "role", values |-> {"admin", "labManager"}],
                 [key |-> "role", values |-> RoleId]>>,
   fields |-> {"email"}, term |-> MCUsers]
MCQueries == {Everybody, TwoFilters}

(* Sessions of one user; roles that change under the requests that save users,  *)
(* and under listings; and permissions.                                         *)
MCWorkloads ==
  {[ops |-> {"login", "logout", "update"}, callers |-> {b}, until |-> 2],
   [ops |-> {"update", "updateOther", "assignRole"}, callers |-> {a, b}, until |-> 0],
   [ops |-> {"list", "assignRole"}, callers |-> {a}, until |-> 0],
   [ops |-> {"list", "assignPermissions"}, callers |-> {a, b}, until |-> 0]}
=============================================================================
