----------------------------- MODULE MCProfiles -----------------------------
(* Small instances of Profiles for TLC. *)
EXTENDS Profiles, TLC

CONSTANTS q1, q2, a, b, f, g

MCSlots == {q1, q2}
MCUsers == {a, b}
MCNames == {f, g}
MCKinds == {"account-activation", "account-suspension"}

Avatars == {"avatar", "update", "remove"}
Two == (a :> {f, g}) @@ (b :> {})
One == (a :> {f}) @@ (b :> {g})
Shared == (a :> {f}) @@ (b :> {f})

(* Avatars while requests overlap, of one user and of one file that two users   *)
(* share; mails of statuses that change while requests overlap, and while the   *)
(* process restarts twice; and, one request after the other, all of it for one  *)
(* user, and the avatars of two.                                                *)
MCWorkloads ==
  {[ops |-> Avatars, names |-> Two, callers |-> {a}, busy |-> 2, crashes |-> 1],
   [ops |-> {"avatar", "remove"}, names |-> Shared, callers |-> MCUsers, busy |-> 2, crashes |-> 1],
   [ops |-> {"activate", "suspend"}, names |-> One, callers |-> {a}, busy |-> 2, crashes |-> 1],
   [ops |-> {"activate", "suspend"}, names |-> One, callers |-> {a}, busy |-> 1, crashes |-> 2],
   [ops |-> Ops, names |-> One, callers |-> {a}, busy |-> 1, crashes |-> 0],
   [ops |-> Avatars, names |-> One, callers |-> MCUsers, busy |-> 1, crashes |-> 0]}
=============================================================================
