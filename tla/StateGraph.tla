----------------------------- MODULE StateGraph -----------------------------
(***************************************************************************)
(* The two state graphs the application registers with                     *)
(* nestjs-state-machine, and the questions StateService puts to them.  A   *)
(* graph maps the name of a transition to the statuses it may be applied   *)
(* in (from) and to the status it leads to (to).                           *)
(***************************************************************************)

InvitationStatus == {"pending", "accepted", "expired", "cancelled"}

(* Fault: a transition leads to its own name instead of a status. *)
FaultyInvitationGraph ==
  [acceptance   |-> [from |-> {"pending"}, to |-> "acceptance"],
   expiration   |-> [from |-> {"pending"}, to |-> "expired"],
   cancellation |-> [from |-> {"pending"}, to |-> "cancelled"]]

InvitationGraph ==
  [acceptance   |-> [from |-> {"pending"}, to |-> "accepted"],
   expiration   |-> [from |-> {"pending"}, to |-> "expired"],
   cancellation |-> [from |-> {"pending"}, to |-> "cancelled"]]

UserStatus == {"pending", "active", "suspended"}

(* Fault: a transition leads to its own name instead of a status. *)
FaultyUserGraph ==
  [activation |-> [from |-> {"pending", "suspended"}, to |-> "activation"],
   suspension |-> [from |-> {"active", "pending"}, to |-> "suspended"]]

UserGraph ==
  [activation |-> [from |-> {"pending", "suspended"}, to |-> "active"],
   suspension |-> [from |-> {"active", "pending"}, to |-> "suspended"]]

(* Fault: the status is never looked at. *)
FaultyCanApply(graph, transition, status) == transition \in DOMAIN graph

(* stateMachine.apply throws unless the transition starts in the status the *)
(* entity has in memory.                                                    *)
CanApply(graph, transition, status) == status \in graph[transition].from

(* The pairs of statuses one application of a transition may join. *)
Edges(graph) ==
  UNION {graph[t].from \X {graph[t].to} : t \in DOMAIN graph}
=============================================================================
