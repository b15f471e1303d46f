---------------------------- MODULE MailDelivery ----------------------------
(***************************************************************************)
(* What the queue of mails promises whoever hands one to it, through       *)
(* restarts.  A mail keeps its content and its place.  It is sent once,    *)
(* and once more only if a restart found it on its way out.  A restart     *)
(* loses nothing but the last mails handed over.  And a mail waits for its *)
(* turn: few are sent before one that was handed over earlier.             *)
(***************************************************************************)
EXTENDS Naturals, Sequences, FiniteSets

CONSTANTS
  Mails,  \* what a mail can be
  Lanes   \* the mails that are on their way out at the same time

VARIABLES
  mails,        \* the mails handed over, in that order
  sent,         \* how often each was sent
  open,         \* those the queue has not done with
  interrupted,  \* those a restart found on their way out
  restarts      \* restarts so far

delivery == <<mails, sent, open, interrupted, restarts>>

DeliveryInit ==
  /\ mails = <<>>
  /\ sent = <<>>
  /\ open = {}
  /\ interrupted = {}
  /\ restarts = 0

HandOver ==
  /\ \E mail \in Mails : mails' = Append(mails, mail)
  /\ sent' = Append(sent, 0)
  /\ open' = open \cup {Len(mails) + 1}
  /\ UNCHANGED <<interrupted, restarts>>

(* The earlier mails that are still to be sent. *)
Overtaken(i) == {j \in open : j < i /\ sent[j] = 0}

Send(i) ==
  /\ i \in open
  /\ \/ sent[i] = 0 /\ Cardinality(Overtaken(i)) < Lanes * (restarts + 1)
     \/ sent[i] = 1 /\ i \in interrupted
  /\ sent' = [sent EXCEPT ![i] = @ + 1]
  /\ UNCHANGED <<mails, open, interrupted, restarts>>

(* It was sent, or could not be. *)
Close(i) ==
  /\ i \in open
  /\ open' = open \ {i}
  /\ UNCHANGED <<mails, sent, interrupted, restarts>>

Restart(lost, found) ==
  /\ \A i \in lost : /\ sent[i] = 0 /\ i \notin interrupted
                     /\ \A j \in open : j > i => j \in lost
  /\ Cardinality(found) <= Lanes
  /\ open' = open \ lost
  /\ interrupted' = interrupted \cup found
  /\ restarts' = restarts + 1
  /\ UNCHANGED <<mails, sent>>

DeliveryNext ==
  \/ HandOver
  \/ \E i \in open : Send(i) \/ Close(i)
  \/ \E lost \in SUBSET open, found \in SUBSET open : Restart(lost, found)

DeliverySpec == DeliveryInit /\ [][DeliveryNext]_delivery
=============================================================================
