----------------------------- MODULE EmailQueue -----------------------------
(***************************************************************************)
(* The queue of mails: jobs in redis, added by the handlers, who await     *)
(* nothing, and taken by the processors of the same process.  Bull         *)
(* delivers a job at least once: one that was active when the process died *)
(* is found stalled and goes back, once.                                   *)
(***************************************************************************)
EXTENDS Naturals, Sequences, FiniteSets

CONSTANTS
  Recipients,  \* whom mails are for
  Kinds,       \* what mails say
  Processors,  \* jobs that are processed at the same time: one for each @Process
  MaxJobs      \* bound: jobs ever added

ASSUME ProcessorsAssumption == Processors \in Nat /\ MaxJobs \in Nat

MaxStalls == 1  \* the default of maxStalledCount

VARIABLES
  jobs,  \* the jobs ever added, in the order of their calls
  wait   \* the list of those waiting, first the one to be taken next

Job == [kind : Kinds, to : Recipients, stalls : Nat, mails : Nat,
        state : {"adding", "waiting", "active", "mailed", "stalled",
                 "completed", "failed", "lost"}]
JobIds == DOMAIN jobs
InState(state) == {i \in JobIds : jobs[i].state = state}
Ended(i) == jobs[i].state \in {"completed", "failed", "lost"}

(* addToEmailsQueue: the command leaves later. *)
addToEmailsQueue(kind, to) ==
  jobs' = Append(jobs, [kind |-> kind, to |-> to, stalls |-> 0, mails |-> 0, state |-> "adding"])

(* Fault: the newest job is taken next. *)
FaultyArrive(i) ==
  /\ i \in InState("adding") /\ \A j \in InState("adding") : i <= j
  /\ jobs' = [jobs EXCEPT ![i].state = "waiting"]
  /\ wait' = <<i>> \o wait

(* One connection: jobs arrive in the order they were added in. *)
Arrive(i) ==
  /\ i \in InState("adding") /\ \A j \in InState("adding") : i <= j
  /\ jobs' = [jobs EXCEPT ![i].state = "waiting"]
  /\ wait' = Append(wait, i)

Take ==
  /\ wait # <<>>
  /\ Cardinality(InState("active") \cup InState("mailed")) < Processors
  /\ jobs' = [jobs EXCEPT ![Head(wait)].state = "active"]
  /\ wait' = Tail(wait)

(* Fault: the job stays active after its mail, and is processed again. *)
FaultyMail(i) ==
  /\ i \in InState("active")
  /\ jobs[i].mails < 3
  /\ jobs' = [jobs EXCEPT ![i].mails = @ + 1]
  /\ UNCHANGED wait

(* The mail server accepts the mail... *)
Mail(i) ==
  /\ i \in InState("active")
  /\ jobs' = [jobs EXCEPT ![i].state = "mailed", ![i].mails = @ + 1]
  /\ UNCHANGED wait

(* ...or does not: the handler throws, and there is one attempt only. *)
Fail(i) ==
  /\ i \in InState("active")
  /\ jobs' = [jobs EXCEPT ![i].state = "failed"]
  /\ UNCHANGED wait

(* The handler returns and the job is marked as done. *)
Complete(i) ==
  /\ i \in InState("mailed")
  /\ jobs' = [jobs EXCEPT ![i].state = "completed"]
  /\ UNCHANGED wait

(* The process dies: what it had not sent is lost, what it worked on stalls. *)
Die ==
  /\ jobs' = [i \in JobIds |->
                CASE jobs[i].state = "adding" -> [jobs[i] EXCEPT !.state = "lost"]
                  [] jobs[i].state \in {"active", "mailed"} -> [jobs[i] EXCEPT !.state = "stalled"]
                  [] OTHER -> jobs[i]]
  /\ UNCHANGED wait

(* Fault: nobody cares for a job that stalled too often. *)
FaultyRecover(i) ==
  /\ i \in InState("stalled")
  /\ jobs[i].stalls < MaxStalls
  /\ jobs' = [jobs EXCEPT ![i].stalls = @ + 1, ![i].state = "waiting"]
  /\ wait' = <<i>> \o wait

(* The lock of a job has ended: it is the next one, or has stalled too often. *)
Recover(i) ==
  /\ i \in InState("stalled")
  /\ IF jobs[i].stalls < MaxStalls
       THEN /\ jobs' = [jobs EXCEPT ![i].stalls = @ + 1, ![i].state = "waiting"]
            /\ wait' = <<i>> \o wait
       ELSE jobs' = [jobs EXCEPT ![i].state = "failed"] /\ UNCHANGED wait

(* All the queue does by itself. *)
Process(i) == Arrive(i) \/ Mail(i) \/ Fail(i) \/ Complete(i) \/ Recover(i)
=============================================================================
