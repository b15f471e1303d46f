------------------------------ MODULE Sessions ------------------------------
(***************************************************************************)
(* The session records in redis, the one connection the process has to it, *)
(* and the tokens the sessions are made of.                                *)
(*                                                                         *)
(* The client writes its commands to the connection in the order they are  *)
(* given, and redis executes them in that order, some time later.  Nobody  *)
(* awaits the SET of a login.                                              *)
(***************************************************************************)
EXTENDS Naturals, Sequences, Roles

CONSTANTS
  Users,       \* the users who sign in
  Slots,       \* the requests that may be served at the same time
  JwtLife,     \* units of time a token is valid for: 172800 s, auth.config.ts
  RecordLife,  \* units of time a session record lives: 320000 s, auth.module.ts
  MaxTime      \* bound: units of time that pass

ASSUME LivesAssumption ==
  JwtLife \in Nat /\ RecordLife \in Nat /\ JwtLife <= RecordLife /\ MaxTime \in Nat

VARIABLES
  now,      \* the time
  session,  \* redis: the record session:<id> of each user
  pipe      \* the commands on their way to redis

-----------------------------------------------------------------------------
(* A token carries the user as login loaded it, whose role it may be, and the   *)
(* second it was signed in: sign in twice within a second, and the two tokens   *)
(* are the same string.                                                         *)
Token == [user : Users, at : 0..MaxTime, role : RoleId]
NoToken == [none |-> TRUE]

Expired(token) == now >= token.at + JwtLife

Record == [token : Token \cup {NoToken}, until : Nat]
NoRecord == [token |-> NoToken, until |-> 0]

(* A command, and the request that waits for what redis answers. *)
Nobody == "nobody"
Command == [do : {"set", "del", "get"}, user : Users, token : Token \cup {NoToken},
            slot : Slots \cup {Nobody}]
Set(token) == [do |-> "set", user |-> token.user, token |-> token, slot |-> Nobody]
Del(q, u) == [do |-> "del", user |-> u, token |-> NoToken, slot |-> q]
Get(q, u) == [do |-> "get", user |-> u, token |-> NoToken, slot |-> q]

(* Fault: the record gets no time to live. *)
FaultyStored(token) == [token |-> token]

(* SET with EX: the time to live starts when redis executes it. *)
Stored(token) == [token |-> token, until |-> now + RecordLife]

(* Fault: a command overtakes the one before it. *)
FaultySend(command) ==
  pipe' = IF pipe = <<>> THEN <<command>>
          ELSE [i \in 1..(Len(pipe) + 1) |->
                  IF i = Len(pipe) THEN command
                  ELSE IF i < Len(pipe) THEN pipe[i] ELSE pipe[Len(pipe)]]

Send(command) == pipe' = Append(pipe, command)

(* What redis does with a command; GET changes nothing. *)
Execute(command) ==
  session' = CASE command.do = "set" -> [session EXCEPT ![command.user] = Stored(command.token)]
               [] command.do = "del" -> [session EXCEPT ![command.user] = NoRecord]
               [] command.do = "get" -> session

(* A unit of time passes; redis drops the records that end. *)
Pass ==
  /\ now < MaxTime
  /\ now' = now + 1
  /\ session' = [u \in Users |-> IF session[u].until <= now' THEN NoRecord ELSE session[u]]

-----------------------------------------------------------------------------
(* What a user's session is going to be, once redis has executed the commands.  *)

Writes(commands, u) == {i \in DOMAIN commands : commands[i].user = u /\ commands[i].do # "get"}
IsLastWrite(commands, u, i) ==
  i \in Writes(commands, u) /\ \A j \in Writes(commands, u) : j <= i

SettlesOn(commands, u) ==
  IF Writes(commands, u) = {} THEN session[u].token
  ELSE commands[CHOOSE i \in DOMAIN commands : IsLastWrite(commands, u, i)].token
=============================================================================
