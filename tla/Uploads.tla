------------------------------- MODULE Uploads -------------------------------
(***************************************************************************)
(* The object store: files arrive in the temporary folder, by an upload    *)
(* address the client was given, and are copied from there when an avatar  *)
(* names them.                                                             *)
(***************************************************************************)
CONSTANT Names  \* the names generateUrl may give

VARIABLE objects  \* the keys there are

TempKey(name) == [folder |-> "temp", name |-> name]
PathKey(name) == [folder |-> "uploads", name |-> name]
AllKeys == {TempKey(n) : n \in Names} \cup {PathKey(n) : n \in Names}

(* The folder itself, under which nothing is ever stored. *)
TempFolder == [folder |-> "temp", name |-> "none"]

(* The key deleteFile deletes: the precedence of ?: over + leaves the name out  *)
(* of a temporary one.                                                          *)
DeleteKey(name, isTemp) == IF isTemp THEN TempFolder ELSE PathKey(name)

(* The client puts a file where generateUrl said. *)
generateUrl(name) == objects' = objects \cup {TempKey(name)}

(* copyObject needs the temporary file. *)
CanCopy(name) == TempKey(name) \in objects
Copy(name) == CanCopy(name) /\ objects' = objects \cup {PathKey(name)}

(* An error of the store is logged and forgotten. *)
deleteFile(name, isTemp) ==
  objects' = objects \ {DeleteKey(name, isTemp)} \/ UNCHANGED objects
=============================================================================
