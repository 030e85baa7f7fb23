----------------------------- MODULE MCRequests -----------------------------
(* Requests for TLC.  The caller and the ACL matter to a request only that  *)
(* is answered otherwise if its caller is denied: one of the kind "lookup"  *)
(* (the others are refused or served whoever sent them).  op, uid and acl   *)
(* are chosen at the start and never change, so that the constraint drops   *)
(* whole behaviours that are repetitions of others, and no single step.     *)
EXTENDS Requests

Distinct ==
  /\ \A r \in Requests : op[r] # "lookup" => uid[r] = "owner"
  /\ (\A r \in Requests : op[r] # "lookup") => acl = "RootAndOwner"
==============================================================================
