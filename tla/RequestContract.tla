--------------------------- MODULE RequestContract ---------------------------
(***************************************************************************)
(* What the kernel and the Filesystem may rely on for every request        *)
(* (src/src/request.rs, src/src/reply.rs): the filesystem is called at     *)
(* most once for it and never after its caller has a result; the caller    *)
(* gets one result, and it is final; the filesystem's own answer comes     *)
(* from a call and a refusal without one; a one-way request gets nothing.  *)
(* While the connection lives, a caller goes without a result only if the  *)
(* request was given up before the filesystem was called for it.           *)
(***************************************************************************)

CONSTANT Requests        \* the requests of one connection

VARIABLES conn,          \* the connection is "alive" or "dead"
          called,        \* the requests the filesystem was called for
          result         \* what the caller of each request has got

contractVars == <<conn, called, result>>

Results == {"none", "pending", "oneway", "answer", "refused", "EIO", "aborted"}

Aborted(lost) == [r \in Requests |-> IF r \in lost THEN "aborted" ELSE result[r]]
Pending       == {r \in Requests : result[r] = "pending"}

CInit ==
  /\ conn = "alive"
  /\ called = {}
  /\ result = [r \in Requests |-> "none"]

Ask(r) ==
  /\ conn = "alive" /\ result[r] = "none"
  /\ \E how \in {"pending", "oneway"} : result' = [result EXCEPT ![r] = how]
  /\ UNCHANGED <<conn, called>>

(* The call may come when the caller is gone with the connection. *)
Call(r) ==
  /\ r \notin called
  /\ \/ result[r] \in {"pending", "oneway"}
     \/ result[r] = "aborted" /\ conn = "dead"
  /\ called' = called \cup {r}
  /\ UNCHANGED <<conn, result>>

(* EIO stands in for an answer the filesystem never gave. *)
Answer(r) ==
  /\ conn = "alive" /\ result[r] = "pending"
  /\ \E a \in {IF r \in called THEN "answer" ELSE "refused", "EIO"} :
       result' = [result EXCEPT ![r] = a]
  /\ UNCHANGED <<conn, called>>

(* A request nobody could make sense of is given up with its device. *)
GiveUp(lost) ==
  /\ lost \subseteq Pending \ called
  /\ result' = Aborted(lost)
  /\ UNCHANGED <<conn, called>>

Disconnect ==
  /\ conn' = "dead"
  /\ result' = Aborted(Pending)
  /\ UNCHANGED called

(* The answer to FUSE_DESTROY, which never reaches the filesystem as a      *)
(* request, ends the connection.                                            *)
Finish(r) ==
  /\ conn = "alive" /\ r \in Pending \ called
  /\ conn' = "dead"
  /\ result' = [Aborted(Pending) EXCEPT ![r] = "answer"]
  /\ UNCHANGED called

CNext ==
  \/ \E r \in Requests : Ask(r) \/ Call(r) \/ Answer(r) \/ Finish(r)
  \/ \E lost \in SUBSET Requests : GiveUp(lost)
  \/ Disconnect

CSpec == CInit /\ [][CNext]_contractVars
==============================================================================
