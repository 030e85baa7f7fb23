---------------------------- MODULE RequestsProofs ----------------------------
(***************************************************************************)
(* Proofs about module Requests, for any number of requests and event loop *)
(* threads, any traffic and any ACL.                                       *)
(***************************************************************************)
EXTENDS Requests, TLAPS

Held(r) == reply[r] \in {"callback", "away"}

(* A thread: its current request while it dispatches it; a closed device    *)
(* has no reader left.                                                      *)
WorkerInv(w) ==
  /\ worker[w] \in {"dispatch", "callback"} <=> current[w] # None
  /\ device[w] \in closed => worker[w] = "ended"
  /\ worker[w] = "dispatch" =>
       /\ source[current[w]] = device[w]
       /\ reply[current[w]] = "none"
       /\ sends[current[w]] = 0
       /\ current[w] \notin called
       /\ state[current[w]] \in {"read", "taken", "aborted"}
       /\ conn = "alive" => state[current[w]] # "aborted"

(* No two threads handle the same request. *)
Exclusive == \A w, v \in Workers : w # v /\ current[w] = current[v] => current[w] = None

(* A request: nothing happens before it is read; while its Reply is held it *)
(* is waited for on the device of the Reply; answers are never written in   *)
(* vain.                                                                    *)
Untouched(r) ==
  /\ sends[r] = 0 /\ reply[r] = "none" /\ r \notin called
  /\ \A w \in Workers : current[w] # r

HeldInv(r) ==
  /\ sends[r] = 0 /\ r \in called /\ op[r] \in {"lookup", "read"}
  /\ source[r] = sender[r] /\ sender[r] \in Workers /\ sender[r] \notin closed
  /\ conn = "alive" => state[r] = "read"

RequestInv(r) ==
  /\ state[r] \in {"unsent", "queued"} => Untouched(r)
  /\ state[r] \in InFlight => conn = "alive"
  /\ state[r] \in {"read", "answered"} => op[r] \notin ExpectsNoAnswer
  /\ state[r] = "taken" => op[r] \in ExpectsNoAnswer
  /\ state[r] = "read" /\ r \in called => Held(r)
  /\ Held(r) => HeldInv(r)
  /\ conn = "alive" /\ sends[r] > 0 /\ op[r] # "oneway" => state[r] = "answered"

RInv ==
  /\ TypeOK
  /\ \A w \in Workers : WorkerInv(w)
  /\ Exclusive
  /\ \A r \in Requests : RequestInv(r)

USE RequestsAssumption
    DEF Ops, Callers, ACLs, ExpectsNoAnswer, InFlight, sessionVars, requestVars

-----------------------------------------------------------------------------
(* Init establishes RInv. *)
LEMMA InitRInv == Init => RInv
  <1> SUFFICES ASSUME Init PROVE RInv
    OBVIOUS
  <1>1. Shared \in [Workers -> Workers] /\ Cloned \in [Workers -> Workers]
    BY DEF Shared, Cloned
  <1>2. op \in [Requests -> Ops] /\ acl \in ACLs /\ device \in [Workers -> Workers]
    BY <1>1 DEF Init
  <1>3. TypeOK
    BY <1>2 DEF Init, TypeOK
  <1> QED
    BY <1>3 DEF Init, RInv, WorkerInv, Exclusive, RequestInv, Untouched, Held

(* The kernel's steps preserve RInv. *)
LEMMA QueueRInv == ASSUME RInv, NEW q \in Requests, Queue(q) PROVE RInv'
  BY DEF RInv, Queue, TypeOK, WorkerInv, Exclusive, RequestInv, Untouched, Held, HeldInv

LEMMA DisconnectRInv == RInv /\ Disconnect => RInv'
  BY DEF RInv, Disconnect, AbortAll, TypeOK, WorkerInv, Exclusive, RequestInv, Untouched, Held,
         HeldInv

LEMMA CloseRInv == ASSUME RInv, NEW d \in Workers, CloseDevice(d) PROVE RInv'
  <1>1. TypeOK'
    BY DEF RInv, TypeOK, CloseDevice, AbortAll
  <1>2. \A w \in Workers : WorkerInv(w)'
    BY DEF RInv, TypeOK, CloseDevice, Holds, AbortAll, WorkerInv
  <1>3. Exclusive'
    BY DEF RInv, Exclusive, CloseDevice
  <1>4. \A r \in Requests : RequestInv(r)'
    BY DEF RInv, TypeOK, CloseDevice, Holds, AbortAll, RequestInv, Untouched, Held, HeldInv
  <1> QED
    BY <1>1, <1>2, <1>3, <1>4 DEF RInv

(* The steps of an event loop thread preserve RInv. *)
LEMMA ReceiveRInv ==
  ASSUME RInv, NEW v \in Workers,
         ReceiveDisconnected(v) \/ ReceiveFails(v) \/ \E q \in Requests : Receive(v, q)
  PROVE  RInv'
  <1>1. CASE ReceiveDisconnected(v) \/ ReceiveFails(v)
    BY <1>1 DEF RInv, ReceiveDisconnected, ReceiveFails, TypeOK, WorkerInv, Exclusive, RequestInv,
                Untouched, Held, HeldInv
  <1>2. ASSUME NEW q \in Requests, Receive(v, q) PROVE RInv'
    <2>1. TypeOK'
      BY <1>2 DEF RInv, TypeOK, Receive
    <2>2. \A w \in Workers : WorkerInv(w)'
      BY <1>2 DEF RInv, TypeOK, Receive, WorkerInv, RequestInv, Untouched
    <2>3. Exclusive'
      BY <1>2 DEF RInv, TypeOK, Receive, Exclusive, RequestInv, Untouched
    <2>4. \A r \in Requests : RequestInv(r)'
      BY <1>2 DEF RInv, TypeOK, Receive, RequestInv, Untouched, Held, HeldInv
    <2> QED
      BY <2>1, <2>2, <2>3, <2>4 DEF RInv
  <1> QED
    BY <1>1, <1>2

LEMMA DispatchRInv ==
  ASSUME RInv, NEW v \in Workers, NEW q \in Requests,
         DispatchInvalid(v, q) \/ DispatchDestroy(v, q) \/ DispatchRefused(v, q)
           \/ DispatchCall(v, q)
  PROVE  RInv'
  <1>1. CASE DispatchInvalid(v, q)
    BY <1>1 DEF RInv, DispatchInvalid, Dispatching, Leave, TypeOK, WorkerInv, Exclusive,
                RequestInv, Untouched, Held, HeldInv
  <1>2. CASE DispatchDestroy(v, q)
    <2>1. TypeOK'
      BY <1>2 DEF RInv, TypeOK, DispatchDestroy, Dispatching, SenderFor, Send, Leave, AbortAll,
                  WorkerInv
    <2>2. \A w \in Workers : WorkerInv(w)'
      BY <1>2 DEF RInv, TypeOK, DispatchDestroy, Dispatching, SenderFor, Send, Leave, AbortAll,
                  WorkerInv, Exclusive
    <2>3. Exclusive'
      BY <1>2 DEF RInv, TypeOK, DispatchDestroy, Leave, Exclusive
    <2>4. \A r \in Requests : RequestInv(r)'
      BY <1>2 DEF RInv, TypeOK, DispatchDestroy, Dispatching, SenderFor, Send, Leave, AbortAll,
                  WorkerInv, RequestInv, Untouched, Held, HeldInv
    <2> QED
      BY <2>1, <2>2, <2>3, <2>4 DEF RInv
  <1>3. CASE DispatchRefused(v, q)
    <2>1. TypeOK'
      BY <1>3 DEF RInv, TypeOK, DispatchRefused, Dispatching, SenderFor, Send, Leave, WorkerInv
    <2>2. \A w \in Workers : WorkerInv(w)'
      BY <1>3 DEF RInv, TypeOK, DispatchRefused, Dispatching, SenderFor, Send, Leave,
                  WorkerInv, Exclusive
    <2>3. Exclusive'
      BY <1>3 DEF RInv, TypeOK, DispatchRefused, Leave, Exclusive
    <2>4. \A r \in Requests : RequestInv(r)'
      BY <1>3 DEF RInv, TypeOK, DispatchRefused, Dispatching, SenderFor, Send, Leave, Refused,
                  Denied, WithoutUid, WorkerInv, RequestInv, Untouched, Held, HeldInv
    <2> QED
      BY <2>1, <2>2, <2>3, <2>4 DEF RInv
  <1>4. CASE DispatchCall(v, q)
    <2>1. TypeOK'
      BY <1>4 DEF RInv, TypeOK, DispatchCall, SenderFor
    <2>2. \A w \in Workers : WorkerInv(w)'
      BY <1>4 DEF RInv, TypeOK, DispatchCall, Dispatching, WorkerInv, Exclusive
    <2>3. Exclusive'
      BY <1>4 DEF RInv, DispatchCall, Exclusive
    <2>4. \A r \in Requests : RequestInv(r)'
      BY <1>4 DEF RInv, TypeOK, DispatchCall, Dispatching, SenderFor, WorkerInv, RequestInv,
                  Untouched, Held, HeldInv
    <2> QED
      BY <2>1, <2>2, <2>3, <2>4 DEF RInv
  <1> QED
    BY <1>1, <1>2, <1>3, <1>4

(* What happens to a Reply preserves RInv. *)
LEMMA ReplyRInv ==
  ASSUME RInv, NEW q \in Requests, UseReply(q) \/ DropAway(q) PROVE RInv'
  <1>1. TypeOK'
    BY DEF RInv, TypeOK, UseReply, DropAway, DropReply, Send, RequestInv, Held, HeldInv
  <1>2. \A w \in Workers : WorkerInv(w)'
    BY DEF RInv, TypeOK, UseReply, DropAway, DropReply, Send, WorkerInv, RequestInv, Held, HeldInv
  <1>3. Exclusive'
    BY DEF RInv, UseReply, DropAway, Exclusive
  <1>4. \A r \in Requests : RequestInv(r)'
    BY DEF RInv, TypeOK, UseReply, DropAway, DropReply, Send, RequestInv, Untouched, Held, HeldInv
  <1> QED
    BY <1>1, <1>2, <1>3, <1>4 DEF RInv

LEMMA MoveReplyRInv == ASSUME RInv, NEW q \in Requests, MoveReply(q) PROVE RInv'
  BY DEF RInv, MoveReply, TypeOK, WorkerInv, Exclusive, RequestInv, Untouched, Held, HeldInv

LEMMA CallbackRInv ==
  ASSUME RInv, NEW v \in Workers, NEW q \in Requests, NEW next \in {"recv", "ended"},
         CallbackEnds(v, q, next)
  PROVE  RInv'
  <1>1. TypeOK'
    BY DEF RInv, TypeOK, CallbackEnds, DropReply, Send, Leave, RequestInv, Held, HeldInv
  <1>2. \A w \in Workers : WorkerInv(w)'
    BY DEF RInv, TypeOK, CallbackEnds, DropReply, Send, Leave, WorkerInv, Exclusive, RequestInv,
           Held, HeldInv
  <1>3. Exclusive'
    BY DEF RInv, TypeOK, CallbackEnds, Leave, Exclusive
  <1>4. \A r \in Requests : RequestInv(r)'
    BY DEF RInv, TypeOK, CallbackEnds, DropReply, Send, Leave, RequestInv, Untouched, Held, HeldInv
  <1> QED
    BY <1>1, <1>2, <1>3, <1>4 DEF RInv

(* RInv is an invariant of the specification. *)
THEOREM RequestsInvariance == Spec => []RInv
  <1>1. RInv /\ [Next]_vars => RInv'
    <2> SUFFICES ASSUME RInv, [Next]_vars PROVE RInv'
      OBVIOUS
    <2>1. CASE UNCHANGED vars
      BY <2>1 DEF vars, RInv, TypeOK, WorkerInv, Exclusive, RequestInv, Untouched, Held, HeldInv
    <2>2. ASSUME NEW w \in Workers, WorkerStep(w) PROVE RInv'
      BY <2>2, ReceiveRInv, DispatchRInv, CallbackRInv
         DEF WorkerStep, CallbackReturns, CallbackPanics
    <2> QED
      BY <2>1, <2>2, DisconnectRInv, CloseRInv, QueueRInv, ReplyRInv, MoveReplyRInv
         DEF Next, Terminated
  <1> QED
    BY InitRInv, <1>1, PTL DEF Spec

(* The variables keep their types; in particular no more than one answer is *)
(* ever written for a request, used, dropped or moved as its Reply may be.  *)
THEOREM RequestsTypeCorrect == Spec => []TypeOK
  BY RequestsInvariance, PTL DEF RInv

(* A Reply in anybody's hands can be delivered while the connection lives:  *)
(* a ReplySender writes to the device its request was read from, and keeps  *)
(* that device open.                                                        *)
THEOREM ReplyDelivery == Spec => []ReplyDeliverable
  <1>1. RInv => ReplyDeliverable
    BY DEF RInv, ReplyDeliverable, RequestInv, Held, HeldInv
  <1> QED
    BY RequestsInvariance, <1>1, PTL

(* While the connection lives, every answer fuser has written, refusals     *)
(* included, was the answer somebody waited for.                            *)
THEOREM AnswersCount == Spec => []NoAnswerWasted
  <1>1. RInv => NoAnswerWasted
    BY DEF RInv, NoAnswerWasted, RequestInv
  <1> QED
    BY RequestsInvariance, <1>1, PTL

-----------------------------------------------------------------------------
(* The steps of the specification are steps of RequestContract.            *)

CStep == Contract!CNext \/ UNCHANGED Contract!contractVars

(* A step that changes no caller's result and calls nobody is a stutter. *)
LEMMA ContractStutter ==
  UNCHANGED <<conn, state, op, called, result>> => CStep
  BY DEF CStep, Contract!contractVars, CallerResult

(* Only the state, and with it the result, of request q changes. *)
LEMMA ResultOf ==
  ASSUME TypeOK, TypeOK', NEW q \in Requests, UNCHANGED op,
         \A r \in Requests \ {q} : state'[r] = state[r] /\ result'[r] = result[r]
  PROVE  CallerResult' = [CallerResult EXCEPT ![q] = CallerResult'[q]]
  BY DEF CallerResult, TypeOK

(* A connection that ends aborts what is pending, and nothing else. *)
LEMMA ResultsAborted ==
  ASSUME RInv, UNCHANGED <<op, result>>, state' = AbortAll
  PROVE  CallerResult' = Contract!Aborted(Contract!Pending)
  BY DEF RInv, TypeOK, CallerResult, AbortAll, Contract!Aborted, Contract!Pending

(* An answer written through the right device is an Answer of the contract, *)
(* one nobody waits for changes nothing.                                    *)
LEMMA SendIsAnswer ==
  ASSUME RInv, RInv', NEW q \in Requests, NEW d, NEW a \in {"answer", "refused", "EIO"},
         Send(q, d, a), op[q] # "destroy", UNCHANGED <<op, called>>,
         q \in called <=> a # "refused"
  PROVE  CStep
  <1>1. CASE conn = "alive" /\ state[q] = "read" /\ source[q] = d
    <2>1. CallerResult[q] = "pending" /\ CallerResult'[q] = a
      BY <1>1 DEF Send, RInv, TypeOK, RequestInv, CallerResult
    <2>2. CallerResult' = [CallerResult EXCEPT ![q] = a]
      BY <1>1, <2>1, ResultOf DEF Send, RInv, TypeOK
    <2>3. Contract!Answer(q)
      BY <1>1, <2>1, <2>2 DEF Send, Contract!Answer
    <2> QED
      BY <2>3 DEF CStep, Contract!CNext
  <1>2. CASE ~(conn = "alive" /\ state[q] = "read" /\ source[q] = d)
    BY <1>2, ContractStutter DEF Send
  <1> QED
    BY <1>1, <1>2

(* Requests implements RequestContract. *)
THEOREM ContractRefined == Spec => RefinesContract
  <1>1. Init => Contract!CInit
    BY DEF Init, Contract!CInit, CallerResult
  <1>2. RInv /\ RInv' /\ [Next]_vars => [Contract!CNext]_(Contract!contractVars)
    <2> SUFFICES ASSUME RInv, RInv', [Next]_vars PROVE CStep
      BY DEF CStep
    <2>1. CASE UNCHANGED vars
      BY <2>1, ContractStutter DEF vars
    <2>2. CASE Disconnect
      <3>1. CallerResult' = Contract!Aborted(Contract!Pending)
        BY <2>2, ResultsAborted DEF Disconnect
      <3> QED
        BY <2>2, <3>1 DEF Disconnect, CStep, Contract!CNext, Contract!Disconnect
    <2>3. ASSUME NEW d \in Workers, CloseDevice(d) PROVE CStep
      <3>1. CASE conn' = "dead"
        <4>1. CallerResult' = Contract!Aborted(Contract!Pending)
          BY <2>3, <3>1, ResultsAborted DEF CloseDevice
        <4> QED
          BY <2>3, <3>1, <4>1 DEF CloseDevice, CStep, Contract!CNext, Contract!Disconnect
      <3>2. CASE conn' # "dead"
        <4> DEFINE lost == {r \in Requests : state[r] = "read" /\ source[r] = d}
        <4>1. conn' = conn /\ conn = "alive"
          BY <2>3, <3>2 DEF CloseDevice, RInv, TypeOK
        <4>2. lost \subseteq Contract!Pending \ called
          BY <2>3 DEF CloseDevice, Holds, RInv, RequestInv, Held, HeldInv, CallerResult,
                      Contract!Pending
        <4>3. CallerResult' = Contract!Aborted(lost)
          BY <2>3, <4>1, <4>2 DEF CloseDevice, RInv, TypeOK, CallerResult, Contract!Aborted,
                                  Contract!Pending
        <4>4. Contract!GiveUp(lost)
          BY <2>3, <4>1, <4>2, <4>3 DEF CloseDevice, Contract!GiveUp
        <4>5. lost \in SUBSET Requests
          OBVIOUS
        <4> QED
          BY <4>4, <4>5 DEF CStep, Contract!CNext
      <3> QED
        BY <3>1, <3>2
    <2>4. ASSUME NEW w \in Workers, ReceiveDisconnected(w) \/ ReceiveFails(w) PROVE CStep
      BY <2>4, ContractStutter DEF ReceiveDisconnected, ReceiveFails
    <2>5. ASSUME NEW w \in Workers, NEW q \in Requests, Receive(w, q) PROVE CStep
      <3>1. CallerResult' = CallerResult
        BY <2>5 DEF Receive, RInv, TypeOK, CallerResult
      <3> QED
        BY <2>5, <3>1 DEF Receive, CStep, Contract!contractVars
    <2>6. ASSUME NEW w \in Workers, NEW q \in Requests, DispatchInvalid(w, q) PROVE CStep
      BY <2>6, ContractStutter DEF DispatchInvalid
    <2>7. ASSUME NEW w \in Workers, NEW q \in Requests, DispatchDestroy(w, q) PROVE CStep
      <3>1. q \notin called
        BY <2>7 DEF DispatchDestroy, Dispatching, RInv, WorkerInv
      <3>2. CASE conn = "alive" /\ state[q] = "read" /\ source[q] = device[w]
        <4>1. q \in Contract!Pending
          BY <2>7, <3>2 DEF DispatchDestroy, RInv, RequestInv, CallerResult, Contract!Pending
        <4>2. CallerResult' = [Contract!Aborted(Contract!Pending) EXCEPT ![q] = "answer"]
          <5>1. /\ result' = [result EXCEPT ![q] = "answer"] /\ op' = op
                /\ state' = [r \in Requests |-> IF r = q THEN "answered" ELSE AbortAll[r]]
            BY <2>7, <3>2 DEF DispatchDestroy, Send, SenderFor, requestVars
          <5>2. CallerResult'[q] = "answer"
            BY <2>7, <5>1 DEF DispatchDestroy, RInv, TypeOK, CallerResult
          <5>3. \A r \in Requests \ {q} :
                  CallerResult'[r] = IF r \in Contract!Pending THEN "aborted" ELSE CallerResult[r]
            BY <5>1 DEF AbortAll, RInv, TypeOK, CallerResult, Contract!Pending
          <5> QED
            BY <5>2, <5>3 DEF CallerResult, Contract!Aborted
        <4>3. Contract!Finish(q)
          BY <2>7, <3>1, <3>2, <4>1, <4>2
             DEF DispatchDestroy, Send, SenderFor, Contract!Finish
        <4> QED
          BY <4>3 DEF CStep, Contract!CNext
      <3>3. CASE ~(conn = "alive" /\ state[q] = "read" /\ source[q] = device[w])
        BY <2>7, <3>3, ContractStutter DEF DispatchDestroy, Send, SenderFor
      <3> QED
        BY <3>2, <3>3
    <2>8. ASSUME NEW w \in Workers, NEW q \in Requests, DispatchRefused(w, q) PROVE CStep
      <3>1. q \notin called
        BY <2>8 DEF DispatchRefused, Dispatching, RInv, WorkerInv
      <3> QED
        BY <2>8, <3>1, SendIsAnswer DEF DispatchRefused
    <2>9. ASSUME NEW w \in Workers, NEW q \in Requests, DispatchCall(w, q) PROVE CStep
      <3>1. CallerResult' = CallerResult
        BY <2>9 DEF DispatchCall, CallerResult
      <3>2. q \notin called
        BY <2>9 DEF DispatchCall, Dispatching, RInv, WorkerInv
      <3>3. \/ CallerResult[q] \in {"pending", "oneway"}
            \/ CallerResult[q] = "aborted" /\ conn = "dead"
        <4>1. /\ state[q] \in {"read", "taken", "aborted"}
              /\ conn = "alive" => state[q] # "aborted"
              /\ state[q] = "taken" => op[q] \in ExpectsNoAnswer
          BY <2>9 DEF DispatchCall, Dispatching, RInv, WorkerInv, RequestInv
        <4> QED
          BY <4>1 DEF RInv, TypeOK, CallerResult
      <3>4. Contract!Call(q)
        BY <2>9, <3>1, <3>2, <3>3 DEF DispatchCall, Contract!Call
      <3> QED
        BY <3>4 DEF CStep, Contract!CNext
    <2>10. ASSUME NEW q \in Requests, UseReply(q) \/ DropAway(q) PROVE CStep
      <3>1. q \in called /\ op[q] # "destroy"
        BY <2>10 DEF UseReply, DropAway, RInv, RequestInv, Held, HeldInv
      <3> QED
        BY <2>10, <3>1, SendIsAnswer DEF UseReply, DropAway, DropReply
    <2>11. ASSUME NEW w \in Workers, NEW q \in Requests, NEW next, CallbackEnds(w, q, next)
           PROVE  CStep
      <3>1. CASE reply[q] = "callback"
        <4>1. q \in called /\ op[q] # "destroy"
          BY <3>1 DEF RInv, RequestInv, Held, HeldInv
        <4> QED
          BY <2>11, <3>1, <4>1, SendIsAnswer DEF CallbackEnds, DropReply
      <3>2. CASE reply[q] # "callback"
        BY <2>11, <3>2, ContractStutter DEF CallbackEnds
      <3> QED
        BY <3>1, <3>2
    <2>12. ASSUME NEW q \in Requests, Queue(q) PROVE CStep
      <3>1. CallerResult[q] = "none" /\ CallerResult'[q] \in {"pending", "oneway"}
        BY <2>12 DEF Queue, RInv, TypeOK, CallerResult
      <3>2. CallerResult' = [CallerResult EXCEPT ![q] = CallerResult'[q]]
        BY <2>12, ResultOf DEF Queue, RInv, TypeOK
      <3>3. Contract!Ask(q)
        BY <2>12, <3>1, <3>2 DEF Queue, Contract!Ask
      <3> QED
        BY <3>3 DEF CStep, Contract!CNext
    <2>13. ASSUME NEW q \in Requests, MoveReply(q) PROVE CStep
      BY <2>13, ContractStutter DEF MoveReply
    <2> QED
      BY <2>1, <2>2, <2>3, <2>4, <2>5, <2>6, <2>7, <2>8, <2>9, <2>10, <2>11, <2>12, <2>13
         DEF Next, WorkerStep, CallbackReturns, CallbackPanics, Terminated
  <1> QED
    BY RequestsInvariance, <1>1, <1>2, PTL DEF Spec, RefinesContract, Contract!CSpec
==============================================================================
