------------------------------- MODULE Requests -------------------------------
(***************************************************************************)
(* The way of a request through fuser: an event loop thread reads it from  *)
(* its /dev/fuse (src/src/session.rs, event_loop; src/src/channel.rs),     *)
(* RequestWithSender parses, refuses or dispatches it (src/src/request.rs),*)
(* and the Reply handed to the Filesystem's callback (src/src/reply.rs) is *)
(* used, dropped, lost in a panic or carried to another thread.            *)
(*                                                                         *)
(* The event loops run after a successful handshake; what happens to the   *)
(* session around them is module Session.                                  *)
(***************************************************************************)
EXTENDS Naturals

CONSTANTS
  Requests,  \* the requests the kernel may send; bounded for TLC
  Workers,   \* the event loop threads
  Traffic,   \* the kinds of request the kernel sends, out of Ops below
  Allowed,   \* the ACLs the session may have, out of ACLs below
  None       \* no request, no device

(* The requests, told apart by what dispatch makes of them:                 *)
(*   short      no whole fuse_in_header, or shorter than header.len         *)
(*   unknown    unknown opcode, or arguments that do not parse              *)
(*   init       FUSE_INIT after the handshake                               *)
(*   destroy    FUSE_DESTROY                                                *)
(*   forget     FORGET, BATCH_FORGET                                        *)
(*   oneway     INTERRUPT, NOTIFY_REPLY: not implemented                    *)
(*   lookup     any operation the filesystem serves, but for                *)
(*   read       READ, READDIR(PLUS), WRITE, FSYNC(DIR), RELEASE(DIR), which *)
(*              the kernel may issue without a uid                          *)
(*   badRead    READ or WRITE with an offset off_t cannot hold              *)
(*   badLookup  an operation of the first kind with arguments fuser rejects:*)
(*              SETXATTR flags, unrestricted IOCTL, FALLOCATE and           *)
(*              COPY_FILE_RANGE offsets; also CUSE_INIT                     *)
Ops == {"short", "unknown", "init", "destroy", "forget", "oneway", "lookup", "read",
        "badRead", "badLookup"}

ExpectsNoAnswer == {"forget", "oneway"}

Callers == {"owner", "root", "other"}          \* the uid in the header
ACLs    == {"All", "RootAndOwner", "Owner"}    \* SessionACL

ASSUME RequestsAssumption ==
  /\ Workers # {}
  /\ None \notin Requests \cup Workers
  /\ Traffic \subseteq Ops /\ Allowed \subseteq ACLs

VARIABLES
  conn,      \* kernel: the connection is "alive" or "dead"
  closed,    \* kernel: the devices (open /dev/fuse descriptions) already closed
  state,     \* kernel: how far each request has come
  source,    \* kernel: the device each request was read from
  op,        \* what each request is
  uid,       \* who made it
  acl,       \* the session's ACL
  device,    \* the device each event loop thread reads
  worker,    \* where each event loop thread is
  current,   \* the request it is handling
  reply,     \* the Reply of each request: "none", "callback", "away", "sent"
  sender,    \* the device its ReplySender writes to
  called,    \* the requests the filesystem was called for
  sends,     \* how many answers were written for each request
  result     \* what the kernel has taken as the answer

sessionVars == <<acl, device>>
requestVars == <<op, uid>>
vars == <<conn, closed, state, source, op, uid, acl, device, worker, current, reply, sender,
          called, sends, result>>

TypeOK ==
  /\ conn \in {"alive", "dead"}
  /\ closed \in SUBSET Workers
  /\ state \in [Requests -> {"unsent", "queued", "read", "taken", "answered", "aborted"}]
  /\ source \in [Requests -> Workers \cup {None}]
  /\ op \in [Requests -> Ops]
  /\ uid \in [Requests -> Callers]
  /\ acl \in ACLs
  /\ device \in [Workers -> Workers]
  /\ worker \in [Workers -> {"recv", "dispatch", "callback", "ended"}]
  /\ current \in [Workers -> Requests \cup {None}]
  /\ reply \in [Requests -> {"none", "callback", "away", "sent"}]
  /\ sender \in [Requests -> Workers \cup {None}]
  /\ called \in SUBSET Requests
  /\ sends \in [Requests -> 0 .. 1]
  /\ result \in [Requests -> {"none", "answer", "refused", "EIO"}]

(* Session::run gives every thread a channel: clones of one device, or with *)
(* Config::clone_fd a device of its own.                                    *)
Shared == [w \in Workers |-> CHOOSE v \in Workers : TRUE]
Cloned == [w \in Workers |-> w]

Init ==
  /\ conn = "alive" /\ closed = {}
  /\ state  = [r \in Requests |-> "unsent"]
  /\ source = [r \in Requests |-> None]
  /\ op \in [Requests -> Traffic] /\ uid \in [Requests -> Callers]
  /\ acl \in Allowed /\ device \in {Shared, Cloned}
  /\ worker  = [w \in Workers |-> "recv"]
  /\ current = [w \in Workers |-> None]
  /\ reply   = [r \in Requests |-> "none"]
  /\ sender  = [r \in Requests |-> None]
  /\ called  = {}
  /\ sends   = [r \in Requests |-> 0]
  /\ result  = [r \in Requests |-> "none"]

-----------------------------------------------------------------------------
(* The kernel.                                                             *)

(* A request is queued for whichever thread reads next. *)
Queue(r) ==
  /\ conn = "alive" /\ state[r] = "unsent"
  /\ state' = [state EXCEPT ![r] = "queued"]
  /\ UNCHANGED <<conn, closed, source, requestVars, sessionVars, worker, current, reply, sender,
                 called, sends, result>>

InFlight == {"queued", "read"}
AbortAll == [q \in Requests |-> IF state[q] \in InFlight THEN "aborted" ELSE state[q]]

(* The connection ends: the callers of all requests in flight get an error. *)
Disconnect ==
  /\ conn = "alive"
  /\ conn' = "dead"
  /\ state' = AbortAll
  /\ UNCHANGED <<closed, source, requestVars, sessionVars, worker, current, reply, sender,
                 called, sends, result>>

\* Mutant of Holds: replies keep no reference to the device.
HoldsNoReply(d) == \E w \in Workers : device[w] = d /\ worker[w] # "ended"

(* Somebody holds the device (Arc<DevFuse>): a thread that reads it, or a   *)
(* Reply not yet sent. The Mount and the notifiers may do so too.           *)
Holds(d) ==
  \/ \E w \in Workers : device[w] = d /\ worker[w] # "ended"
  \/ \E r \in Requests : reply[r] \in {"callback", "away"} /\ sender[r] = d

(* The last reference is gone. The requests read from the device and not    *)
(* answered are aborted, and with the last device the connection.           *)
CloseDevice(d) ==
  /\ \E w \in Workers : device[w] = d
  /\ d \notin closed /\ ~Holds(d)
  /\ closed' = closed \cup {d}
  /\ conn' = IF \E w \in Workers : device[w] \notin closed' THEN conn ELSE "dead"
  /\ state' = IF conn' = "alive"
                THEN [r \in Requests |-> IF state[r] = "read" /\ source[r] = d THEN "aborted"
                                        ELSE state[r]]
                ELSE AbortAll
  /\ UNCHANGED <<source, requestVars, sessionVars, worker, current, reply, sender,
                 called, sends, result>>

-----------------------------------------------------------------------------
(* Answers.                                                                *)

(* ReplyRaw::send_ll_mut with a sender for device d: one writev. The kernel *)
(* takes the answer if the request was read from that device and is still   *)
(* waiting; any error is logged and forgotten. Answering FUSE_DESTROY ends  *)
(* the connection.                                                          *)
Send(r, d, a) ==
  /\ sends' = [sends EXCEPT ![r] = @ + 1]
  /\ IF conn = "alive" /\ state[r] = "read" /\ source[r] = d
       THEN /\ conn' = IF op[r] = "destroy" THEN "dead" ELSE conn
            /\ state' = [q \in Requests |-> IF q = r THEN "answered"
                                            ELSE IF op[r] = "destroy" THEN AbortAll[q]
                                            ELSE state[q]]
            /\ result' = [result EXCEPT ![r] = a]
       ELSE UNCHANGED <<conn, state, result>>

-----------------------------------------------------------------------------
(* The event loop.                                                         *)

(* receive_retrying: the kernel hands out each request once; one-way        *)
(* requests are then no more its concern.                                   *)
Receive(w, r) ==
  /\ conn = "alive" /\ worker[w] = "recv" /\ state[r] = "queued"
  /\ state' = [state EXCEPT ![r] = IF op[r] \in ExpectsNoAnswer THEN "taken" ELSE "read"]
  /\ source' = [source EXCEPT ![r] = device[w]]
  /\ worker' = [worker EXCEPT ![w] = "dispatch"]
  /\ current' = [current EXCEPT ![w] = r]
  /\ UNCHANGED <<conn, closed, requestVars, sessionVars, reply, sender, called, sends, result>>

(* ENODEV or ECONNABORTED. *)
ReceiveDisconnected(w) ==
  /\ conn = "dead" /\ worker[w] = "recv"
  /\ worker' = [worker EXCEPT ![w] = "ended"]
  /\ UNCHANGED <<conn, closed, state, source, requestVars, sessionVars, current, reply, sender,
                 called, sends, result>>

(* Any other error, except those that are retried, ends the loop. *)
ReceiveFails(w) ==
  /\ conn = "alive" /\ worker[w] = "recv"
  /\ worker' = [worker EXCEPT ![w] = "ended"]
  /\ UNCHANGED <<conn, closed, state, source, requestVars, sessionVars, current, reply, sender,
                 called, sends, result>>

(* Thread w is done with the request and goes to its next state. *)
Leave(w, next) ==
  /\ worker' = [worker EXCEPT ![w] = next]
  /\ current' = [current EXCEPT ![w] = None]

(* What w has before it, if it is at the dispatch of r. *)
Dispatching(w, r) == worker[w] = "dispatch" /\ current[w] = r

(* RequestWithSender::new fails: the loop ends with "Invalid request". *)
DispatchInvalid(w, r) ==
  /\ Dispatching(w, r) /\ op[r] = "short"
  /\ Leave(w, "ended")
  /\ UNCHANGED <<conn, closed, state, source, requestVars, sessionVars, reply, sender,
                 called, sends, result>>

\* Mutant of SenderFor: the sender of the session's first channel, not of the thread's own.
SenderForAny(w) == Shared[w]

(* ReplySender for a request thread w has read: self.ch.sender(). *)
SenderFor(w) == device[w]

(* FUSE_DESTROY: an empty answer, and the loop ends. *)
DispatchDestroy(w, r) ==
  /\ Dispatching(w, r) /\ op[r] = "destroy"
  /\ Send(r, SenderFor(w), "answer")
  /\ Leave(w, "ended")
  /\ UNCHANGED <<closed, source, requestVars, sessionVars, reply, sender, called>>

(* The access check of dispatch_req. *)
WithoutUid == {"init", "destroy", "forget", "read", "badRead"}

Denied(r) ==
  /\ op[r] \notin WithoutUid
  /\ \/ acl = "RootAndOwner" /\ uid[r] \notin {"owner", "root"}
     \/ acl = "Owner" /\ uid[r] # "owner"

(* dispatch_req returns an error: ENOSYS for what cannot be parsed, EACCES, *)
(* EIO for an INIT, ENOSYS for what is not implemented, or the error for    *)
(* arguments fuser rejects.                                                 *)
Refused(r) ==
  \/ op[r] = "unknown"
  \/ Denied(r)
  \/ op[r] \in {"init", "oneway", "badRead", "badLookup"}

\* Mutant of DispatchRefused: the error is sent, but the filesystem called all the same.
DispatchRefusedStillCalls(w, r) ==
  /\ Dispatching(w, r) /\ op[r] \notin {"short", "destroy"} /\ Refused(r)
  /\ Send(r, SenderFor(w), "refused")
  /\ Leave(w, "recv")
  /\ called' = called \cup {r}
  /\ UNCHANGED <<closed, source, requestVars, sessionVars, reply, sender>>

DispatchRefused(w, r) ==
  /\ Dispatching(w, r) /\ op[r] \notin {"short", "destroy"} /\ Refused(r)
  /\ Send(r, SenderFor(w), "refused")
  /\ Leave(w, "recv")
  /\ UNCHANGED <<closed, source, requestVars, sessionVars, reply, sender, called>>

(* The filesystem is called, with a Reply that holds the sender of the      *)
(* channel the request came from; forget and batch_forget get no Reply.     *)
DispatchCall(w, r) ==
  /\ Dispatching(w, r) /\ op[r] \in {"forget", "lookup", "read"} /\ ~Refused(r)
  /\ worker' = [worker EXCEPT ![w] = "callback"]
  /\ called' = called \cup {r}
  /\ IF op[r] = "forget"
       THEN UNCHANGED <<reply, sender>>
       ELSE /\ reply' = [reply EXCEPT ![r] = "callback"]
            /\ sender' = [sender EXCEPT ![r] = SenderFor(w)]
  /\ UNCHANGED <<conn, closed, state, source, requestVars, sessionVars, current, sends, result>>

-----------------------------------------------------------------------------
(* The callback, on thread w, and whoever it gives its Reply to.           *)

\* Mutant of UseReply: send_ll_mut leaves the sender in the Reply.
UseReplyKeepsSender(r) ==
  /\ reply[r] \in {"callback", "away"}
  /\ Send(r, sender[r], "answer")
  /\ UNCHANGED <<closed, source, requestVars, sessionVars, worker, current, reply, sender, called>>

(* Reply*::ok, error and the like: consume the Reply. *)
UseReply(r) ==
  /\ reply[r] \in {"callback", "away"}
  /\ Send(r, sender[r], "answer")
  /\ reply' = [reply EXCEPT ![r] = "sent"]
  /\ UNCHANGED <<closed, source, requestVars, sessionVars, worker, current, sender, called>>

\* Mutant of DropReply: an unused Reply is dropped without an answer.
DropReplySilently(r) ==
  /\ reply' = [reply EXCEPT ![r] = "sent"]
  /\ UNCHANGED <<conn, state, sends, result>>

(* Drop for ReplyRaw with the sender still there. *)
DropReply(r) ==
  /\ Send(r, sender[r], "EIO")
  /\ reply' = [reply EXCEPT ![r] = "sent"]

(* The Reply is moved to another thread, or put aside. *)
MoveReply(r) ==
  /\ reply[r] = "callback"
  /\ reply' = [reply EXCEPT ![r] = "away"]
  /\ UNCHANGED <<conn, closed, state, source, requestVars, sessionVars, worker, current, sender,
                 called, sends, result>>

DropAway(r) ==
  /\ reply[r] = "away"
  /\ DropReply(r)
  /\ UNCHANGED <<closed, source, requestVars, sessionVars, worker, current, sender, called>>

\* Mutant of CallbackEnds: the loop goes on only when the Reply was sent.
CallbackAwaitsReply(w, r, next) ==
  /\ worker[w] = "callback" /\ current[w] = r /\ reply[r] = "sent"
  /\ Leave(w, next)
  /\ UNCHANGED <<conn, closed, state, source, requestVars, sessionVars, reply, sender, called,
                 sends, result>>

(* The callback returns or panics; a Reply it still has is dropped with its *)
(* frame.                                                                   *)
CallbackEnds(w, r, next) ==
  /\ worker[w] = "callback" /\ current[w] = r
  /\ IF reply[r] = "callback"
       THEN DropReply(r)
       ELSE UNCHANGED <<conn, state, reply, sends, result>>
  /\ Leave(w, next)
  /\ UNCHANGED <<closed, source, requestVars, sessionVars, sender, called>>

CallbackReturns(w, r) == CallbackEnds(w, r, "recv")
CallbackPanics(w, r)  == CallbackEnds(w, r, "ended")

-----------------------------------------------------------------------------
WorkerStep(w) ==
  \/ ReceiveDisconnected(w) \/ ReceiveFails(w)
  \/ \E r \in Requests :
       \/ Receive(w, r)
       \/ DispatchInvalid(w, r) \/ DispatchDestroy(w, r) \/ DispatchRefused(w, r)
       \/ DispatchCall(w, r)
       \/ CallbackReturns(w, r) \/ CallbackPanics(w, r)

AwayStep(r) == reply[r] = "away" /\ (UseReply(r) \/ DropAway(r))

(* All threads have ended and no Reply is left. *)
Finished ==
  /\ \A w \in Workers : worker[w] = "ended"
  /\ \A r \in Requests : reply[r] \in {"none", "sent"}

Terminated == Finished /\ UNCHANGED vars

Next ==
  \/ Disconnect
  \/ \E d \in Workers : CloseDevice(d)
  \/ \E w \in Workers : WorkerStep(w)
  \/ \E r \in Requests : Queue(r) \/ UseReply(r) \/ MoveReply(r) \/ DropAway(r)
  \/ Terminated

(* Threads keep running, callbacks return, and whoever was given a Reply    *)
(* uses or drops it in the end, as the documentation of Reply demands.      *)
Fairness ==
  /\ \A w \in Workers : WF_vars(WorkerStep(w))
  /\ \A r \in Requests : WF_vars(AwayStep(r))

Spec     == Init /\ [][Next]_vars
FairSpec == Spec /\ Fairness

-----------------------------------------------------------------------------
(* Safety.                                                                 *)

(* As long as the connection lives, a Reply in anybody's hands can still be *)
(* delivered: its request waits at the device the ReplySender writes to,    *)
(* and that device is open, even if the thread that read the request has    *)
(* long ended. With Config::clone_fd the kernel takes an answer only on the *)
(* device it gave the request to.                                           *)
ReplyDeliverable ==
  \A r \in Requests : conn = "alive" /\ reply[r] \in {"callback", "away"} =>
    state[r] = "read" /\ source[r] = sender[r] /\ sender[r] \notin closed

(* No answer is written in vain: while the connection lives, every answer   *)
(* fuser has written was the one its request waited for - except the ENOSYS *)
(* for INTERRUPT and NOTIFY_REPLY, which nobody waits for. In particular a  *)
(* forget is never answered, and no request twice.                          *)
NoAnswerWasted ==
  \A r \in Requests : conn = "alive" /\ sends[r] > 0 /\ op[r] # "oneway" => state[r] = "answered"

(* What the caller of a request has got, as RequestContract sees it. *)
CallerResult ==
  [r \in Requests |->
     IF state[r] = "unsent" THEN "none"
     ELSE IF op[r] \in ExpectsNoAnswer THEN "oneway"
     ELSE IF state[r] \in InFlight THEN "pending"
     ELSE IF state[r] = "aborted" THEN "aborted"
     ELSE result[r]]

Contract == INSTANCE RequestContract WITH result <- CallerResult

(* Dispatch and Reply implement RequestContract: at most one call and one   *)
(* final result per request, whatever callbacks do with their Replys and    *)
(* in whatever order threads, devices and the connection end.               *)
RefinesContract == Contract!CSpec

-----------------------------------------------------------------------------
(* Liveness, under Fairness.                                               *)

(* Whoever waits for a request that fuser has read gets an answer, if the   *)
(* connection lives and the header made sense: a callback that returns or   *)
(* panics without using its Reply has answered with EIO.                    *)
CallersAnswered ==
  \A r \in Requests :
    state[r] = "read" /\ op[r] # "short" ~> state[r] = "answered" \/ conn = "dead"

(* Requests do not stay in the queue while an event loop thread is left,    *)
(* though others panic, fail or meet an invalid request.                    *)
QueueServed ==
  \A r \in Requests :
    state[r] = "queued" ~> state[r] # "queued" \/ \A w \in Workers : worker[w] = "ended"
==============================================================================
