------------------------------- MODULE PollFS -------------------------------
(***************************************************************************)
(* poll(2) through PollNotifier: examples/poll.rs, whose producer thread   *)
(* adds bytes to files and wakes who polls them with Notifier::poll, and   *)
(* the kernel's side of it: a caller that finds nothing sleeps until its   *)
(* file's handle is notified.  FSelData is behind a mutex; a poll is       *)
(* answered after the mutex is released, so a notification may overtake    *)
(* the answer.                                                             *)
(***************************************************************************)
EXTENDS Integers, Sequences

CONSTANTS NumFiles,  \* NUMFILES
          MaxBytes,  \* MAXBYTES
          Clients,   \* processes that open, poll and read the files
          MaxOpens   \* bound: files the kernel opens

ASSUME PollAssumption ==
    NumFiles \in Nat \ {0} /\ MaxBytes \in Nat \ {0} /\ MaxOpens \in Nat

VARIABLES bytecnt, open_mask, poll_handles,  \* FSelData; a handle 0 is None
          idx, nr,                           \* the producer's locals
          khctr,                             \* kernel: handles given out
          client                             \* client -> [at, file, kh, ready, woken]

pollVars == <<bytecnt, open_mask, poll_handles, idx, nr, khctr, client>>

Files == 0 .. NumFiles - 1
Closed == [at |-> "closed", file |-> 0, kh |-> 0, ready |-> FALSE, woken |-> FALSE]

PollInit ==
    /\ bytecnt = [f \in Files |-> 0] /\ open_mask = {} /\ poll_handles = [f \in Files |-> 0]
    /\ idx = 0 /\ nr = 1 /\ khctr = 0
    /\ client = [c \in Clients |-> Closed]

---------------------------------------------------------------------------
(* The filesystem                                                          *)

(* open: a file is open once at a time; otherwise EBUSY.                   *)
OpenFile(c, f) ==
    /\ client[c] = Closed /\ f \notin open_mask /\ khctr < MaxOpens
    /\ open_mask' = open_mask \cup {f}
    /\ khctr' = khctr + 1
    /\ client' = [client EXCEPT ![c] = [Closed EXCEPT !.at = "open", !.file = f, !.kh = khctr']]
    /\ UNCHANGED <<bytecnt, poll_handles, idx, nr>>

(* release; a handle that was left for the producer stays.                 *)
ReleaseFile(c) ==
    /\ client[c].at = "open"
    /\ open_mask' = open_mask \ {client[c].file}
    /\ client' = [client EXCEPT ![c] = Closed]
    /\ UNCHANGED <<bytecnt, poll_handles, idx, nr, khctr>>

ReadFile(c, size) ==
    /\ client[c].at = "open"
    /\ LET f == client[c].file
       IN  bytecnt' = [bytecnt EXCEPT ![f] = @ - (IF size < @ THEN size ELSE @)]
    /\ UNCHANGED <<open_mask, poll_handles, idx, nr, khctr, client>>

\* Mutant of Poll: a handle that is there already is left there.
PollKeepsHandle(c) ==
    /\ client[c].at = "polling"
    /\ LET f == client[c].file
       IN  /\ poll_handles' = [poll_handles EXCEPT ![f] = IF @ = 0 THEN client[c].kh ELSE @]
           /\ client' = [client EXCEPT ![c].at = "answered", ![c].ready = bytecnt[f] # 0]
    /\ UNCHANGED <<bytecnt, open_mask, idx, nr, khctr>>

(* poll, under the mutex.  A caller that means to wait asks for a          *)
(* notification (FUSE_POLL_SCHEDULE_NOTIFY); a poll without it only reads  *)
(* the count and changes nothing here.                                     *)
Poll(c) ==
    /\ client[c].at = "polling"
    /\ LET f == client[c].file
       IN  /\ poll_handles' = [poll_handles EXCEPT ![f] = client[c].kh]
           /\ client' = [client EXCEPT ![c].at = "answered", ![c].ready = bytecnt[f] # 0]
    /\ UNCHANGED <<bytecnt, open_mask, idx, nr, khctr>>

(* One round of the producer.  What it has done after k of nr turns: the   *)
(* counts, the handles left, those notified and the file it is at.  A file *)
(* that was filled without anyone to notify keeps the next turn too.       *)
Turn(done) ==
    LET t == done.t
        next == (t + NumFiles \div nr) % NumFiles
    IN  IF done.cnt[t] = MaxBytes THEN [done EXCEPT !.t = next]
        ELSE IF done.handles[t] = 0 THEN [done EXCEPT !.cnt[t] = @ + 1]
        ELSE [done EXCEPT !.cnt[t] = @ + 1, !.handles[t] = 0, !.t = next,
                          !.notified = @ \cup {done.handles[t]}]
Producer ==
    LET after[k \in 0 .. nr] ==
            IF k = 0
            THEN {[cnt |-> bytecnt, handles |-> poll_handles, notified |-> {}, t |-> idx]}
            ELSE {Turn(done) : done \in after[k - 1]}
    IN \E done \in after[nr] :
        /\ bytecnt' = done.cnt /\ poll_handles' = done.handles
        /\ client' = [c \in Clients |->
               IF client[c].kh \in done.notified /\ client[c].at \in {"polling", "answered", "asleep"}
               THEN [client[c] EXCEPT !.woken = TRUE] ELSE client[c]]
        /\ idx' = (idx + 1) % NumFiles
        /\ nr' = IF idx' = 0 THEN (nr * 2) % 7 ELSE nr
        /\ UNCHANGED <<open_mask, khctr>>

---------------------------------------------------------------------------
(* The kernel                                                              *)

CallPoll(c) ==
    /\ client[c].at = "open"
    /\ client' = [client EXCEPT ![c].at = "polling", ![c].woken = FALSE]
    /\ UNCHANGED <<bytecnt, open_mask, poll_handles, idx, nr, khctr>>

(* The answer arrives: the call returns, or sleeps unless it was woken     *)
(* since.                                                                  *)
PollAnswered(c) ==
    /\ client[c].at = "answered"
    /\ client' = [client EXCEPT ![c].at = IF client[c].ready THEN "open" ELSE "asleep",
                                ![c].ready = FALSE]
    /\ UNCHANGED <<bytecnt, open_mask, poll_handles, idx, nr, khctr>>

(* A caller that was woken asks again.                                     *)
Wake(c) ==
    /\ client[c].at = "asleep" /\ client[c].woken
    /\ client' = [client EXCEPT ![c].at = "polling", ![c].woken = FALSE]
    /\ UNCHANGED <<bytecnt, open_mask, poll_handles, idx, nr, khctr>>

Serve(c) == Poll(c) \/ PollAnswered(c) \/ Wake(c)
PollNext ==
    \/ Producer
    \/ \E c \in Clients :
          \/ Serve(c) \/ CallPoll(c) \/ ReleaseFile(c)
          \/ \E f \in Files : OpenFile(c, f)
          \/ \E size \in 1 .. MaxBytes : ReadFile(c, size)

(* Who polls is told: poll(2) on a file returns in the end, although the   *)
(* notification may come before the answer, the handle of an earlier open  *)
(* may still be there, and the producer notifies a handle once.            *)
PollReturns == \A c \in Clients : client[c].at = "polling" ~> client[c].at = "open"

=============================================================================
