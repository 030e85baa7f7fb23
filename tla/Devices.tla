------------------------------ MODULE Devices ------------------------------
(***************************************************************************)
(* What a process does with the device beside answering requests, in the   *)
(* examples that do it: a process serves the file of poll.rs, of           *)
(* notify_inval_inode.rs or of passthrough.rs.                             *)
(***************************************************************************)
EXTENDS Passthrough, PollFS, Notify

VARIABLE serves  \* the example this process runs

vars == <<serves, backingVars, pollVars, notifyVars>>

Init ==
    /\ serves \in {"poll", "notify_inval_inode", "passthrough"}
    /\ BackingInit /\ PollInit /\ NotifyInit
    /\ serves # "passthrough" => ~clone_fd
    /\ serves # "notify_inval_inode" => notification = "none" /\ abi = OurMinor /\ expire_only

RunsPoll == serves = "poll" /\ PollNext /\ UNCHANGED <<serves, backingVars, notifyVars>>
RunsClock == serves = "notify_inval_inode" /\ NotifyNext /\ UNCHANGED <<serves, backingVars, pollVars>>
RunsPassthrough == serves = "passthrough" /\ BackingNext /\ UNCHANGED <<serves, pollVars, notifyVars>>

Next == RunsPoll \/ RunsClock \/ RunsPassthrough

(* The producer and the main thread loop for ever, the event loops go on   *)
(* serving, and the kernel goes on with a call that is answered or woken.  *)
Fairness ==
    /\ WF_vars(serves = "poll" /\ Producer /\ UNCHANGED <<serves, backingVars, notifyVars>>)
    /\ \A c \in Clients :
          WF_vars(serves = "poll" /\ Serve(c) /\ UNCHANGED <<serves, backingVars, notifyVars>>)
    /\ WF_vars(serves = "notify_inval_inode" /\ Main /\ UNCHANGED <<serves, backingVars, pollVars>>)

Spec == Init /\ [][Next]_vars /\ Fairness

=============================================================================
