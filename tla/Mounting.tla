------------------------------ MODULE Mounting ------------------------------
(***************************************************************************)
(* Mounting and unmounting: Session::new down to mount(2), to the setuid   *)
(* helper that mounts for an unprivileged process and sends it the device, *)
(* or to libfuse; then the unmount, and with auto_unmount the watcher that *)
(* the helper becomes, which is to remove the mount when the process is    *)
(* gone, however it went.                                                  *)
(*                                                                         *)
(* The mount table is what is at the mountpoint; one filesystem at a time  *)
(* is mounted there.  The connection lives while someone holds the device  *)
(* and the filesystem is mounted or still in use.  How sessions use the    *)
(* mount in between is in Session.                                         *)
(***************************************************************************)
EXTENDS MountOptions, FiniteSets

CONSTANTS Lists,     \* the option lists a process may ask for
          Platforms, \* "linux", "bsd"
          Backends   \* fuser_mount_impl: "pure-rust", "libfuse2", "libfuse3"

ASSUME MountingAssumption ==
    /\ Platforms \subseteq {"linux", "bsd"}
    /\ Backends \subseteq {"pure-rust", "libfuse2", "libfuse3"}

VARIABLES config,   \* mount_options, acl; and whom and what the process runs on
          pc,       \* where the process is
          table,    \* what is mounted at the mountpoint: "empty", "ours", "other"
          made,     \* the mount as it was made, until Session::new returns
          conn,     \* the kernel's connection: "none", "alive", "dead"
          holders,  \* who holds the device: "process", "helper", "message"
          helper,   \* fusermount: "none", "started", "mounted", "watching", "exited"
          sock,     \* the process has its end of the helper's socket
          failed    \* an unmount by this process failed

vars == <<config, pc, table, made, conn, holders, helper, sock, failed>>

Unmade == [source |-> {}, flags |-> {}, opts |-> {}]
auto == "AutoUnmount" \in Kinds(config.options)
pure == config.backend = "pure-rust"

Init ==
    /\ config \in [options : Lists, acl : {"All", "RootAndOwner", "Owner"}, root : BOOLEAN,
                   platform : Platforms, backend : Backends]
    /\ pc = "new" /\ table = "empty" /\ made = Unmade /\ conn = "none"
    /\ holders = {} /\ helper = "none" /\ sock = FALSE /\ failed = FALSE

(* Without a holder of the device the connection ends.                     *)
HeldBy(who) ==
    /\ holders' = who
    /\ conn' = IF who = {} /\ conn = "alive" THEN "dead" ELSE conn

(* The filesystem is mounted; who holds its device.                        *)
Mounts(by, who) ==
    /\ table = "empty"
    /\ table' = "ours" /\ conn' = "alive"
    /\ made' = by
    /\ holders' = who

---------------------------------------------------------------------------
(* Session::new                                                            *)

Refused ==
    \/ Conflicting(config.options)
    \/ auto /\ config.acl = "Owner"
    \/ ~check_option_values(config.options, config.platform)

(* Session::new, Mount::new and fuse_mount_pure, up to the choice of a way *)
(* to mount.                                                               *)
New ==
    /\ pc = "new"
    /\ pc' = IF Refused THEN "failed"
             ELSE IF ~pure THEN "libfuse"
             ELSE IF auto \/ config.platform # "linux" THEN "helper"
             ELSE "sys"
    /\ UNCHANGED <<config, table, made, conn, holders, helper, sock, failed>>

(* fuse_mount_sys: mount(2) is for root; EPERM sends us to the helper, any *)
(* other error to the caller.                                              *)
MountSys ==
    /\ pc = "sys"
    /\ \/ /\ config.root
          /\ Mounts(ByKernel(config.options, config.acl), {"process"})
          /\ pc' = "mounted"
       \/ /\ pc' \in IF config.root THEN {"failed"} ELSE {"failed", "helper"}
          /\ UNCHANGED <<table, made, conn, holders>>
    /\ UNCHANGED <<config, helper, sock, failed>>

(* No helper is found, or it does not start; detect_fusermount_bin and     *)
(* spawn.                                                                  *)
NoHelper ==
    /\ pc = "helper"
    /\ pc' = "failed"
    /\ UNCHANGED <<config, table, made, conn, holders, helper, sock, failed>>

(* fuse_mount_mount_fusefs: the device is opened here, and the helper has  *)
(* mounted it, or failed, when output() returns.                           *)
MountFusefs ==
    /\ pc = "helper" /\ config.platform = "bsd"
    /\ Mounts(ByMountFusefs(config.options, config.acl, config.root), {"process"})
    /\ pc' = "mounted"
    /\ UNCHANGED <<config, helper, sock, failed>>

(* fuse_mount_fusermount up to the wait for the helper's message           *)
Spawn ==
    /\ pc = "helper" /\ config.platform = "linux"
    /\ helper' = "started" /\ sock' = TRUE /\ pc' = "receive"
    /\ UNCHANGED <<config, table, made, conn, holders, failed>>

\* Mutant of Received: the socket is closed whatever the options.
ReceivedCloses ==
    /\ HeldBy((holders \ {"message"}) \cup {"process"})
    /\ sock' = FALSE
    /\ pc' = "mounted"

(* The device arrived.  Without auto_unmount the socket is closed and the  *)
(* helper, which has sent its message, waited for; should that fail, the   *)
(* device is closed again.                                                 *)
Received ==
    /\ sock' = auto
    /\ \/ /\ HeldBy((holders \ {"message"}) \cup {"process"})
          /\ pc' = "mounted"
       \/ /\ ~auto
          /\ HeldBy(holders \ {"message"})
          /\ pc' = "failed"

(* receive_fusermount_message finds no device: the helper went without a   *)
(* message, or the descriptor could not be installed here.                 *)
NotReceived ==
    /\ HeldBy(holders \ {"message"})
    /\ sock' = FALSE
    /\ pc' = "wait"

Receive ==
    /\ pc = "receive"
    /\ "message" \in holders \/ helper = "exited"
    /\ \/ "message" \in holders /\ Received
       \/ NotReceived
    /\ UNCHANGED <<config, table, made, helper, failed>>

(* wait_with_output, after a failure                                       *)
WaitHelper ==
    /\ pc = "wait" /\ helper = "exited"
    /\ pc' = "failed"
    /\ UNCHANGED <<config, table, made, conn, holders, helper, sock, failed>>

(* MountImpl::new of fuse2.rs and fuse3.rs.  libfuse starts the helper     *)
(* itself, and its end of the socket stays open for the process's life.    *)
(* fuse3.rs takes a copy of the device afterwards; when it gets none its   *)
(* session is destroyed and the device closed.                             *)
MountLibfuse ==
    /\ pc = "libfuse"
    /\ \/ /\ pc' = "failed"
          /\ UNCHANGED <<table, made, conn, holders, helper, sock>>
       \/ /\ Mounts(ByLibfuse(config.options, config.acl, config.root), {"process"})
          /\ helper' = IF auto THEN "watching" ELSE helper
          /\ sock' = auto
          /\ pc' = "mounted"
       \/ /\ config.backend = "libfuse3" /\ table = "empty"
          /\ table' = "ours" /\ conn' = "dead"
          /\ helper' = IF auto THEN "watching" ELSE helper
          /\ sock' = auto
          /\ pc' = "failed"
          /\ UNCHANGED <<made, holders>>
    /\ UNCHANGED <<config, failed>>

(* Session::new returns; the options are not needed any more.              *)
Serve ==
    /\ pc = "mounted"
    /\ pc' = "serving" /\ made' = Unmade
    /\ config' = [config EXCEPT !.options = IF auto THEN <<Option("AutoUnmount", <<>>)>> ELSE <<>>,
                                !.acl = "All"]
    /\ UNCHANGED <<table, conn, holders, helper, sock, failed>>

---------------------------------------------------------------------------
(* Mount::umount and Drop                                                  *)

(* should_unmount asks the device.  When the connection is dead the        *)
(* MountImpl is dropped as it is, and with it the socket.                  *)
UmountCheck ==
    /\ pc = "serving"
    /\ pc' = IF conn = "alive" THEN "umount" ELSE "done"
    /\ sock' = IF conn # "alive" /\ pure THEN FALSE ELSE sock
    /\ UNCHANGED <<config, table, made, conn, holders, helper, failed>>

(* umount_now, and umount_impl of the others: by path, through the helper  *)
(* when not root.  The helper may fail, and refuses what another user      *)
(* mounted.                                                                *)
UmountNow ==
    /\ pc = "umount"
    /\ \/ /\ table # "empty"
          /\ table' = "empty"
          /\ UNCHANGED failed
       \/ /\ table = "empty" \/ ~config.root
          /\ failed' = TRUE
          /\ UNCHANGED table
    /\ pc' = "close"
    /\ UNCHANGED <<config, made, conn, holders, helper, sock>>

(* umount_impl closes the watcher's socket once the unmount was tried.     *)
CloseSocket ==
    /\ pc = "close"
    /\ sock' = IF pure THEN FALSE ELSE sock
    /\ pc' = "done"
    /\ UNCHANGED <<config, table, made, conn, holders, helper, failed>>

(* The process ends, by itself or not; the kernel closes what it has open, *)
(* and a message it has not received goes with the socket.                 *)
Exit ==
    /\ pc # "gone"
    /\ pc' = "gone"
    /\ sock' = FALSE
    /\ HeldBy(holders \ {"process", "message"})
    /\ made' = Unmade
    /\ UNCHANGED <<config, table, helper, failed>>

---------------------------------------------------------------------------
(* fusermount, outside this repository                                     *)

HelperMount ==
    /\ helper = "started"
    /\ \/ /\ Mounts(ByFusermount(config.options, config.acl, config.root),
                    holders \cup {"helper"})
          /\ helper' = "mounted"
       \/ /\ helper' = "exited"
          /\ UNCHANGED <<table, made, conn, holders>>
    /\ UNCHANGED <<config, pc, sock, failed>>

(* The device is sent, or what was mounted removed if nobody is there to   *)
(* receive it.  Without auto_unmount the helper is done.                   *)
HelperSend ==
    /\ helper = "mounted"
    /\ IF sock
       THEN /\ HeldBy((holders \ {"helper"}) \cup {"message"})
            /\ helper' = IF auto THEN "watching" ELSE "exited"
            /\ UNCHANGED table
       ELSE /\ HeldBy(holders \ {"helper"})
            /\ helper' = "exited"
            /\ table' = IF table = "ours" THEN "empty" ELSE table
    /\ UNCHANGED <<config, pc, made, sock, failed>>

(* The watcher's socket reached its end.  A mount that still answers is    *)
(* left alone.                                                             *)
Watch ==
    /\ helper = "watching" /\ ~sock
    /\ table' = IF table = "ours" /\ conn = "dead" THEN "empty" ELSE table
    /\ helper' = "exited"
    /\ UNCHANGED <<config, pc, made, conn, holders, sock, failed>>

---------------------------------------------------------------------------
(* The outside world                                                       *)

Abort ==
    /\ conn = "alive"
    /\ conn' = "dead"
    /\ UNCHANGED <<config, pc, table, made, holders, helper, sock, failed>>

(* A filesystem that is not mounted and not in use any more                *)
Teardown ==
    /\ conn = "alive" /\ table # "ours"
    /\ conn' = "dead"
    /\ UNCHANGED <<config, pc, table, made, holders, helper, sock, failed>>

OthersUmount ==
    /\ table # "empty"
    /\ table' = "empty"
    /\ UNCHANGED <<config, pc, made, conn, holders, helper, sock, failed>>

OthersMount ==
    /\ table = "empty" /\ conn # "none"
    /\ table' = "other"
    /\ UNCHANGED <<config, pc, made, conn, holders, helper, sock, failed>>

---------------------------------------------------------------------------
HelperGoesOn == HelperSend \/ Watch
Outside == Abort \/ Teardown \/ OthersUmount \/ OthersMount
Process ==
    \/ New \/ MountSys \/ NoHelper \/ MountFusefs \/ Spawn \/ Receive \/ WaitHelper
    \/ MountLibfuse \/ Serve \/ UmountCheck \/ UmountNow \/ CloseSocket \/ Exit

Next == Process \/ HelperMount \/ HelperGoesOn \/ Outside

(* The helper is a process of its own: whatever becomes of ours, it goes   *)
(* on once it has mounted.                                                 *)
Spec == Init /\ [][Next]_vars /\ WF_vars(HelperGoesOn)

---------------------------------------------------------------------------
(* What a caller asked for: the name, or the subtype in its place; the     *)
(* restrictions asked for, and nodev and nosuid unless root lifts them;    *)
(* and the other options in their own words.                               *)
Requested ==
    LET kinds == Kinds(config.options)
        names == ValuesOf(config.options, "FSName")
        types == ValuesOf(config.options, "Subtype")
    IN  [source |-> {IF names # <<>> THEN names[1]
                     ELSE IF types # <<>> THEN types[1] ELSE <<"/dev/fuse">>},
         flags |-> {Word[k] : k \in kinds \cap Restricting}
                     \cup (IF config.root /\ "Dev" \in kinds THEN {} ELSE {"nodev"})
                     \cup (IF config.root /\ "Suid" \in kinds THEN {} ELSE {"nosuid"}),
         opts |-> (ToSet(ValuesOf(config.options, "CUSTOM"))
                     \cup {<<"default_permissions">> : k \in kinds \cap {"DefaultPermissions"}}
                     \cup {<<"allow_other">> : a \in {config.acl} \ {"Owner"}}) \ {<<>>}]

(* Whichever way the options take (mount(2) with its source, flags and     *)
(* list; fusermount's or mount_fusefs's list; libfuse's arguments), the    *)
(* filesystem that is mounted has the name, the flags and the options the  *)
(* Config asked for: no value runs into the next option, none loses or     *)
(* gains a character (check_option_values, option_to_escaped_string,       *)
(* option_group).                                                          *)
OptionsArrive == made # Unmade => made = Requested

(* A filesystem mounted with auto_unmount does not outlive its process,    *)
(* however and whenever the process ends: before the device arrived, while *)
(* serving, after an abort, between the steps of its own unmount.  The     *)
(* exception is an unmount that failed in fuse_pure.rs, which closes the   *)
(* watcher's socket while the connection lives.                            *)
AutoUnmountCleans ==
    (pc = "gone" /\ auto /\ config.platform = "linux" /\ ~(failed /\ pure)) ~> (table # "ours")

=============================================================================
