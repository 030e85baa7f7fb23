------------------------------- MODULE Session -------------------------------
(***************************************************************************)
(* The life of a fuser session, src/src/session.rs: Session::new/from_fd,  *)
(* run, spawn, the event loop threads, BackgroundSession, SessionUnmounter *)
(* and the teardown of the Mount (src/src/mnt/mod.rs), together with the   *)
(* part of the kernel they talk to: the connection behind /dev/fuse and    *)
(* what is mounted at the mountpoint.                                      *)
(*                                                                         *)
(* Actors: the owner of the Session (who later runs Session::run, in the   *)
(* foreground or as the thread "fuser-bg"), the event loop threads, the    *)
(* holder of the BackgroundSession, another thread with a SessionUnmounter,*)
(* and the outside world.                                                  *)
(***************************************************************************)
EXTENDS Integers

CONSTANT MaxThreads      \* bound on Config::n_threads

ASSUME MaxThreadsAssumption == MaxThreads \in Nat

Threads == 1 .. MaxThreads \* the event loop threads, in the order run() joins them
Owner   == 0               \* the thread that owns the Session and runs run()
Nobody  == -1

VARIABLES
  conn,       \* kernel: the connection is "none", "alive" or "dead"
  at,         \* kernel: what is mounted at the mountpoint: "free", "ours", "other"
  busy,       \* kernel: somebody has files of our mount open
  run,        \* where the owner of the Session is
  loop,       \* where each event loop thread is
  nThreads,   \* Config::n_threads of this session, 1 when it is not given
  joined,     \* how many threads run() has joined
  init,       \* Filesystem::init: not called ("no"), returned "ok" or "err"
  refs,       \* who holds a reference to the FilesystemHolder
  holder,     \* FilesystemHolder::fs is Some
  destroyer,  \* the thread inside Filesystem::destroy
  destroys,   \* how many calls of Filesystem::destroy have returned
  mount,      \* where the Mount is; who is unmounting with it when step # "idle"
  step,       \* how far Mount::umount has come: "idle", "check", "act"
  clobbered,  \* our unmount has removed a filesystem that is not ours
  bg,         \* where the holder of the BackgroundSession is
  op,         \* the operation that consumes the BackgroundSession
  guard,      \* its JoinHandle: "none", "held", "joined", "detached"
  callRet     \* what the last SessionUnmounter::unmount returned

kernelVars == <<conn, at, busy>>
fsVars     == <<init, refs, holder, destroyer, destroys>>
mountVars  == <<mount, step, clobbered>>
handleVars == <<bg, op, guard>>
vars == <<conn, at, busy, run, loop, nThreads, joined, init, refs, holder, destroyer, destroys,
          mount, step, clobbered, bg, op, guard, callRet>>

RunStates  == {"none", "handshake", "ready", "start", "join", "destroy", "release",
               "guard", "returned"}
Ended      == {"ok", "err", "panic"}
LoopStates == {"none", "recv", "callback"} \cup Ended

(* One type invariant for the whole module. *)
TypeOK ==
  /\ conn \in {"none", "alive", "dead"}
  /\ at \in {"free", "ours", "other"}
  /\ busy \in BOOLEAN
  /\ run \in RunStates
  /\ loop \in [Threads -> LoopStates]
  /\ nThreads \in 0 .. MaxThreads
  /\ joined \in 0 .. MaxThreads
  /\ init \in {"no", "ok", "err"}
  /\ refs \in SUBSET (Threads \cup {Owner})
  /\ holder \in BOOLEAN
  /\ destroyer \in Threads \cup {Owner, Nobody}
  /\ destroys \in 0 .. 1
  /\ mount \in {"none", "slot", "run", "call", "local", "handle"}
  /\ step \in {"idle", "check", "act"}
  /\ clobbered \in BOOLEAN
  /\ bg \in {"none", "held", "umount", "wait", "join", "returned"}
  /\ op \in {"none", "drop", "umount_and_join", "join"}
  /\ guard \in {"none", "held", "joined", "detached"}
  /\ callRet \in {"none", "ok", "err"}

Init ==
  /\ conn = "none" /\ at = "free" /\ busy = FALSE
  /\ run = "none"
  /\ loop = [t \in Threads |-> "none"]
  /\ nThreads \in 0 .. MaxThreads /\ joined = 0
  /\ init = "no" /\ refs = {Owner} /\ holder = TRUE
  /\ destroyer = Nobody /\ destroys = 0
  /\ mount = "none" /\ step = "idle" /\ clobbered = FALSE
  /\ bg = "none" /\ op = "none" /\ guard = "none"
  /\ callRet = "none"

-----------------------------------------------------------------------------
(* The kernel and the outside world.                                       *)

(* Somebody unmounts our filesystem: umount, or lazily while it is in use. *)
ExternalUnmount ==
  /\ at = "ours"
  /\ at' = "free"
  /\ UNCHANGED <<conn, busy, run, loop, nThreads, joined, callRet, fsVars, mountVars, handleVars>>

(* Somebody mounts an unrelated filesystem at the path we have left. *)
ExternalMount ==
  /\ run # "none" /\ at = "free"
  /\ at' = "other"
  /\ UNCHANGED <<conn, busy, run, loop, nThreads, joined, callRet, fsVars, mountVars, handleVars>>

(* A process opens, or closes, the last file of our mount. *)
UseChanges ==
  /\ busy \/ (at = "ours" /\ conn = "alive")
  /\ busy' = ~busy
  /\ UNCHANGED <<conn, at, run, loop, nThreads, joined, callRet, fsVars, mountVars, handleVars>>

(* The connection is aborted, e.g. through fusectl; the dead mount stays. *)
Abort ==
  /\ conn = "alive"
  /\ conn' = "dead"
  /\ UNCHANGED <<at, busy, run, loop, nThreads, joined, callRet, fsVars, mountVars, handleVars>>

(* An unmounted filesystem that nobody uses any more loses its connection. *)
KernelTeardown ==
  /\ conn = "alive" /\ at # "ours" /\ ~busy
  /\ conn' = "dead"
  /\ UNCHANGED <<at, busy, run, loop, nThreads, joined, callRet, fsVars, mountVars, handleVars>>

-----------------------------------------------------------------------------
(* FilesystemHolder and the references to it.                              *)

\* Mutant of Destroy: the filesystem is left in the Option.
DestroyKeeps(p) == destroyer' = p /\ UNCHANGED holder

(* FilesystemHolder::destroy, called by thread p: takes the filesystem out  *)
(* of the Option and calls Filesystem::destroy on it; the call is under way *)
(* until FinishDestroy.                                                     *)
Destroy(p) ==
  /\ holder' = FALSE
  /\ destroyer' = IF holder THEN p ELSE destroyer

FinishDestroy ==
  /\ destroyer # Nobody
  /\ destroyer' = Nobody
  /\ destroys' = destroys + 1
  /\ UNCHANGED <<kernelVars, run, loop, nThreads, joined, callRet, init, refs, holder,
                 mountVars, handleVars>>

\* Mutant of DropRef: FilesystemHolder without its Drop.
DropRefForgets(p) == refs' = refs \ {p} /\ UNCHANGED <<holder, destroyer>>

\* Mutant of DropRef: every drop destroys, as if the holder were not shared.
DropRefDestroys(p) == refs' = refs \ {p} /\ Destroy(p)

(* Thread p drops its reference; the last one drops the FilesystemHolder,   *)
(* whose Drop calls destroy.                                                *)
DropRef(p) ==
  /\ refs' = refs \ {p}
  /\ IF refs = {p} THEN Destroy(p) ELSE UNCHANGED <<holder, destroyer>>

-----------------------------------------------------------------------------
(* Session::new, Session::from_fd and the handshake.                       *)

(* Session::new fails before there is a Session: conflicting options, or    *)
(* Mount::new failed. The filesystem is dropped, destroy is not called.     *)
MountFails ==
  /\ run = "none"
  /\ run' = "returned"
  /\ refs' = {} /\ holder' = FALSE
  /\ UNCHANGED <<kernelVars, loop, nThreads, joined, callRet, init, destroyer, destroys,
                 mountVars, handleVars>>

(* Session::new has mounted (slot holds the Mount), or from_fd wraps a      *)
(* connection somebody else mounted (slot holds None).                      *)
Construct ==
  /\ run = "none"
  /\ run' = "handshake"
  /\ conn' = "alive" /\ at' = "ours"
  /\ mount' \in {"slot", "none"}
  /\ UNCHANGED <<busy, loop, nThreads, joined, callRet, fsVars, step, clobbered, handleVars>>

(* The handshake ends after Filesystem::init was called: the session is     *)
(* ready, or the error is returned and the Session dropped.                 *)
HandshakeInit ==
  /\ run = "handshake" /\ conn = "alive"
  /\ \/ init' = "ok" /\ run' = "ready"
     \/ init' = "err" /\ run' = "release"
  /\ UNCHANGED <<kernelVars, loop, nThreads, joined, callRet, refs, holder, destroyer, destroys,
                 mountVars, handleVars>>

(* The handshake ends before init: the request is no INIT, cannot be        *)
(* parsed or has an unsupported version, or reading it failed ...           *)
HandshakeFails ==
  /\ run = "handshake" /\ conn = "alive"
  /\ run' = "release"
  /\ UNCHANGED <<kernelVars, loop, nThreads, joined, callRet, fsVars, mountVars, handleVars>>

(* ... or the device was disconnected. *)
HandshakeDisconnected ==
  /\ run = "handshake" /\ conn = "dead"
  /\ run' = "release"
  /\ UNCHANGED <<kernelVars, loop, nThreads, joined, callRet, fsVars, mountVars, handleVars>>

-----------------------------------------------------------------------------
(* Session::run.                                                           *)

(* The owner, not in Session::unmount, calls run() ... *)
Run ==
  /\ run = "ready" /\ mount # "run"
  /\ run' = "start"
  /\ UNCHANGED <<kernelVars, loop, nThreads, joined, callRet, fsVars, mountVars, handleVars>>

(* ... or drops the Session without running it. *)
DropSession ==
  /\ run = "ready" /\ mount # "run"
  /\ run' = "release"
  /\ UNCHANGED <<kernelVars, loop, nThreads, joined, callRet, fsVars, mountVars, handleVars>>

(* n_threads is 0: run() returns an error. The locals are dropped in        *)
(* reverse order, so the mount guard goes first.                            *)
StartRejected ==
  /\ run = "start" /\ nThreads = 0
  /\ run' = "guard"
  /\ UNCHANGED <<kernelVars, loop, nThreads, joined, callRet, fsVars, mountVars, handleVars>>

Spawned(t) == loop[t] # "none"

(* One round of the loop that spawns the event loop threads. *)
StartThread(t) ==
  /\ run = "start" /\ t <= nThreads
  /\ ~Spawned(t)
  /\ \A u \in 1 .. t - 1 : Spawned(u)
  /\ loop' = [loop EXCEPT ![t] = "recv"]
  /\ refs' = refs \cup {t}
  /\ run' = IF t = nThreads THEN "join" ELSE run
  /\ UNCHANGED <<kernelVars, nThreads, joined, callRet, init, holder, destroyer, destroys,
                 mountVars, handleVars>>

\* Mutant of StartFails: the mount guard is dropped before the filesystem.
StartFailsGuardFirst ==
  /\ run = "start" /\ nThreads > 0
  /\ run' = "guard"
  /\ UNCHANGED <<kernelVars, loop, nThreads, joined, callRet, fsVars, mountVars, handleVars>>

(* clone_fd() or the spawning of a thread fails: run() returns the error,   *)
(* and the threads already spawned are detached.                            *)
StartFails ==
  /\ run = "start" /\ nThreads > 0
  /\ run' = "release"
  /\ UNCHANGED <<kernelVars, loop, nThreads, joined, callRet, fsVars, mountVars, handleVars>>

\* Mutant of Joinable: the thread's result is visible before its closure is gone.
JoinableEarly(t) == loop[t] \in Ended

(* A thread can be joined once its closure, with its reference, is gone. *)
Joinable(t) == loop[t] \in Ended /\ t \notin refs /\ destroyer # t

(* run() joins the threads in order; it returns at the first that panicked, *)
(* and the others are detached.                                             *)
JoinThread(t) ==
  /\ run = "join" /\ t = joined + 1 /\ t <= nThreads /\ Joinable(t)
  /\ IF loop[t] = "panic"
       THEN run' = "release" /\ UNCHANGED joined
       ELSE joined' = t /\ UNCHANGED run
  /\ UNCHANGED <<kernelVars, loop, nThreads, callRet, fsVars, mountVars, handleVars>>

(* All threads joined: Arc::get_mut and FilesystemHolder::destroy, or the   *)
(* error "BUG: must have one refcount for filesystem".                      *)
AllJoined == run = "join" /\ joined = nThreads

DestroyFilesystem ==
  /\ AllJoined
  /\ IF refs = {Owner}
       THEN run' = "destroy" /\ Destroy(Owner)
       ELSE run' = "release" /\ UNCHANGED <<holder, destroyer>>
  /\ UNCHANGED <<kernelVars, loop, nThreads, joined, callRet, init, refs, destroys,
                 mountVars, handleVars>>

DestroyReturned ==
  /\ run = "destroy" /\ destroyer # Owner
  /\ run' = "release"
  /\ UNCHANGED <<kernelVars, loop, nThreads, joined, callRet, fsVars, mountVars, handleVars>>

(* run() returns, or the Session is dropped: the filesystem goes first ...  *)
ReleaseFilesystem ==
  /\ run = "release"
  /\ DropRef(Owner)
  /\ run' = "guard"
  /\ UNCHANGED <<kernelVars, loop, nThreads, joined, callRet, init, destroys, mountVars, handleVars>>

(* ... then the mount guard, UmountOnDrop, which unmounts if the Mount is   *)
(* still there; it waits for the mutex while a SessionUnmounter holds it.   *)
GuardUnmounts ==
  /\ run = "guard" /\ destroyer # Owner
  /\ mount \in {"slot", "local"} /\ step = "idle"
  /\ mount' = IF mount = "slot" THEN "run" ELSE mount
  /\ step' = "check"
  /\ UNCHANGED <<kernelVars, run, loop, nThreads, joined, callRet, fsVars, clobbered, handleVars>>

GuardDone ==
  /\ run = "guard" /\ destroyer # Owner
  /\ mount \in {"none", "handle"}
  /\ run' = IF Owner \in refs THEN "release" ELSE "returned"
  /\ UNCHANGED <<kernelVars, loop, nThreads, joined, callRet, fsVars, mountVars, handleVars>>

-----------------------------------------------------------------------------
(* SessionEventLoop::event_loop on thread t.                               *)

LoopStep(t, from, to) ==
  /\ loop[t] = from
  /\ loop' = [loop EXCEPT ![t] = to]

(* A request is dispatched to the filesystem, whose callback now runs. *)
Receive(t) ==
  /\ conn = "alive"
  /\ LoopStep(t, "recv", "callback")
  /\ UNCHANGED <<kernelVars, run, nThreads, joined, callRet, fsVars, mountVars, handleVars>>

(* The kernel tears the filesystem down and says so with FUSE_DESTROY; it   *)
(* ends the connection on the reply, after which the loop returns.          *)
ReceiveDestroy(t) ==
  /\ conn = "alive" /\ at # "ours" /\ ~busy
  /\ LoopStep(t, "recv", "ok")
  /\ conn' = "dead"
  /\ UNCHANGED <<at, busy, run, nThreads, joined, callRet, fsVars, mountVars, handleVars>>

(* An illegal request, or an error that is neither retried nor a disconnect. *)
ReceiveFails(t) ==
  /\ conn = "alive"
  /\ LoopStep(t, "recv", "err")
  /\ UNCHANGED <<kernelVars, run, nThreads, joined, callRet, fsVars, mountVars, handleVars>>

\* Mutant of ReceiveDisconnected: the error is retried like EINTR.
ReceiveRetries(t) == conn = "dead" /\ loop[t] = "recv" /\ UNCHANGED vars

(* ENODEV or ECONNABORTED: the connection is gone, a normal end. *)
ReceiveDisconnected(t) ==
  /\ conn = "dead"
  /\ LoopStep(t, "recv", "ok")
  /\ UNCHANGED <<kernelVars, run, nThreads, joined, callRet, fsVars, mountVars, handleVars>>

(* The callback returns to the loop, or unwinds the thread. *)
CallbackEnds(t) ==
  /\ \E next \in {"recv", "panic"} : LoopStep(t, "callback", next)
  /\ UNCHANGED <<kernelVars, run, nThreads, joined, callRet, fsVars, mountVars, handleVars>>

(* The thread's closure is dropped, and its reference with it. *)
LoopDropsRef(t) ==
  /\ loop[t] \in Ended /\ t \in refs
  /\ DropRef(t)
  /\ UNCHANGED <<kernelVars, run, loop, nThreads, joined, callRet, init, destroys,
                 mountVars, handleVars>>

-----------------------------------------------------------------------------
(* Mount::umount and Mount::drop: check the connection, then unmount by    *)
(* path. The two are separate steps: nothing keeps the world still between *)
(* them.                                                                   *)

\* Mutant of ShouldUnmount: unmount by path unconditionally.
ShouldAlwaysUnmount == TRUE

(* Mount::should_unmount. *)
ShouldUnmount == conn = "alive"

(* What the caller does with the result: the holder of the                  *)
(* BackgroundSession goes on to wait or join, or gives up on the thread.    *)
UmountReturns(res) ==
  /\ mount' = "none" /\ step' = "idle"
  /\ callRet' = IF mount = "call" THEN res ELSE callRet
  /\ IF mount # "handle"
       THEN UNCHANGED handleVars
       ELSE /\ bg' = IF res = "err" THEN "returned"
                     ELSE IF op = "umount_and_join" THEN "join" ELSE "wait"
            /\ guard' = IF res = "err" /\ guard = "held" THEN "detached" ELSE guard
            /\ UNCHANGED op

UmountCheck ==
  /\ step = "check"
  /\ IF ShouldUnmount
       THEN step' = "act" /\ UNCHANGED <<mount, callRet, handleVars>>
       ELSE UmountReturns("ok")
  /\ UNCHANGED <<kernelVars, run, loop, nThreads, joined, fsVars, clobbered>>

(* umount2(MNT_DETACH), or the helper, takes off what it finds at the path. *)
UmountDetaches ==
  /\ step = "act" /\ at # "free"
  /\ at' = "free"
  /\ clobbered' = (clobbered \/ at = "other")
  /\ UmountReturns("ok")
  /\ UNCHANGED <<conn, busy, run, loop, nThreads, joined, fsVars>>

(* There is nothing at the path or the helper fails; libfuse3's helper      *)
(* keeps that to itself.                                                    *)
UmountFails ==
  /\ step = "act"
  /\ \E res \in {"ok", "err"} : UmountReturns(res)
  /\ UNCHANGED <<kernelVars, run, loop, nThreads, joined, fsVars, clobbered>>

(* Session::unmount, before run() or spawn(). *)
OwnerUnmounts ==
  /\ run = "ready" /\ mount = "slot"
  /\ mount' = "run" /\ step' = "check"
  /\ UNCHANGED <<kernelVars, run, loop, nThreads, joined, callRet, fsVars, clobbered, handleVars>>

(* SessionUnmounter::unmount, on any thread, with the mutex free: takes the *)
(* Mount from the slot, or finds None and returns Ok.                       *)
SlotLocked == mount \in {"run", "call"}

UnmounterCalls ==
  /\ init = "ok" /\ ~SlotLocked
  /\ IF mount = "slot"
       THEN mount' = "call" /\ step' = "check" /\ UNCHANGED callRet
       ELSE callRet' = "ok" /\ UNCHANGED <<mount, step>>
  /\ UNCHANGED <<kernelVars, run, loop, nThreads, joined, fsVars, clobbered, handleVars>>

-----------------------------------------------------------------------------
(* Session::spawn and BackgroundSession.                                   *)

(* The Mount moves from the slot to the BackgroundSession, and run() starts *)
(* on the thread "fuser-bg".                                                *)
Spawn ==
  /\ run = "ready" /\ ~SlotLocked
  /\ run' = "start"
  /\ mount' = IF mount = "slot" THEN "handle" ELSE mount
  /\ bg' = "held" /\ guard' = "held"
  /\ UNCHANGED <<kernelVars, loop, nThreads, joined, callRet, fsVars, step, clobbered, op>>

(* The thread cannot be created: the Session is dropped with its closure,   *)
(* and the Mount, already out of the slot, after it.                        *)
SpawnFails ==
  /\ run = "ready" /\ ~SlotLocked
  /\ run' = "release"
  /\ mount' = IF mount = "slot" THEN "local" ELSE mount
  /\ UNCHANGED <<kernelVars, loop, nThreads, joined, callRet, fsVars, step, clobbered, handleVars>>

Detach == guard' = IF guard = "held" THEN "detached" ELSE guard

(* Drop for BackgroundSession, up to the unmount. *)
DropHandle ==
  IF mount = "handle"
    THEN bg' = "umount" /\ step' = "check" /\ UNCHANGED guard
    ELSE bg' = "returned" /\ Detach /\ UNCHANGED step

HandleDrop ==
  /\ bg = "held"
  /\ op' = "drop"
  /\ DropHandle
  /\ UNCHANGED <<kernelVars, run, loop, nThreads, joined, callRet, fsVars, mount, clobbered>>

HandleUmountAndJoin ==
  /\ bg = "held"
  /\ op' = "umount_and_join"
  /\ IF mount = "handle"
       THEN bg' = "umount" /\ step' = "check"
       ELSE bg' = "join" /\ UNCHANGED step
  /\ UNCHANGED <<kernelVars, run, loop, nThreads, joined, callRet, fsVars, mount, clobbered, guard>>

HandleJoin ==
  /\ bg = "held"
  /\ op' = "join" /\ bg' = "join"
  /\ UNCHANGED <<kernelVars, run, loop, nThreads, joined, callRet, fsVars, mountVars, guard>>

(* connection_ended(UNMOUNT_WAIT): the connection died in time ...          *)
HandleWaitEnds ==
  /\ bg = "wait" /\ conn = "dead"
  /\ bg' = "join"
  /\ UNCHANGED <<kernelVars, run, loop, nThreads, joined, callRet, fsVars, mountVars, op, guard>>

\* Mutant of HandleWaitTimesOut: the wait has no deadline.
HandleWaitsForever == FALSE

(* ... or is still alive after it: the thread is detached. *)
HandleWaitTimesOut ==
  /\ bg = "wait" /\ conn = "alive"
  /\ bg' = "returned" /\ Detach
  /\ UNCHANGED <<kernelVars, run, loop, nThreads, joined, callRet, fsVars, mountVars, op>>

\* Mutant of HandleJoined: the thread is let go instead of joined.
HandleJoinsNothing ==
  /\ bg = "join"
  /\ bg' = "returned" /\ guard' = "joined"
  /\ UNCHANGED <<kernelVars, run, loop, nThreads, joined, callRet, fsVars, mountVars, op>>

(* join_impl has joined "fuser-bg", or had nothing to join. After join()    *)
(* the BackgroundSession is dropped, which may still have to unmount.       *)
HandleJoined ==
  /\ bg = "join"
  /\ guard = "held" => run = "returned"
  /\ IF op = "join" /\ mount = "handle"
       THEN bg' = "umount" /\ step' = "check"
       ELSE bg' = "returned" /\ UNCHANGED step
  /\ guard' = "joined"
  /\ UNCHANGED <<kernelVars, run, loop, nThreads, joined, callRet, fsVars, mount, clobbered, op>>

-----------------------------------------------------------------------------
Kernel == ExternalUnmount \/ ExternalMount \/ UseChanges \/ Abort \/ KernelTeardown

OwnerUnforced ==
  \/ Construct \/ MountFails
  \/ HandshakeInit \/ HandshakeFails
  \/ Run \/ DropSession \/ OwnerUnmounts \/ Spawn \/ SpawnFails

OwnerStep ==
  \/ HandshakeDisconnected
  \/ StartRejected \/ StartFails
  \/ \E t \in Threads : StartThread(t) \/ JoinThread(t)
  \/ DestroyFilesystem \/ DestroyReturned
  \/ ReleaseFilesystem \/ GuardUnmounts \/ GuardDone

LoopNext(t) ==
  \/ Receive(t) \/ ReceiveDestroy(t) \/ ReceiveFails(t) \/ ReceiveDisconnected(t)
  \/ CallbackEnds(t)
  \/ LoopDropsRef(t)

UmountStep == UmountCheck \/ UmountDetaches \/ UmountFails

HandleUnforced == HandleDrop \/ HandleUmountAndJoin \/ HandleJoin

HandleStep == HandleWaitEnds \/ HandleWaitTimesOut \/ HandleJoined

(* Everything has come to its end. *)
Finished ==
  /\ run = "returned"
  /\ \A t \in Threads : loop[t] \in {"none"} \cup Ended /\ t \notin refs
  /\ destroyer = Nobody /\ step = "idle"
  /\ bg \in {"none", "returned"}

Terminated == Finished /\ UNCHANGED vars

Next ==
  \/ Kernel
  \/ OwnerUnforced \/ OwnerStep
  \/ FinishDestroy
  \/ \E t \in Threads : LoopNext(t)
  \/ UmountStep \/ UnmounterCalls
  \/ HandleUnforced \/ HandleStep
  \/ Terminated

(* Every thread of the process keeps running; callbacks and destroy return. *)
(* Nothing is assumed of the outside world (that the kernel sends INIT or   *)
(* tears an unmounted filesystem down, that a use of it ends), nor that the *)
(* owner of a ready Session or of a BackgroundSession ever uses it.         *)
Fairness ==
  /\ WF_vars(OwnerStep)
  /\ WF_vars(FinishDestroy)
  /\ \A t \in Threads : WF_vars(LoopNext(t))
  /\ WF_vars(UmountStep)
  /\ WF_vars(HandleStep)

Spec     == Init /\ [][Next]_vars
FairSpec == Spec /\ Fairness

-----------------------------------------------------------------------------
(* Safety.                                                                 *)

(* Where the Filesystem is in the life FilesystemLifecycle describes. *)
LifecyclePhase ==
  IF destroyer # Nobody THEN "destroying"
  ELSE IF destroys > 0 THEN "destroyed"
  ELSE IF ~holder THEN "discarded"
  ELSE IF init = "ok" THEN "ready"
  ELSE IF init = "err" THEN "failed"
  ELSE "new"

InCallback == {t \in Threads : loop[t] = "callback"}

Lifecycle == INSTANCE FilesystemLifecycle
               WITH Workers <- Threads, phase <- LifecyclePhase, active <- InCallback

(* The session implements FilesystemLifecycle: whatever the interleaving of *)
(* event loops, panics, failed starts and handles, callbacks run only after *)
(* a successful init and before destroy, and FilesystemHolder makes the one *)
(* call of destroy when nobody else can be inside the filesystem.           *)
RefinesLifecycle == Lifecycle!LSpec

(* Session::run's error "BUG: must have one refcount for filesystem" cannot *)
(* be returned: when all threads are joined, run() has the last reference.  *)
NoRefcountBug == AllJoined => refs = {Owner}

(* run() came back although event loops may still be running: a thread      *)
(* panicked while others went on, or not all threads could be started.      *)
Abandoned ==
  /\ nThreads > 1
  /\ \E t \in 1 .. nThreads : loop[t] \in {"none", "panic"}

(* A BackgroundSession that has joined its thread, in drop, join or         *)
(* umount_and_join, leaves behind a filesystem on which destroy has run -   *)
(* unless run() abandoned event loops. With one thread there is no unless.  *)
JoinedImpliesDestroyed == guard = "joined" /\ ~Abandoned => destroys = 1

(* The guard _do_not_umount_yet of Session::run, and a dropped Session,     *)
(* unmount only after destroy has run or when event loops still hold the    *)
(* filesystem, which the unmount is then to end. The exception is the early *)
(* return of run() for zero threads, where the guard goes before the        *)
(* filesystem does.                                                         *)
UnmountAfterDestroy ==
  run = "guard" /\ mount \in {"run", "local"} /\ step # "idle" /\ nThreads > 0
    => destroys = 1 \/ \E t \in Threads : t \in refs \/ destroyer = t

(* Mount::should_unmount: once the connection is dead, and no umount is     *)
(* past its check, no teardown removes what others mount at the path.       *)
ReplacementSafe ==
  [](conn = "dead" /\ step # "act" /\ ~clobbered => []~clobbered)

-----------------------------------------------------------------------------
(* Liveness, under Fairness.                                               *)

(* Dropping a BackgroundSession never blocks for good, not even when the    *)
(* filesystem stays in use or the unmount silently failed.                  *)
DropReturns == op = "drop" ~> bg = "returned"

(* Whoever joins the session gets an answer once the connection is dead. *)
JoinReturns == bg = "join" /\ conn = "dead" ~> bg = "returned"

(* Once the connection is dead, destroy is called for every Session that is *)
(* run, dropped or failed its handshake, whatever has panicked or failed on *)
(* the way.                                                                 *)
DestroyHappens == conn = "dead" /\ run \notin {"none", "ready"} ~> destroys = 1

-----------------------------------------------------------------------------
(* What the documentation says and the code does not do.                   *)

(* "Dropping this unmounts the filesystem and blocks until the session has  *)
(* ended, which guarantees that Filesystem::destroy has run when drop       *)
(* returns", said of every BackgroundSession whose thread was joined.       *)
DestroyGuarantee == guard = "joined" => destroys = 1

(* "Unmount the filesystem", said of SessionUnmounter::unmount: when it has *)
(* returned Ok, the filesystem is not mounted and served as before.         *)
UnmountedAfterOk == callRet = "ok" => ~(at = "ours" /\ conn = "alive" /\ mount = "handle")

==============================================================================
