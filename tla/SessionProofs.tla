---------------------------- MODULE SessionProofs ----------------------------
(***************************************************************************)
(* Proofs about Session for every number of event loop threads: the type   *)
(* invariant, the safety invariants, and the refinement of                 *)
(* FilesystemLifecycle. All rest on one inductive invariant, IInv.         *)
(***************************************************************************)
EXTENDS Session, TLAPS

(* Who holds the filesystem: a thread in its loop has a reference; a taken  *)
(* filesystem is referenced by nobody but the owner on its way out; an      *)
(* untaken one has not been destroyed.                                      *)
HolderInv ==
  /\ \A t \in Threads : loop[t] \in {"recv", "callback"} => t \in refs
  /\ \A t \in Threads : loop[t] = "none" => t \notin refs /\ destroyer # t
  /\ holder => destroyer = Nobody /\ destroys = 0 /\ refs # {}
  /\ ~holder => refs = {} \/ (refs = {Owner} /\ run \in {"destroy", "release"})
  /\ destroyer # Nobody => destroys = 0
  /\ ~holder /\ destroyer = Nobody
       => destroys = 1 \/ (run = "returned" /\ init = "no")

(* Where the owner is: what it still holds, and what has been started. *)
OwnerInv ==
  /\ run = "none" => conn = "none" /\ init = "no"
  /\ run = "handshake" => init = "no"
  /\ run \in {"ready", "start", "join", "destroy"} => init = "ok"
  /\ run \in {"none", "handshake", "ready"} => refs = {Owner} /\ holder
  /\ run \in {"start", "join", "destroy", "release"} => Owner \in refs
  /\ run = "guard" /\ Owner \in refs => nThreads = 0
  /\ run = "returned" => Owner \notin refs
  /\ run = "destroy" => ~holder /\ destroyer \in {Owner, Nobody}
  /\ destroyer = Owner => run \in {"destroy", "guard"}

(* The event loop threads: spawned in order up to nThreads, joined in order. *)
ThreadInv ==
  /\ run \in {"none", "handshake", "ready"} => joined = 0 /\ \A t \in Threads : loop[t] = "none"
  /\ \A t \in Threads : t > nThreads => loop[t] = "none"
  /\ \A t \in Threads : loop[t] # "none" => init = "ok"
  /\ run = "start" => joined = 0 /\ (nThreads > 0 => loop[nThreads] = "none")
  /\ run = "join" => \A t \in 1 .. nThreads : loop[t] # "none"
  /\ joined <= nThreads
  /\ \A t \in 1 .. joined : Joinable(t)
  /\ run \in {"release", "guard", "returned"} /\ ~Abandoned
       => \A t \in Threads : t \notin refs /\ destroyer # t

(* The BackgroundSession: a joined one has seen run() return. *)
HandleInv ==
  /\ bg = "none" <=> guard = "none"
  /\ bg # "none" => init = "ok" /\ run \notin {"none", "handshake", "ready"}
  /\ guard = "detached" => bg = "returned"
  /\ guard = "joined" => run = "returned"

(* Who unmounts: the owner in Session::unmount or when destroy is behind    *)
(* it, the holder of the BackgroundSession, but nobody with a Mount in the  *)
(* slot.                                                                    *)
UmountInv ==
  /\ run = "none" => mount = "none"
  /\ mount = "run" => run = "ready" \/ (run = "guard" /\ destroyer # Owner)
  /\ mount = "local" => run \in {"release", "guard"}
  /\ mount = "local" /\ step # "idle" => run = "guard" /\ destroyer # Owner
  /\ mount \in {"none", "slot"} => step = "idle"
  /\ mount = "handle" => bg # "none"
  /\ mount = "handle" /\ step # "idle" => bg = "umount"

(* The inductive invariant. *)
IInv == TypeOK /\ HolderInv /\ OwnerInv /\ ThreadInv /\ HandleInv /\ UmountInv

USE MaxThreadsAssumption
    DEF Threads, Owner, Nobody, RunStates, LoopStates, Ended,
        kernelVars, fsVars, mountVars, handleVars

-----------------------------------------------------------------------------
(* Init establishes IInv. *)
LEMMA InitIInv == Init => IInv
  <1> SUFFICES ASSUME Init PROVE IInv
    OBVIOUS
  <1>1. busy \in BOOLEAN /\ holder \in BOOLEAN /\ clobbered \in BOOLEAN /\ holder
    BY Zenon DEF Init
  <1>2. TypeOK
    BY <1>1 DEF Init, TypeOK
  <1>3. HolderInv /\ OwnerInv /\ ThreadInv
    BY <1>1 DEF Init, HolderInv, OwnerInv, ThreadInv
  <1>4. HandleInv /\ UmountInv
    BY DEF Init, HandleInv, UmountInv
  <1> QED
    BY <1>2, <1>3, <1>4 DEF IInv

(* When all threads are joined, Arc::get_mut succeeds. *)
LEMMA SoleReference == IInv /\ AllJoined => refs = {Owner}
  <1> SUFFICES ASSUME IInv, AllJoined PROVE refs = {Owner}
    OBVIOUS
  <1>1. Owner \in refs
    BY DEF IInv, OwnerInv, AllJoined
  <1>2. \A t \in Threads : t \notin refs
    BY DEF IInv, TypeOK, HolderInv, ThreadInv, AllJoined, Joinable
  <1> QED
    BY <1>1, <1>2 DEF IInv, TypeOK

(* The outside world disturbs nothing that IInv speaks of. *)
LEMMA KernelIInv == IInv /\ Kernel => IInv'
  <1> SUFFICES ASSUME IInv, Kernel PROVE IInv'
    OBVIOUS
  <1> USE DEF IInv, TypeOK, HolderInv, OwnerInv, ThreadInv, HandleInv, UmountInv,
              Joinable, Abandoned
  <1>1. CASE ExternalUnmount
    BY <1>1 DEF ExternalUnmount
  <1>2. CASE ExternalMount
    BY <1>2 DEF ExternalMount
  <1>3. CASE UseChanges
    BY <1>3 DEF UseChanges
  <1>4. CASE Abort
    BY <1>4 DEF Abort
  <1>5. CASE KernelTeardown
    BY <1>5 DEF KernelTeardown
  <1> QED
    BY <1>1, <1>2, <1>3, <1>4, <1>5 DEF Kernel

(* FilesystemHolder::destroy leaves a Boolean in holder. *)
LEMMA DestroyBoolean == ASSUME NEW p, Destroy(p) PROVE holder' \in BOOLEAN
  BY Zenon DEF Destroy

(* The owner up to the start of run(): constructing, shaking hands, running, *)
(* dropping, unmounting and spawning.                                        *)
LEMMA OwnerUnforcedIInv == IInv /\ OwnerUnforced => IInv'
  <1> SUFFICES ASSUME IInv, OwnerUnforced PROVE IInv'
    OBVIOUS
  <1> USE DEF IInv, HolderInv, OwnerInv, ThreadInv, HandleInv, UmountInv,
              Joinable, Abandoned
  <1>1. CASE Construct
    <2>1. TypeOK'
      BY <1>1 DEF Construct, TypeOK
    <2>2. HolderInv' /\ OwnerInv' /\ ThreadInv'
      BY <1>1 DEF Construct, TypeOK
    <2>3. HandleInv' /\ UmountInv'
      BY <1>1 DEF Construct, TypeOK
    <2> QED
      BY <2>1, <2>2, <2>3
  <1>2. CASE MountFails
    <2>1. holder' \in BOOLEAN
      BY <1>2, Zenon DEF MountFails
    <2>2. TypeOK'
      BY <1>2, <2>1 DEF MountFails, TypeOK
    <2>3. HolderInv' /\ OwnerInv' /\ ThreadInv'
      BY <1>2 DEF MountFails, TypeOK
    <2>4. HandleInv' /\ UmountInv'
      BY <1>2 DEF MountFails, TypeOK
    <2> QED
      BY <2>2, <2>3, <2>4
  <1>3. CASE HandshakeInit
    BY <1>3 DEF HandshakeInit, TypeOK
  <1>4. CASE HandshakeFails
    BY <1>4 DEF HandshakeFails, TypeOK
  <1>5. CASE Run
    BY <1>5 DEF Run, TypeOK
  <1>6. CASE DropSession
    BY <1>6 DEF DropSession, TypeOK
  <1>7. CASE OwnerUnmounts
    BY <1>7 DEF OwnerUnmounts, TypeOK
  <1>8. CASE Spawn
    <2>1. TypeOK' /\ HolderInv' /\ OwnerInv' /\ ThreadInv'
      BY <1>8 DEF Spawn, TypeOK
    <2>2. HandleInv' /\ UmountInv'
      BY <1>8 DEF Spawn, SlotLocked, TypeOK
    <2> QED
      BY <2>1, <2>2
  <1>9. CASE SpawnFails
    <2>1. TypeOK' /\ HolderInv' /\ OwnerInv' /\ ThreadInv'
      BY <1>9 DEF SpawnFails, TypeOK
    <2>2. HandleInv' /\ UmountInv'
      BY <1>9 DEF SpawnFails, SlotLocked, TypeOK
    <2> QED
      BY <2>1, <2>2
  <1> QED
    BY <1>1, <1>2, <1>3, <1>4, <1>5, <1>6, <1>7, <1>8, <1>9 DEF OwnerUnforced

(* The owner inside run() and on its way out. *)
LEMMA OwnerStepIInv == IInv /\ OwnerStep => IInv'
  <1> SUFFICES ASSUME IInv, OwnerStep PROVE IInv'
    OBVIOUS
  <1> USE DEF IInv, HolderInv, OwnerInv, ThreadInv, HandleInv, UmountInv,
              Joinable, Abandoned
  <1>1. CASE HandshakeDisconnected
    BY <1>1 DEF HandshakeDisconnected, TypeOK
  <1>2. CASE StartRejected
    BY <1>2 DEF StartRejected, TypeOK
  <1>3. CASE StartFails
    BY <1>3 DEF StartFails, TypeOK
  <1>4. ASSUME NEW t \in Threads, StartThread(t) PROVE IInv'
    <2>1. TypeOK' /\ HolderInv'
      BY <1>4 DEF StartThread, Spawned, TypeOK
    <2>2. OwnerInv' /\ HandleInv' /\ UmountInv'
      BY <1>4 DEF StartThread, Spawned, TypeOK
    <2>3. ThreadInv'
      BY <1>4 DEF StartThread, Spawned, TypeOK
    <2> QED
      BY <2>1, <2>2, <2>3
  <1>5. ASSUME NEW t \in Threads, JoinThread(t) PROVE IInv'
    BY <1>5 DEF JoinThread, TypeOK
  <1>6. CASE DestroyFilesystem
    <2> HIDE DEF Owner
    <2>1. refs = {Owner}
      BY <1>6, SoleReference DEF DestroyFilesystem
    <2>2. Destroy(Owner) /\ run' = "destroy"
      BY <1>6, <2>1, Zenon DEF DestroyFilesystem
    <2>3. holder' \in BOOLEAN
      BY <2>2, DestroyBoolean
    <2> USE DEF Owner
    <2>4. TypeOK'
      BY <1>6, <2>2, <2>3 DEF DestroyFilesystem, Destroy, TypeOK
    <2>5. HolderInv' /\ OwnerInv' /\ ThreadInv'
      BY <1>6, <2>1, <2>2 DEF DestroyFilesystem, AllJoined, Destroy, TypeOK
    <2>6. HandleInv' /\ UmountInv'
      BY <1>6, <2>1, <2>2 DEF DestroyFilesystem, AllJoined, Destroy, TypeOK
    <2> QED
      BY <2>4, <2>5, <2>6
  <1>7. CASE DestroyReturned
    BY <1>7 DEF DestroyReturned, TypeOK
  <1>8. CASE ReleaseFilesystem
    <2>1. holder' \in BOOLEAN
      BY <1>8, DestroyBoolean DEF ReleaseFilesystem, DropRef, TypeOK
    <2>2. TypeOK'
      BY <1>8, <2>1 DEF ReleaseFilesystem, DropRef, Destroy, TypeOK
    <2>3. HolderInv' /\ OwnerInv' /\ ThreadInv'
      BY <1>8 DEF ReleaseFilesystem, DropRef, Destroy, TypeOK
    <2>4. HandleInv' /\ UmountInv'
      BY <1>8 DEF ReleaseFilesystem, DropRef, Destroy, TypeOK
    <2> QED
      BY <2>2, <2>3, <2>4
  <1>9. CASE GuardUnmounts
    BY <1>9 DEF GuardUnmounts, TypeOK
  <1>10. CASE GuardDone
    BY <1>10 DEF GuardDone, TypeOK
  <1> QED
    BY <1>1, <1>2, <1>3, <1>4, <1>5, <1>6, <1>7, <1>8, <1>9, <1>10 DEF OwnerStep

(* A call of Filesystem::destroy returns. *)
LEMMA FinishDestroyIInv == IInv /\ FinishDestroy => IInv'
  BY DEF FinishDestroy, IInv, TypeOK, HolderInv, OwnerInv, ThreadInv, HandleInv,
         UmountInv, Joinable, Abandoned

(* An event loop thread: only the drop of its reference can touch the      *)
(* filesystem's owners.                                                     *)
LEMMA LoopIInv == ASSUME IInv, NEW t \in Threads, LoopNext(t) PROVE IInv'
  <1> USE DEF IInv, HolderInv, OwnerInv, ThreadInv, HandleInv, UmountInv,
              Joinable, Abandoned
  <1>1. CASE Receive(t)
    BY <1>1 DEF Receive, LoopStep, TypeOK
  <1>2. CASE ReceiveDestroy(t)
    BY <1>2 DEF ReceiveDestroy, LoopStep, TypeOK
  <1>3. CASE ReceiveFails(t)
    BY <1>3 DEF ReceiveFails, LoopStep, TypeOK
  <1>4. CASE ReceiveDisconnected(t)
    BY <1>4 DEF ReceiveDisconnected, LoopStep, TypeOK
  <1>5. CASE CallbackEnds(t)
    BY <1>5 DEF CallbackEnds, LoopStep, TypeOK
  <1>6. CASE LoopDropsRef(t)
    <2>1. holder' \in BOOLEAN
      BY <1>6, DestroyBoolean DEF LoopDropsRef, DropRef, TypeOK
    <2>2. TypeOK'
      BY <1>6, <2>1 DEF LoopDropsRef, DropRef, Destroy, TypeOK
    <2>3. HolderInv' /\ OwnerInv' /\ ThreadInv'
      BY <1>6 DEF LoopDropsRef, DropRef, Destroy, TypeOK
    <2>4. HandleInv' /\ UmountInv'
      BY <1>6 DEF LoopDropsRef, DropRef, Destroy, TypeOK
    <2> QED
      BY <2>2, <2>3, <2>4
  <1> QED
    BY <1>1, <1>2, <1>3, <1>4, <1>5, <1>6 DEF LoopNext

(* Mount::umount, whoever calls it, and SessionUnmounter::unmount. *)
LEMMA UmountIInv == IInv /\ (UmountStep \/ UnmounterCalls) => IInv'
  <1> SUFFICES ASSUME IInv, UmountStep \/ UnmounterCalls PROVE IInv'
    OBVIOUS
  <1> USE DEF IInv, TypeOK, HolderInv, OwnerInv, ThreadInv, HandleInv, UmountInv,
              Joinable, Abandoned
  <1>1. CASE UmountCheck
    BY <1>1 DEF UmountCheck, ShouldUnmount, UmountReturns
  <1>2. CASE UmountDetaches
    BY <1>2 DEF UmountDetaches, UmountReturns
  <1>3. CASE UmountFails
    BY <1>3 DEF UmountFails, UmountReturns
  <1>4. CASE UnmounterCalls
    BY <1>4 DEF UnmounterCalls, SlotLocked
  <1> QED
    BY <1>1, <1>2, <1>3, <1>4 DEF UmountStep

(* The holder of the BackgroundSession. *)
LEMMA HandleIInv == IInv /\ (HandleUnforced \/ HandleStep) => IInv'
  <1> SUFFICES ASSUME IInv, HandleUnforced \/ HandleStep PROVE IInv'
    OBVIOUS
  <1> USE DEF IInv, TypeOK, HolderInv, OwnerInv, ThreadInv, HandleInv, UmountInv,
              Joinable, Abandoned
  <1>1. CASE HandleDrop
    BY <1>1 DEF HandleDrop, DropHandle, Detach
  <1>2. CASE HandleUmountAndJoin
    BY <1>2 DEF HandleUmountAndJoin
  <1>3. CASE HandleJoin
    BY <1>3 DEF HandleJoin
  <1>4. CASE HandleWaitEnds
    BY <1>4 DEF HandleWaitEnds
  <1>5. CASE HandleWaitTimesOut
    BY <1>5 DEF HandleWaitTimesOut, Detach
  <1>6. CASE HandleJoined
    BY <1>6 DEF HandleJoined
  <1> QED
    BY <1>1, <1>2, <1>3, <1>4, <1>5, <1>6 DEF HandleUnforced, HandleStep

(* A step that changes nothing. *)
LEMMA StutterIInv == IInv /\ UNCHANGED vars => IInv'
  BY DEF vars, IInv, TypeOK, HolderInv, OwnerInv, ThreadInv, HandleInv, UmountInv,
         Joinable, Abandoned

(* IInv holds in every reachable state, for every number of threads. *)
THEOREM Invariance == Spec => []IInv
  <1>1. IInv /\ [Next]_vars => IInv'
    BY KernelIInv, OwnerUnforcedIInv, OwnerStepIInv, FinishDestroyIInv, LoopIInv,
       UmountIInv, HandleIInv, StutterIInv DEF Next, Terminated
  <1> QED
    BY InitIInv, <1>1, PTL DEF Spec

-----------------------------------------------------------------------------
(* The variables keep their types; in particular Filesystem::destroy is     *)
(* called at most once, for every number of event loop threads.             *)
THEOREM TypeCorrect == Spec => []TypeOK
  BY Invariance, PTL DEF IInv

(* Session::run never returns "BUG: must have one refcount for filesystem". *)
THEOREM RefcountCorrect == Spec => []NoRefcountBug
  <1>1. IInv => NoRefcountBug
    BY SoleReference DEF NoRefcountBug
  <1> QED
    BY Invariance, <1>1, PTL

(* A joined BackgroundSession has destroyed its filesystem, unless run()    *)
(* abandoned event loops.                                                   *)
THEOREM JoinCorrect == Spec => []JoinedImpliesDestroyed
  <1>1. IInv => JoinedImpliesDestroyed
    <2> SUFFICES ASSUME IInv, guard = "joined", ~Abandoned PROVE destroys = 1
      BY DEF JoinedImpliesDestroyed
    <2>1. run = "returned" /\ init = "ok"
      BY DEF IInv, TypeOK, HandleInv
    <2>2. refs = {} /\ \A t \in Threads : destroyer # t
      BY <2>1 DEF IInv, TypeOK, OwnerInv, ThreadInv
    <2>3. destroyer = Nobody
      BY <2>1, <2>2 DEF IInv, TypeOK, OwnerInv
    <2> QED
      BY <2>1, <2>2, <2>3 DEF IInv, HolderInv
  <1> QED
    BY Invariance, <1>1, PTL

(* run()'s mount guard unmounts after destroy, or to end event loops that   *)
(* still hold the filesystem.                                               *)
THEOREM GuardCorrect == Spec => []UnmountAfterDestroy
  <1>1. IInv => UnmountAfterDestroy
    <2> SUFFICES ASSUME IInv, run = "guard", mount \in {"run", "local"}, step # "idle",
                        nThreads > 0,
                        \A t \in Threads : t \notin refs /\ destroyer # t
                 PROVE  destroys = 1
      BY DEF UnmountAfterDestroy
    <2>1. destroyer = Nobody
      BY DEF IInv, TypeOK, UmountInv
    <2>2. refs = {}
      BY DEF IInv, TypeOK, OwnerInv
    <2> QED
      BY <2>1, <2>2 DEF IInv, HolderInv
  <1> QED
    BY Invariance, <1>1, PTL

(* With the connection dead and no umount past its check, the replacement   *)
(* at the mountpoint is safe for good.                                      *)
THEOREM ReplacementCorrect == Spec => ReplacementSafe
  <1> DEFINE Quiet == conn = "dead" /\ step # "act" /\ ~clobbered
  <1>1. IInv /\ Quiet /\ [Next]_vars => Quiet'
    <2> SUFFICES ASSUME IInv, Quiet, [Next]_vars PROVE Quiet'
      OBVIOUS
    <2>1. CASE Kernel
      BY <2>1 DEF Kernel, ExternalUnmount, ExternalMount, UseChanges, Abort, KernelTeardown
    <2>2. CASE OwnerUnforced
      BY <2>2 DEF OwnerUnforced, Construct, MountFails, HandshakeInit, HandshakeFails, Run,
                  DropSession, OwnerUnmounts, Spawn, SpawnFails, IInv, OwnerInv
    <2>3. CASE OwnerStep
      BY <2>3 DEF OwnerStep, HandshakeDisconnected, StartRejected, StartFails, StartThread,
                  JoinThread, DestroyFilesystem, DestroyReturned, ReleaseFilesystem,
                  GuardUnmounts, GuardDone
    <2>4. CASE FinishDestroy
      BY <2>4 DEF FinishDestroy
    <2>5. ASSUME NEW t \in Threads, LoopNext(t) PROVE Quiet'
      BY <2>5 DEF LoopNext, Receive, ReceiveDestroy, ReceiveFails, ReceiveDisconnected,
                  CallbackEnds, LoopDropsRef
    <2>6. CASE UmountStep \/ UnmounterCalls
      BY <2>6 DEF UmountStep, UmountCheck, ShouldUnmount, UmountDetaches, UmountFails,
                  UmountReturns, UnmounterCalls
    <2>7. CASE HandleUnforced \/ HandleStep
      BY <2>7 DEF HandleUnforced, HandleDrop, DropHandle, HandleUmountAndJoin, HandleJoin,
                  HandleStep, HandleWaitEnds, HandleWaitTimesOut, HandleJoined
    <2>8. CASE UNCHANGED vars
      BY <2>8 DEF vars
    <2> QED
      BY <2>1, <2>2, <2>3, <2>4, <2>5, <2>6, <2>7, <2>8 DEF Next, Terminated
  <1>2. Quiet => ~clobbered
    OBVIOUS
  <1> QED
    BY Invariance, <1>1, <1>2, PTL DEF Spec, ReplacementSafe

-----------------------------------------------------------------------------
(* A step that touches neither the filesystem's holder nor the callbacks is *)
(* a stuttering step of FilesystemLifecycle.                                *)
LEMMA LifecycleStutter ==
  ASSUME UNCHANGED <<loop, init, holder, destroyer, destroys>>
  PROVE  UNCHANGED Lifecycle!lifecycleVars
  BY DEF Lifecycle!lifecycleVars, LifecyclePhase, InCallback

(* FilesystemHolder::destroy, called by the one who holds the last          *)
(* reference and is not in a callback, is a step of FilesystemLifecycle.    *)
LEMMA LifecycleDestroy ==
  ASSUME IInv, NEW p \in Threads \cup {Owner}, refs = {p},
         p \in Threads => loop[p] \in Ended,
         Destroy(p), UNCHANGED <<loop, init, destroys>>
  PROVE  Lifecycle!LNext \/ UNCHANGED Lifecycle!lifecycleVars
  <1>1. CASE holder
    <2>1. InCallback = {} /\ InCallback' = {}
      BY DEF IInv, HolderInv, InCallback
    <2>2. LifecyclePhase \in {"new", "ready", "failed"}
      BY <1>1 DEF IInv, TypeOK, HolderInv, LifecyclePhase
    <2>3. LifecyclePhase' = "destroying"
      BY <1>1 DEF Destroy, LifecyclePhase
    <2> QED
      BY <2>1, <2>2, <2>3 DEF Lifecycle!LNext, Lifecycle!BeginDestroy
  <1>2. CASE ~holder
    <2>1. holder' = holder /\ destroyer' = destroyer
      BY <1>2, Zenon DEF Destroy, IInv, TypeOK
    <2> QED
      BY <2>1, LifecycleStutter
  <1> QED
    BY <1>1, <1>2

(* Session implements FilesystemLifecycle: init, callbacks and destroy      *)
(* reach the filesystem in the order it may rely on.                        *)
THEOREM Refinement == Spec => RefinesLifecycle
  <1>1. Init => Lifecycle!LInit
    <2> SUFFICES ASSUME Init PROVE LifecyclePhase = "new" /\ InCallback = {}
      BY DEF Lifecycle!LInit
    <2>1. holder
      BY Zenon DEF Init
    <2> QED
      BY <2>1 DEF Init, LifecyclePhase, InCallback
  <1>2. IInv /\ [Next]_vars => [Lifecycle!LNext]_(Lifecycle!lifecycleVars)
    <2> SUFFICES ASSUME IInv, [Next]_vars
                 PROVE  Lifecycle!LNext \/ UNCHANGED Lifecycle!lifecycleVars
      OBVIOUS
    <2>1. CASE Kernel
      BY <2>1, LifecycleStutter DEF Kernel, ExternalUnmount, ExternalMount, UseChanges,
                                    Abort, KernelTeardown
    <2>2. CASE OwnerUnforced
      <3>1. CASE HandshakeInit
        <4>1. LifecyclePhase = "new" /\ LifecyclePhase' \in {"ready", "failed"}
          BY <3>1 DEF HandshakeInit, IInv, HolderInv, OwnerInv, LifecyclePhase
        <4>2. InCallback' = InCallback
          BY <3>1 DEF HandshakeInit, InCallback
        <4> QED
          BY <4>1, <4>2 DEF Lifecycle!LNext, Lifecycle!InitReturns
      <3>2. CASE MountFails
        <4>1. LifecyclePhase = "new" /\ LifecyclePhase' = "discarded"
          BY <3>2 DEF MountFails, IInv, HolderInv, OwnerInv, LifecyclePhase
        <4>2. InCallback' = InCallback
          BY <3>2 DEF MountFails, InCallback
        <4> QED
          BY <4>1, <4>2 DEF Lifecycle!LNext, Lifecycle!Discard
      <3> QED
        BY <2>2, <3>1, <3>2, LifecycleStutter
           DEF OwnerUnforced, Construct, HandshakeFails, Run, DropSession, OwnerUnmounts,
               Spawn, SpawnFails
    <2>3. CASE OwnerStep
      <3>1. ASSUME NEW t \in Threads, StartThread(t)
            PROVE  UNCHANGED Lifecycle!lifecycleVars
        <4>1. InCallback' = InCallback
          BY <3>1 DEF StartThread, Spawned, IInv, TypeOK, InCallback
        <4>2. LifecyclePhase' = LifecyclePhase
          BY <3>1 DEF StartThread, LifecyclePhase
        <4> QED
          BY <4>1, <4>2 DEF Lifecycle!lifecycleVars
      <3>2. CASE DestroyFilesystem
        <4> HIDE DEF Owner
        <4>1. refs = {Owner}
          BY <3>2, SoleReference DEF DestroyFilesystem
        <4>2. Destroy(Owner) /\ UNCHANGED <<loop, init, destroys>>
          BY <3>2, <4>1 DEF DestroyFilesystem
        <4>3. Owner \in Threads => loop[Owner] \in Ended
          BY DEF Owner
        <4> QED
          BY <4>1, <4>2, <4>3, LifecycleDestroy
      <3>3. CASE ReleaseFilesystem
        <4> HIDE DEF Owner
        <4>1. CASE refs = {Owner}
          <5>1. Destroy(Owner) /\ UNCHANGED <<loop, init, destroys>>
            BY <3>3, <4>1 DEF ReleaseFilesystem, DropRef
          <5>2. Owner \in Threads => loop[Owner] \in Ended
            BY DEF Owner
          <5> QED
            BY <4>1, <5>1, <5>2, LifecycleDestroy
        <4>2. CASE refs # {Owner}
          BY <3>3, <4>2, LifecycleStutter DEF ReleaseFilesystem, DropRef
        <4> QED
          BY <4>1, <4>2
      <3> QED
        BY <2>3, <3>1, <3>2, <3>3, LifecycleStutter
           DEF OwnerStep, HandshakeDisconnected, StartRejected, StartFails, JoinThread,
               DestroyReturned, GuardUnmounts, GuardDone
    <2>4. CASE FinishDestroy
      <3>1. LifecyclePhase = "destroying" /\ LifecyclePhase' = "destroyed"
        BY <2>4 DEF FinishDestroy, IInv, TypeOK, LifecyclePhase
      <3>2. InCallback' = InCallback
        BY <2>4 DEF FinishDestroy, InCallback
      <3> QED
        BY <3>1, <3>2 DEF Lifecycle!LNext, Lifecycle!EndDestroy
    <2>5. ASSUME NEW t \in Threads, LoopNext(t)
          PROVE  Lifecycle!LNext \/ UNCHANGED Lifecycle!lifecycleVars
      <3>1. CASE Receive(t)
        <4>1. LifecyclePhase = "ready" /\ LifecyclePhase' = LifecyclePhase
          BY <3>1 DEF Receive, LoopStep, IInv, TypeOK, HolderInv, ThreadInv, LifecyclePhase
        <4>2. t \notin InCallback /\ InCallback' = InCallback \cup {t}
          BY <3>1 DEF Receive, LoopStep, IInv, TypeOK, InCallback
        <4> QED
          BY <4>1, <4>2 DEF Lifecycle!LNext, Lifecycle!BeginCallback
      <3>2. CASE ReceiveDestroy(t) \/ ReceiveFails(t) \/ ReceiveDisconnected(t)
        <4>1. LifecyclePhase' = LifecyclePhase
          BY <3>2 DEF ReceiveDestroy, ReceiveFails, ReceiveDisconnected, LifecyclePhase
        <4>2. InCallback' = InCallback
          BY <3>2 DEF ReceiveDestroy, ReceiveFails, ReceiveDisconnected, LoopStep,
                      IInv, TypeOK, InCallback
        <4> QED
          BY <4>1, <4>2 DEF Lifecycle!lifecycleVars
      <3>3. CASE CallbackEnds(t)
        <4>1. LifecyclePhase' = LifecyclePhase
          BY <3>3 DEF CallbackEnds, LifecyclePhase
        <4>2. t \in InCallback /\ InCallback' = InCallback \ {t}
          BY <3>3 DEF CallbackEnds, LoopStep, IInv, TypeOK, InCallback
        <4> QED
          BY <4>1, <4>2 DEF Lifecycle!LNext, Lifecycle!EndCallback
      <3>4. CASE LoopDropsRef(t)
        <4>1. CASE refs = {t}
          BY <3>4, <4>1, LifecycleDestroy DEF LoopDropsRef, DropRef
        <4>2. CASE refs # {t}
          BY <3>4, <4>2, LifecycleStutter DEF LoopDropsRef, DropRef
        <4> QED
          BY <4>1, <4>2
      <3> QED
        BY <2>5, <3>1, <3>2, <3>3, <3>4 DEF LoopNext
    <2>6. CASE UmountStep \/ UnmounterCalls
      BY <2>6, LifecycleStutter DEF UmountStep, UmountCheck, UmountDetaches, UmountFails,
                                    UnmounterCalls
    <2>7. CASE HandleUnforced \/ HandleStep
      BY <2>7, LifecycleStutter
         DEF HandleUnforced, HandleDrop, HandleUmountAndJoin, HandleJoin,
             HandleStep, HandleWaitEnds, HandleWaitTimesOut, HandleJoined
    <2>8. CASE UNCHANGED vars
      BY <2>8, LifecycleStutter DEF vars
    <2> QED
      BY <2>1, <2>2, <2>3, <2>4, <2>5, <2>6, <2>7, <2>8 DEF Next, Terminated
  <1> QED
    BY Invariance, <1>1, <1>2, PTL DEF Spec, RefinesLifecycle, Lifecycle!LSpec
==============================================================================
