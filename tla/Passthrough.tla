---------------------------- MODULE Passthrough ----------------------------
(***************************************************************************)
(* File passthrough: BackingId, which owns an id the kernel gave out for a *)
(* backing file and closes it on drop through a Weak reference to the      *)
(* device it was made on; and BackingCache of examples/passthrough.rs and  *)
(* passthrough_fork.rs, which shares one BackingId among the handles of an *)
(* inode.  Several event loops serve open and release; the cache is behind *)
(* a mutex, so get_or and put are steps, but a callback keeps an Arc of    *)
(* its own until it returns.                                               *)
(***************************************************************************)
EXTENDS Integers, Sequences, FiniteSets

CONSTANTS Loops,   \* event loops; 0 is the one on the session's own device
          Inodes,  \* files that are passed through
          MaxIds,  \* bound: ids the kernel gives out
          MaxFh    \* bound: file handles

ASSUME PassthroughAssumption == 0 \in Loops /\ MaxIds \in Nat /\ MaxFh \in Nat

VARIABLES clone_fd,   \* Config::clone_fd
          running,    \* the loops that have not ended
          kernel,     \* ids that are open in the kernel
          bound,      \* of each id given out so far, the device it is bound to
          by_handle,  \* file handle -> the id it holds an Arc of
          by_inode,   \* inode -> the id of a Weak, or 0
          next_fh,
          callback,   \* loop -> the open it is in
          opened,     \* the files the kernel has open: [ino, fh, id]
          released,   \* handles whose RELEASE is on its way
          owned,      \* ids in a BackingId outside the cache
          raw         \* ids that into_raw gave away

backingVars == <<clone_fd, running, kernel, bound, by_handle, by_inode, next_fh, callback,
                 opened, released, owned, raw>>

NoCallback == [at |-> "none", ino |-> 0, fh |-> 0, id |-> 0]
Device(l) == IF clone_fd THEN l ELSE 0

(* The session's Mount keeps the device of loop 0 open.                    *)
OpenDevices == {0} \cup {Device(l) : l \in running}

(* The BackingId of an id is in an Arc, of handles or of callbacks.        *)
Held(handles, callbacks, id) ==
    \/ \E fh \in DOMAIN handles : handles[fh] = id
    \/ \E l \in Loops : callbacks[l].id = id
Live(id) == Held(by_handle, callback, id)

BackingInit ==
    /\ clone_fd \in BOOLEAN
    /\ running = Loops /\ kernel = {} /\ bound = <<>> /\ by_handle = <<>>
    /\ by_inode = [i \in Inodes |-> 0] /\ next_fh = 0
    /\ callback = [l \in Loops |-> NoCallback]
    /\ opened = {} /\ released = {} /\ owned = {} /\ raw = {}

---------------------------------------------------------------------------
(* BackingId                                                               *)

(* create, through open_backing of a reply on the loop's device; or        *)
(* wrap_raw of what passthrough_fork's server made with create_raw.        *)
create(l) ==
    /\ Len(bound) < MaxIds
    /\ bound' = Append(bound, Device(l))
    /\ kernel' = kernel \cup {Len(bound) + 1}

(* Drop: an id is closed through the device it is bound to, if that is     *)
(* still open.                                                             *)
Drop(ids) == kernel' = kernel \ {id \in ids : bound[id] \in OpenDevices}

(* Arcs go, and with the last one the BackingId.                           *)
DropArcs(handles, callbacks) ==
    /\ by_handle' = handles /\ callback' = callbacks
    /\ Drop({id \in kernel : Live(id) /\ ~Held(handles, callbacks, id)})

OpenBacking(l) ==
    /\ l \in running
    /\ create(l)
    /\ owned' = owned \cup {Len(bound')}
    /\ UNCHANGED <<clone_fd, running, by_handle, by_inode, next_fh, callback, opened, released, raw>>

into_raw(id) ==
    /\ id \in owned
    /\ owned' = owned \ {id} /\ raw' = raw \cup {id}
    /\ UNCHANGED <<clone_fd, running, kernel, bound, by_handle, by_inode, next_fh, callback,
                   opened, released>>

(* wrap_raw, through wrap_backing of a reply: the id is ours again, bound  *)
(* to the device of that reply.                                            *)
wrap_raw(l, id) ==
    /\ l \in running /\ id \in raw
    /\ raw' = raw \ {id} /\ owned' = owned \cup {id}
    /\ bound' = [bound EXCEPT ![id] = Device(l)]
    /\ UNCHANGED <<clone_fd, running, kernel, by_handle, by_inode, next_fh, callback, opened, released>>

DropOwned(id) ==
    /\ id \in owned
    /\ owned' = owned \ {id}
    /\ Drop({id})
    /\ UNCHANGED <<clone_fd, running, bound, by_handle, by_inode, next_fh, callback, opened,
                   released, raw>>

---------------------------------------------------------------------------
(* The filesystem                                                          *)

\* Mutant of get_or: the handle is left without an Arc of its own.
get_orUnheld(l, ino, fh, id) ==
    /\ by_inode' = [by_inode EXCEPT ![ino] = id]
    /\ callback' = [callback EXCEPT ![l] = [at |-> "got", ino |-> ino, fh |-> fh, id |-> id]]
    /\ UNCHANGED by_handle

(* BackingCache::get_or, once there is an id                               *)
get_or(l, ino, fh, id) ==
    /\ by_inode' = [by_inode EXCEPT ![ino] = id]
    /\ by_handle' = [h \in DOMAIN by_handle \cup {fh} |-> IF h = fh THEN id ELSE by_handle[h]]
    /\ callback' = [callback EXCEPT ![l] = [at |-> "got", ino |-> ino, fh |-> fh, id |-> id]]

(* open: an id is shared as long as someone has it; otherwise it is made.  *)
(* A failure to make it is unwrapped, and ends the loop.                   *)
Open(l, ino) ==
    /\ l \in running /\ callback[l] = NoCallback /\ next_fh < MaxFh
    /\ next_fh' = next_fh + 1
    /\ IF by_inode[ino] # 0 /\ Live(by_inode[ino])
       THEN /\ get_or(l, ino, next_fh', by_inode[ino])
            /\ UNCHANGED <<kernel, bound, running>>
       ELSE \/ /\ create(l)
               /\ get_or(l, ino, next_fh', Len(bound'))
               /\ UNCHANGED running
            \/ /\ running' = running \ {l}
               /\ UNCHANGED <<kernel, bound, by_handle, by_inode, callback>>
    /\ UNCHANGED <<clone_fd, opened, released, owned, raw>>

(* ReplyOpen::opened_passthrough; the kernel refuses an id it does not     *)
(* have.                                                                   *)
opened_passthrough(l) ==
    /\ callback[l].at = "got"
    /\ callback' = [callback EXCEPT ![l].at = "replied"]
    /\ opened' = opened \cup {[ino |-> callback[l].ino, fh |-> callback[l].fh, id |-> id] :
                                  id \in {callback[l].id} \cap kernel}
    /\ UNCHANGED <<clone_fd, running, kernel, bound, by_handle, by_inode, next_fh, released,
                   owned, raw>>

(* The callback returns, and its Arc goes.                                 *)
OpenReturns(l) ==
    /\ callback[l].at = "replied"
    /\ DropArcs(by_handle, [callback EXCEPT ![l] = NoCallback])
    /\ UNCHANGED <<clone_fd, running, bound, by_inode, next_fh, opened, released, owned, raw>>

(* The kernel closes a file; its RELEASE may take its time.                *)
Close(file) ==
    /\ file \in opened
    /\ opened' = opened \ {file} /\ released' = released \cup {file.fh}
    /\ UNCHANGED <<clone_fd, running, kernel, bound, by_handle, by_inode, next_fh, callback,
                   owned, raw>>

(* release: BackingCache::put                                              *)
Release(l, fh) ==
    /\ l \in running /\ callback[l] = NoCallback /\ fh \in released
    /\ released' = released \ {fh}
    /\ DropArcs([h \in DOMAIN by_handle \ {fh} |-> by_handle[h]], callback)
    /\ UNCHANGED <<clone_fd, running, bound, by_inode, next_fh, opened, owned, raw>>

(* A loop ends between two requests, by a panic or an error of the device. *)
LoopEnds(l) ==
    /\ l \in running /\ callback[l] = NoCallback
    /\ running' = running \ {l}
    /\ UNCHANGED <<clone_fd, kernel, bound, by_handle, by_inode, next_fh, callback, opened,
                   released, owned, raw>>

BackingNext ==
    \/ \E l \in Loops :
          \/ OpenBacking(l) \/ opened_passthrough(l) \/ OpenReturns(l) \/ LoopEnds(l)
          \/ \E ino \in Inodes : Open(l, ino)
          \/ \E fh \in released : Release(l, fh)
          \/ \E id \in raw : wrap_raw(l, id)
    \/ \E id \in owned : into_raw(id) \/ DropOwned(id)
    \/ \E file \in opened : Close(file)

---------------------------------------------------------------------------
(* BackingId and BackingCache keep the kernel's ids: an id that someone    *)
(* has, as a BackingId, as a raw id or through a handle that is open, is   *)
(* open in the kernel, so nothing is closed early or twice; the files of   *)
(* an inode that are open together have one id, which the kernel demands;  *)
(* and an id nobody has any more was closed, unless the device it was      *)
(* bound to had ended (its Weak no longer upgrades).                       *)
InUse == owned \cup raw \cup {id \in DOMAIN bound : Live(id)}
BackingsSound ==
    /\ InUse \subseteq kernel
    /\ \A file \in opened : file.id \in kernel
    /\ \A f, g \in opened : f.ino = g.ino => f.id = g.id
    /\ \A id \in kernel \ InUse : bound[id] \notin OpenDevices

=============================================================================
