------------------------------- MODULE Notify -------------------------------
(***************************************************************************)
(* Notifications: what Notifier sends to which kernel, and how             *)
(* examples/notify_inval_inode.rs keeps the kernel's cache of a file whose *)
(* content its main thread replaces.  The kernel caches what a lookup      *)
(* answered for ever, so it must be told; the filesystem counts the        *)
(* kernel's lookups, and notifies while there are any.  What was read      *)
(* before the content was replaced is "stale", wherever it has got to.     *)
(***************************************************************************)
EXTENDS Integers, FiniteSets

CONSTANTS OurMinor,      \* FUSE_KERNEL_MINOR_VERSION
          EpochMinor,    \* FUSE_NOTIFY_INC_EPOCH_VERSION
          KernelMinors,  \* minor versions kernels offer
          Lookups,       \* lookups that may be in flight together
          MaxLookups     \* bound: lookups the kernel counts

ASSUME NotifyAssumption ==
    /\ OurMinor \in Nat /\ EpochMinor \in Nat /\ KernelMinors \subseteq Nat
    /\ IsFiniteSet(Lookups)

VARIABLES notification,      \* what the process was started to send: "store" (--notify-store),
                             \* "inval_inode" or, with --no-notify, "none"
          abi, expire_only,  \* what the kernel offered at INIT
          last,              \* the last notification: [op, effect]
          main,              \* the main thread: "sleeps", "replaced", "notifies"
          lookup_cnt,        \* ClockFS::lookup_cnt
          lookup,            \* lookup in flight -> "none", "asked", "counted", "fresh", "stale"
          cached,            \* the kernel's cache: "none", "fresh", "stale"
          nlookup,           \* lookups the kernel counts
          forgets            \* those of a FORGET on its way

notifyVars ==
    <<notification, abi, expire_only, last, main, lookup_cnt, lookup, cached, nlookup, forgets>>

NotifyInit ==
    /\ notification \in {"none", "store", "inval_inode"}
    /\ abi \in KernelMinors /\ expire_only \in BOOLEAN
    /\ last = [op |-> "none", effect |-> "refused"]
    /\ main = "sleeps" /\ lookup_cnt = 0 /\ lookup = [r \in Lookups |-> "none"]
    /\ cached = "none" /\ nlookup = 0 /\ forgets = 0

---------------------------------------------------------------------------
(* Notifier                                                                *)

negotiated_abi == IF abi < OurMinor THEN abi ELSE OurMinor

\* Mutant of Gate: expire_entry is sent to every kernel.
GateEpoch(op) == op = "inc_epoch" => negotiated_abi >= EpochMinor

(* expire_entry and inc_epoch are refused with ENOTSUP; nothing else is.   *)
Gate(op) ==
    /\ op = "expire_entry" => expire_only
    /\ op = "inc_epoch" => negotiated_abi >= EpochMinor

(* What a kernel makes of a notification: one that does not know           *)
(* FUSE_EXPIRE_ONLY reads it as padding, and an unknown code is an error.  *)
KernelDoes(op) ==
    CASE op = "expire_entry" /\ ~expire_only         -> "inval_entry"
      [] op = "inc_epoch" /\ abi < EpochMinor        -> "rejected"
      [] OTHER                                       -> op

(* The write of a notification may fail: the kernel does not know the      *)
(* inode any more, or has no memory.                                       *)
send(op) ==
    \E effect \in IF Gate(op) THEN {KernelDoes(op), "failed"} ELSE {"refused"} :
        last' = [op |-> op, effect |-> effect]

Operations == {"poll", "inval_entry", "expire_entry", "inc_epoch", "inval_inode", "store", "delete"}

(* Another thread of the process uses a Notifier.  Those of this file's    *)
(* cache are the main thread's.                                            *)
NotifyOther(op) ==
    /\ op \notin {"inval_inode", "store"}
    /\ send(op)
    /\ UNCHANGED <<notification, abi, expire_only, main, lookup_cnt, lookup, cached, nlookup, forgets>>

---------------------------------------------------------------------------
(* ClockFS                                                                 *)

(* lookup: the lookup is counted, then the file's size read.               *)
Count(r) ==
    /\ lookup[r] = "asked"
    /\ lookup_cnt' = lookup_cnt + 1
    /\ lookup' = [lookup EXCEPT ![r] = "counted"]
    /\ UNCHANGED <<notification, abi, expire_only, last, main, cached, nlookup, forgets>>

Stat(r) ==
    /\ lookup[r] = "counted"
    /\ lookup' = [lookup EXCEPT ![r] = "fresh"]
    /\ UNCHANGED <<notification, abi, expire_only, last, main, lookup_cnt, cached, nlookup, forgets>>

Forget ==
    /\ forgets # 0
    /\ lookup_cnt' = lookup_cnt - forgets /\ forgets' = 0
    /\ UNCHANGED <<notification, abi, expire_only, last, main, lookup, cached, nlookup>>

Stale(mark) == IF mark = "fresh" THEN "stale" ELSE mark

(* main: the content is replaced under its mutex; then the count read; and *)
(* if there are lookups the inode is invalidated or its new content        *)
(* stored.  That this failed is a warning to the terminal and no more.     *)
Replace ==
    /\ main = "sleeps" /\ main' = "replaced"
    /\ cached' = Stale(cached)
    /\ lookup' = [r \in Lookups |-> Stale(lookup[r])]
    /\ UNCHANGED <<notification, abi, expire_only, last, lookup_cnt, nlookup, forgets>>

\* Mutant of Check: a single lookup is taken for none.
CheckOffByOne ==
    /\ main = "replaced"
    /\ main' = IF notification # "none" /\ lookup_cnt > 1 THEN "notifies" ELSE "sleeps"
    /\ UNCHANGED <<notification, abi, expire_only, last, lookup_cnt, lookup, cached, nlookup, forgets>>

Check ==
    /\ main = "replaced"
    /\ main' = IF notification # "none" /\ lookup_cnt # 0 THEN "notifies" ELSE "sleeps"
    /\ UNCHANGED <<notification, abi, expire_only, last, lookup_cnt, lookup, cached, nlookup, forgets>>

Invalidate ==
    /\ main = "notifies" /\ main' = "sleeps"
    /\ send(notification)
    /\ cached' = CASE last'.effect = "failed" -> cached
                   [] last'.effect = "store" /\ cached # "none" -> "fresh"
                   [] OTHER -> "none"
    /\ UNCHANGED <<notification, abi, expire_only, lookup_cnt, lookup, nlookup, forgets>>

Main == Replace \/ Check \/ Invalidate

---------------------------------------------------------------------------
(* The kernel                                                              *)

Ask(r) ==
    /\ lookup[r] = "none" /\ lookup_cnt < MaxLookups
    /\ lookup' = [lookup EXCEPT ![r] = "asked"]
    /\ UNCHANGED <<notification, abi, expire_only, last, main, lookup_cnt, cached, nlookup, forgets>>

Answered(r) ==
    /\ lookup[r] \in {"fresh", "stale"}
    /\ cached' = lookup[r] /\ nlookup' = nlookup + 1
    /\ lookup' = [lookup EXCEPT ![r] = "none"]
    /\ UNCHANGED <<notification, abi, expire_only, last, main, lookup_cnt, forgets>>

Evict ==
    /\ nlookup # 0 /\ forgets = 0
    /\ forgets' = nlookup /\ nlookup' = 0 /\ cached' = "none"
    /\ UNCHANGED <<notification, abi, expire_only, last, main, lookup_cnt, lookup>>

NotifyNext ==
    \/ Main \/ Forget \/ Evict
    \/ \E r \in Lookups : Ask(r) \/ Count(r) \/ Stat(r) \/ Answered(r)
    \/ \E op \in Operations : NotifyOther(op)

---------------------------------------------------------------------------
(* A notification has the effect its caller means on the kernel at hand,   *)
(* fails, or is refused because that kernel, or the version agreed on,     *)
(* does not have it: an expiry never turns into an invalidation, which would detach *)
(* what is mounted below.                                                  *)
NotifiedAsMeant ==
    /\ last.effect \in {last.op, "refused", "failed"}
    /\ last.effect = "refused" /\ last.op = "expire_entry" => ~expire_only
    /\ last.effect = "refused" /\ last.op = "inc_epoch" => abi < EpochMinor \/ OurMinor < EpochMinor

(* No more is forgotten than was counted, which forget asserts.            *)
ForgetsCounted == forgets <= lookup_cnt

(* What the kernel has cached of replaced content it loses in the end,     *)
(* even when a notification overtakes the answer that brings the old       *)
(* content to the cache, if notifications are on and unless one fails; and *)
(* no more is forgotten than was counted.                                  *)
NotificationFailed == last.effect = "failed" /\ last.op \in {"store", "inval_inode"}
StaleDropped ==
    /\ []ForgetsCounted
    /\ notification # "none" /\ cached = "stale" ~> cached # "stale" \/ NotificationFailed

=============================================================================
