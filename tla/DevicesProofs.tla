--------------------------- MODULE DevicesProofs ---------------------------
(***************************************************************************)
(* What holds of notifications for any kernel, and of the ids of backing   *)
(* files for any number of event loops, inodes, ids and handles, whatever  *)
(* else the process does with its device.                                  *)
(***************************************************************************)
EXTENDS Devices, SequenceTheorems, FiniteSetTheorems, TLAPS

(* What the process was started with and what INIT offered does not        *)
(* change, and the gates decide on it.                                     *)
OfferInv ==
    /\ notification \in {"none", "store", "inval_inode"}
    /\ abi \in Nat /\ expire_only \in BOOLEAN
NotifyInv == OfferInv /\ NotifiedAsMeant

(* What the gate lets through the kernel knows, and what it stops the      *)
(* kernel or fuser does not.                                               *)
LEMMA SendIsMeant ==
    ASSUME OfferInv, NEW op, op # "refused", send(op), UNCHANGED <<abi, expire_only>>
    PROVE  NotifiedAsMeant'
<1>1. OurMinor \in Nat /\ EpochMinor \in Nat /\ abi \in Nat
  BY NotifyAssumption DEF OfferInv
<1>2. abi' = abi /\ expire_only' = expire_only
  OBVIOUS
<1>3. /\ last'.op = op
      /\ last'.effect \in IF Gate(op) THEN {KernelDoes(op), "failed"} ELSE {"refused"}
  BY DEF send
<1>4. CASE Gate(op)
  <2>1. KernelDoes(op) = op
    BY <1>1, <1>4 DEF Gate, KernelDoes, negotiated_abi
  <2> QED
    BY <1>3, <1>4, <2>1 DEF NotifiedAsMeant
<1>5. CASE ~Gate(op)
  <2>1. \/ op = "expire_entry" /\ ~expire_only
        \/ op = "inc_epoch" /\ (abi < EpochMinor \/ OurMinor < EpochMinor)
    BY <1>1, <1>5 DEF Gate, negotiated_abi
  <2> QED
    BY <1>2, <1>3, <1>5, <2>1 DEF NotifiedAsMeant
<1> QED
  BY <1>4, <1>5

(* Every step of the clock, of its kernel and of other threads keeps what  *)
(* was offered; it leaves the last notification alone or sends one.        *)
LEMMA ClockSteps ==
    ASSUME OfferInv, NotifyNext
    PROVE  /\ UNCHANGED <<notification, abi, expire_only>>
           /\ UNCHANGED last \/ \E op \in Operations \cup {"none"} : send(op)
<1>1. CASE Main
  <2>1. CASE Replace
    BY <2>1 DEF Replace
  <2>2. CASE Check
    BY <2>2 DEF Check
  <2>3. CASE Invalidate
    <3>1. send(notification) /\ notification \in Operations \cup {"none"}
      BY <2>3 DEF Invalidate, OfferInv, Operations
    <3> QED
      BY <2>3, <3>1 DEF Invalidate
  <2> QED
    BY <1>1, <2>1, <2>2, <2>3 DEF Main
<1>2. CASE Forget
  BY <1>2 DEF Forget
<1>3. CASE Evict
  BY <1>3 DEF Evict
<1>4. ASSUME NEW r \in Lookups, Ask(r) \/ Count(r) \/ Stat(r) \/ Answered(r)
      PROVE  UNCHANGED <<notification, abi, expire_only, last>>
  BY <1>4 DEF Ask, Count, Stat, Answered
<1>5. ASSUME NEW op \in Operations, NotifyOther(op)
      PROVE  UNCHANGED <<notification, abi, expire_only>> /\ send(op)
  BY <1>5 DEF NotifyOther
<1> QED
  BY <1>1, <1>2, <1>3, <1>4, <1>5 DEF NotifyNext

LEMMA NotifyInit_Inv ==
    Init => NotifyInv
<1> SUFFICES ASSUME Init PROVE NotifyInv
  OBVIOUS
<1>1. NotifyInit
  BY DEF Init
<1>2. OfferInv
  BY <1>1, NotifyAssumption DEF NotifyInit, OfferInv
<1>3. NotifiedAsMeant
  BY <1>1 DEF NotifyInit, NotifiedAsMeant
<1> QED
  BY <1>2, <1>3 DEF NotifyInv

LEMMA NotifyStep ==
    NotifyInv /\ [Next]_vars => NotifyInv'
<1> SUFFICES ASSUME NotifyInv, [Next]_vars PROVE NotifyInv'
  OBVIOUS
<1>1. OfferInv /\ NotifiedAsMeant
  BY DEF NotifyInv
<1>2. ASSUME UNCHANGED <<notification, abi, expire_only, last>>
      PROVE  NotifyInv'
  BY <1>1, <1>2 DEF NotifyInv, OfferInv, NotifiedAsMeant
<1>3. CASE RunsClock
  <2>1. NotifyNext
    BY <1>3 DEF RunsClock
  <2>2. ASSUME NEW op \in Operations \cup {"none"}, send(op)
        PROVE  NotifiedAsMeant'
    <3>1. op # "refused"
      BY DEF Operations
    <3> QED
      BY <1>1, <2>1, <2>2, <3>1, ClockSteps, SendIsMeant
  <2> QED
    BY <1>1, <1>2, <2>1, <2>2, ClockSteps DEF NotifyInv, OfferInv
<1>4. CASE RunsPoll \/ RunsPassthrough
  BY <1>2, <1>4 DEF RunsPoll, RunsPassthrough, notifyVars
<1>5. CASE UNCHANGED vars
  BY <1>2, <1>5 DEF vars, notifyVars
<1> QED
  BY <1>3, <1>4, <1>5 DEF Next

(* The gates of Notifier are right for every kernel, every version of      *)
(* fuser and every version in which epochs were introduced: an expiry is   *)
(* never read as an invalidation, no unknown code is sent, and nothing is  *)
(* refused that both sides have, though the write itself may fail.         *)
THEOREM NotificationsMeant ==
    Spec => []NotifiedAsMeant
<1>1. NotifyInv => NotifiedAsMeant
  BY DEF NotifyInv
<1> QED
  BY <1>1, NotifyInit_Inv, NotifyStep, PTL DEF Spec

---------------------------------------------------------------------------
(* The lookups that ClockFS has counted are those on their way to the      *)
(* kernel, those the kernel counts and those on their way back.            *)

Counted == {r \in Lookups : lookup[r] \in {"counted", "fresh", "stale"}}
LookupsAccounted ==
    /\ lookup \in [Lookups -> {"none", "asked", "counted", "fresh", "stale"}]
    /\ lookup_cnt \in Int /\ nlookup \in Nat /\ forgets \in Nat
    /\ lookup_cnt = Cardinality(Counted) + nlookup + forgets

LEMMA CountedFinite == IsFiniteSet(Counted) /\ Cardinality(Counted) \in Nat
  BY NotifyAssumption, FS_Subset, FS_CardinalityType DEF Counted

(* A step that leaves the counts changes no lookup's being counted.        *)
LEMMA CountsKept ==
    ASSUME LookupsAccounted, UNCHANGED <<lookup_cnt, nlookup, forgets>>,
           lookup' \in [Lookups -> {"none", "asked", "counted", "fresh", "stale"}], Counted' = Counted
    PROVE  LookupsAccounted'
  BY DEF LookupsAccounted

LEMMA LookupStep ==
    ASSUME LookupsAccounted, NEW r \in Lookups, Ask(r) \/ Count(r) \/ Stat(r) \/ Answered(r)
    PROVE  LookupsAccounted'
<1>0. lookup \in [Lookups -> {"none", "asked", "counted", "fresh", "stale"}]
  BY DEF LookupsAccounted
<1>1. CASE Ask(r)
  <2>1. lookup' = [lookup EXCEPT ![r] = "asked"] /\ lookup[r] = "none"
        /\ UNCHANGED <<lookup_cnt, nlookup, forgets>>
    BY <1>1 DEF Ask
  <2>2. Counted' = Counted
    BY <1>0, <2>1 DEF Counted
  <2> QED
    BY <1>0, <2>1, <2>2, CountsKept
<1>2. CASE Stat(r)
  <2>1. lookup' = [lookup EXCEPT ![r] = "fresh"] /\ lookup[r] = "counted"
        /\ UNCHANGED <<lookup_cnt, nlookup, forgets>>
    BY <1>2 DEF Stat
  <2>2. Counted' = Counted
    BY <1>0, <2>1 DEF Counted
  <2> QED
    BY <1>0, <2>1, <2>2, CountsKept
<1>3. CASE Count(r)
  <2>1. lookup' = [lookup EXCEPT ![r] = "counted"] /\ lookup[r] = "asked"
        /\ lookup_cnt' = lookup_cnt + 1 /\ UNCHANGED <<nlookup, forgets>>
    BY <1>3 DEF Count
  <2>2. Counted' = Counted \cup {r} /\ r \notin Counted
    BY <1>0, <2>1 DEF Counted
  <2>3. Cardinality(Counted') = Cardinality(Counted) + 1
    BY <2>2, CountedFinite, FS_AddElement
  <2> QED
    BY <1>0, <2>1, <2>3, CountedFinite DEF LookupsAccounted
<1>4. CASE Answered(r)
  <2>1. lookup' = [lookup EXCEPT ![r] = "none"] /\ lookup[r] \in {"fresh", "stale"}
        /\ nlookup' = nlookup + 1 /\ UNCHANGED <<lookup_cnt, forgets>>
    BY <1>4 DEF Answered
  <2>2. Counted' = Counted \ {r} /\ r \in Counted
    BY <1>0, <2>1 DEF Counted
  <2>3. Cardinality(Counted') = Cardinality(Counted) - 1
    BY <2>2, CountedFinite, FS_RemoveElement
  <2> QED
    BY <1>0, <2>1, <2>3, CountedFinite DEF LookupsAccounted
<1> QED
  BY <1>1, <1>2, <1>3, <1>4

LEMMA AccountStep == LookupsAccounted /\ [Next]_vars => LookupsAccounted'
<1> SUFFICES ASSUME LookupsAccounted, [Next]_vars PROVE LookupsAccounted'
  OBVIOUS
<1>0. lookup \in [Lookups -> {"none", "asked", "counted", "fresh", "stale"}]
  BY DEF LookupsAccounted
<1>1. ASSUME UNCHANGED <<lookup, lookup_cnt, nlookup, forgets>> PROVE LookupsAccounted'
  BY <1>1 DEF LookupsAccounted, Counted
<1>2. CASE RunsPoll \/ RunsPassthrough \/ UNCHANGED vars
  BY <1>1, <1>2 DEF RunsPoll, RunsPassthrough, vars, notifyVars
<1>3. CASE RunsClock
  <2>1. CASE Replace
    <3>1. lookup' = [r \in Lookups |-> Stale(lookup[r])] /\ UNCHANGED <<lookup_cnt, nlookup, forgets>>
      BY <2>1 DEF Replace
    <3>2. lookup' \in [Lookups -> {"none", "asked", "counted", "fresh", "stale"}]
          /\ Counted' = Counted
      BY <1>0, <3>1 DEF Counted, Stale
    <3> QED
      BY <3>1, <3>2, CountsKept
  <2>2. CASE Check \/ Invalidate \/ \E op : NotifyOther(op)
    BY <1>1, <2>2 DEF Check, Invalidate, NotifyOther
  <2>3. CASE Forget
    <3>1. lookup_cnt' = lookup_cnt - forgets /\ forgets' = 0 /\ UNCHANGED <<lookup, nlookup>>
      BY <2>3 DEF Forget
    <3>2. Counted' = Counted
      BY <3>1 DEF Counted
    <3> QED
      BY <3>1, <3>2, CountedFinite DEF LookupsAccounted
  <2>4. CASE Evict
    <3>1. forgets = 0 /\ forgets' = nlookup /\ nlookup' = 0 /\ UNCHANGED <<lookup, lookup_cnt>>
      BY <2>4 DEF Evict
    <3>2. Counted' = Counted
      BY <3>1 DEF Counted
    <3> QED
      BY <3>1, <3>2, CountedFinite DEF LookupsAccounted
  <2>5. NotifyNext
    BY <1>3 DEF RunsClock
  <2> QED
    BY <2>1, <2>2, <2>3, <2>4, <2>5, LookupStep DEF NotifyNext, Main
<1> QED
  BY <1>2, <1>3 DEF Next

(* forget never takes more from lookup_cnt than lookup has added, however  *)
(* many lookups are in flight: its assertion cannot fail.                  *)
THEOREM ForgetsCorrect == Spec => []ForgetsCounted
<1>1. Init => LookupsAccounted
  <2> SUFFICES ASSUME Init PROVE LookupsAccounted
    OBVIOUS
  <2>1. /\ lookup = [r \in Lookups |-> "none"] /\ lookup_cnt = 0 /\ nlookup = 0 /\ forgets = 0
    BY DEF Init, NotifyInit
  <2>2. Counted = {}
    BY <2>1 DEF Counted
  <2> QED
    BY <2>1, <2>2, FS_EmptySet DEF LookupsAccounted
<1>2. LookupsAccounted => ForgetsCounted
  BY CountedFinite DEF LookupsAccounted, ForgetsCounted
<1> QED
  BY <1>1, <1>2, AccountStep, PTL DEF Spec

---------------------------------------------------------------------------
(* Passthrough.  BackingsSound speaks of ids; that it goes on holding      *)
(* rests on who keeps the Arcs: the handle of an open that is being        *)
(* answered or that the kernel has, until its RELEASE is served, and every *)
(* one on the id that the cache has for its inode.                         *)

Callbacks == [at : {"none", "got", "replied"}, ino : Inodes \cup {0}, fh : Nat, id : Nat]

BackingTypeOK ==
    /\ clone_fd \in BOOLEAN /\ running \subseteq Loops /\ next_fh \in Nat
    /\ bound \in Seq(Loops) /\ kernel \subseteq DOMAIN bound
    /\ DOMAIN by_handle \subseteq 1 .. next_fh
    /\ \A fh \in DOMAIN by_handle : by_handle[fh] \in DOMAIN bound
    /\ by_inode \in [Inodes -> Nat]
    /\ callback \in [Loops -> Callbacks]
    /\ opened \subseteq [ino : Inodes, fh : Nat, id : Nat]
    /\ released \subseteq 1 .. next_fh

Got(l) == callback[l].at = "got"

CallbacksHeld ==
    /\ \A l \in Loops :
          \/ callback[l] = NoCallback
          \/ /\ callback[l].ino \in Inodes /\ callback[l].id \in DOMAIN bound
             /\ callback[l].fh \in 1 .. next_fh
             /\ by_inode[callback[l].ino] = callback[l].id
    /\ \A l \in Loops :
          Got(l) => /\ callback[l].fh \in DOMAIN by_handle \ released
                    /\ by_handle[callback[l].fh] = callback[l].id
                    /\ \A f \in opened : f.fh # callback[l].fh
    /\ \A l, m \in Loops : Got(l) /\ Got(m) /\ l # m => callback[l].fh # callback[m].fh

FilesHeld ==
    /\ \A f \in opened :
          /\ f.fh \in DOMAIN by_handle \ released
          /\ by_handle[f.fh] = f.id /\ by_inode[f.ino] = f.id
    /\ \A f, g \in opened : f.fh = g.fh => f = g

IdsKept ==
    /\ owned \cap raw = {} /\ owned \cup raw \subseteq kernel
    /\ \A id \in owned \cup raw : ~Live(id)
    /\ \A id \in DOMAIN bound : Live(id) => id \in kernel
    /\ \A id \in kernel \ (owned \cup raw) : ~Live(id) => bound[id] \notin OpenDevices

BackingInv == BackingTypeOK /\ CallbacksHeld /\ FilesHeld /\ IdsKept

LEMMA BackingInvSound == BackingInv => BackingsSound
<1> SUFFICES ASSUME BackingInv PROVE BackingsSound
  OBVIOUS
<1>1. InUse \subseteq kernel
  BY DEF BackingInv, IdsKept, InUse
<1>2. \A f \in opened : f.id \in kernel
  BY DEF BackingInv, BackingTypeOK, FilesHeld, IdsKept, Live, Held
<1>3. \A f, g \in opened : f.ino = g.ino => f.id = g.id
  BY DEF BackingInv, FilesHeld
<1>4. \A id \in kernel \ InUse : bound[id] \notin OpenDevices
  BY DEF BackingInv, BackingTypeOK, IdsKept, InUse
<1> QED
  BY <1>1, <1>2, <1>3, <1>4 DEF BackingsSound

LEMMA BackingInit_Inv == BackingInit => BackingInv
<1> SUFFICES ASSUME BackingInit PROVE BackingInv
  OBVIOUS
<1>1. BackingTypeOK
  BY DEF BackingInit, BackingTypeOK, Callbacks, NoCallback
<1>2. CallbacksHeld /\ FilesHeld
  BY DEF BackingInit, CallbacksHeld, FilesHeld, Got, NoCallback
<1>3. IdsKept
  BY DEF BackingInit, IdsKept
<1> QED
  BY <1>1, <1>2, <1>3 DEF BackingInv

LEMMA DeviceIsLoop == ASSUME NEW l \in Loops PROVE Device(l) \in Loops
  BY PassthroughAssumption DEF Device

(* What create leaves: one more id, which is in the kernel.                *)
LEMMA Creates ==
    ASSUME BackingTypeOK, NEW l \in Loops, create(l)
    PROVE  /\ bound' \in Seq(Loops) /\ Len(bound') = Len(bound) + 1
           /\ DOMAIN bound = 1 .. Len(bound) /\ DOMAIN bound' = 1 .. Len(bound')
           /\ Len(bound) \in Nat /\ Len(bound') \notin DOMAIN bound
           /\ \A id \in DOMAIN bound : bound'[id] = bound[id]
           /\ kernel' = kernel \cup {Len(bound')}
<1>1. bound \in Seq(Loops) /\ Device(l) \in Loops /\ Len(bound) \in Nat
  BY DeviceIsLoop DEF BackingTypeOK
<1>2. bound' = Append(bound, Device(l)) /\ kernel' = kernel \cup {Len(bound) + 1}
  BY DEF create
<1> QED
  BY <1>1, <1>2

(* What dropping Arcs leaves in the kernel.                                *)
LEMMA ArcsDropped ==
    ASSUME BackingInv, NEW handles, NEW callbacks, DropArcs(handles, callbacks),
           \A id \in DOMAIN bound : Held(handles, callbacks, id) => Live(id),
           UNCHANGED <<clone_fd, running, bound, owned, raw>>
    PROVE  IdsKept' /\ kernel' \subseteq kernel
<1>1. /\ by_handle' = handles /\ callback' = callbacks
      /\ kernel' = kernel \ {id \in kernel : /\ Live(id) /\ ~Held(handles, callbacks, id)
                                             /\ bound[id] \in OpenDevices}
  BY DEF DropArcs, Drop
<1>2. OpenDevices' = OpenDevices
  BY DEF OpenDevices, Device
<1>3. \A id : Live(id)' <=> Held(handles, callbacks, id)
  BY <1>1 DEF Live, Held
<1>4. kernel \subseteq DOMAIN bound
  BY DEF BackingInv, BackingTypeOK
<1> QED
  BY <1>1, <1>2, <1>3, <1>4 DEF BackingInv, IdsKept

LEMMA OpenBackingStep ==
    ASSUME BackingInv, NEW l \in Loops, OpenBacking(l) PROVE BackingInv'
<1>1. create(l) /\ owned' = owned \cup {Len(bound')}
      /\ UNCHANGED <<clone_fd, running, by_handle, by_inode, next_fh, callback, opened, released, raw>>
  BY DEF OpenBacking
<1>2. BackingTypeOK
  BY DEF BackingInv
<1>3. /\ bound' \in Seq(Loops) /\ Len(bound') = Len(bound) + 1
      /\ DOMAIN bound = 1 .. Len(bound) /\ DOMAIN bound' = 1 .. Len(bound')
      /\ Len(bound) \in Nat /\ Len(bound') \notin DOMAIN bound
      /\ \A id \in DOMAIN bound : bound'[id] = bound[id]
      /\ kernel' = kernel \cup {Len(bound')}
  BY <1>1, <1>2, Creates
<1>4. DOMAIN bound \subseteq DOMAIN bound' /\ Len(bound') \in DOMAIN bound'
  BY <1>3
<1>5. BackingTypeOK'
  BY <1>1, <1>2, <1>3, <1>4 DEF BackingTypeOK
<1>6. CallbacksHeld' /\ FilesHeld'
  BY <1>1, <1>4 DEF BackingInv, CallbacksHeld, FilesHeld, Got
<1>7. IdsKept'
  <2>1. \A id : Live(id)' <=> Live(id)
    BY <1>1 DEF Live, Held
  <2>2. OpenDevices' = OpenDevices
    BY <1>1 DEF OpenDevices, Device
  <2>3. ~Live(Len(bound'))
    <3>1. \A fh \in DOMAIN by_handle : by_handle[fh] \in DOMAIN bound
      BY <1>2 DEF BackingTypeOK
    <3>2. \A m \in Loops : callback[m].id = 0 \/ callback[m].id \in DOMAIN bound
      BY DEF BackingInv, CallbacksHeld, NoCallback
    <3> QED
      BY <1>3, <3>1, <3>2 DEF Live, Held
  <2>4. \A id \in DOMAIN bound' : id \in DOMAIN bound \/ id = Len(bound')
    BY <1>3
  <2>5. kernel \subseteq DOMAIN bound
    BY <1>2 DEF BackingTypeOK
  <2> QED
    BY <1>1, <1>3, <2>1, <2>2, <2>3, <2>4, <2>5 DEF BackingInv, IdsKept
<1> QED
  BY <1>5, <1>6, <1>7 DEF BackingInv

LEMMA RawStep ==
    ASSUME BackingInv, NEW id \in owned, into_raw(id) PROVE BackingInv'
<1>1. owned' = owned \ {id} /\ raw' = raw \cup {id}
      /\ UNCHANGED <<clone_fd, running, kernel, bound, by_handle, by_inode, next_fh, callback,
                     opened, released>>
  BY DEF into_raw
<1>2. BackingTypeOK' /\ CallbacksHeld' /\ FilesHeld'
  BY <1>1 DEF BackingInv, BackingTypeOK, CallbacksHeld, FilesHeld, Got
<1>3. (\A i : Live(i)' <=> Live(i)) /\ OpenDevices' = OpenDevices
  BY <1>1 DEF Live, Held, OpenDevices, Device
<1>4. IdsKept'
  BY <1>1, <1>3 DEF BackingInv, IdsKept
<1> QED
  BY <1>2, <1>4 DEF BackingInv

LEMMA WrapStep ==
    ASSUME BackingInv, NEW l \in Loops, NEW id \in raw, wrap_raw(l, id) PROVE BackingInv'
<1>1. raw' = raw \ {id} /\ owned' = owned \cup {id} /\ bound' = [bound EXCEPT ![id] = Device(l)]
      /\ UNCHANGED <<clone_fd, running, kernel, by_handle, by_inode, next_fh, callback, opened,
                     released>>
  BY DEF wrap_raw
<1>2. bound \in Seq(Loops) /\ id \in DOMAIN bound /\ kernel \subseteq DOMAIN bound
  BY DEF BackingInv, BackingTypeOK, IdsKept
<1>3. bound' \in Seq(Loops) /\ DOMAIN bound' = DOMAIN bound
  BY <1>1, <1>2, DeviceIsLoop, ExceptSeq
<1>4. BackingTypeOK'
  BY <1>1, <1>3 DEF BackingInv, BackingTypeOK
<1>5. CallbacksHeld' /\ FilesHeld'
  BY <1>1, <1>3 DEF BackingInv, CallbacksHeld, FilesHeld, Got
<1>6. (\A i : Live(i)' <=> Live(i)) /\ OpenDevices' = OpenDevices
  BY <1>1 DEF Live, Held, OpenDevices, Device
<1>7. \A i \in DOMAIN bound : i # id => bound'[i] = bound[i]
  BY <1>1, <1>2
<1>8. IdsKept'
  BY <1>1, <1>2, <1>3, <1>6, <1>7 DEF BackingInv, IdsKept
<1> QED
  BY <1>4, <1>5, <1>8 DEF BackingInv

LEMMA DropOwnedStep ==
    ASSUME BackingInv, NEW id \in owned, DropOwned(id) PROVE BackingInv'
<1>1. /\ owned' = owned \ {id} /\ Drop({id})
      /\ UNCHANGED <<clone_fd, running, bound, by_handle, by_inode, next_fh, callback, opened,
                     released, raw>>
  BY DEF DropOwned
<1>2. kernel' = kernel \ (IF bound[id] \in OpenDevices THEN {id} ELSE {})
  BY <1>1 DEF Drop
<1>3. BackingTypeOK' /\ CallbacksHeld' /\ FilesHeld'
  BY <1>1, <1>2 DEF BackingInv, BackingTypeOK, CallbacksHeld, FilesHeld, Got
<1>4. (\A i : Live(i)' <=> Live(i)) /\ OpenDevices' = OpenDevices
  BY <1>1 DEF Live, Held, OpenDevices, Device
<1>5. IdsKept'
  BY <1>1, <1>2, <1>4 DEF BackingInv, IdsKept
<1> QED
  BY <1>3, <1>5 DEF BackingInv

LEMMA LoopEndsStep ==
    ASSUME BackingInv, NEW l \in Loops,
           running' = running \ {l},
           next_fh' \in Nat, next_fh' >= next_fh,
           UNCHANGED <<clone_fd, kernel, bound, by_handle, by_inode, callback, opened,
                       released, owned, raw>>
    PROVE  BackingInv'
<1>1. BackingTypeOK'
  BY DEF BackingInv, BackingTypeOK
<1>2. CallbacksHeld' /\ FilesHeld'
  BY DEF BackingInv, BackingTypeOK, CallbacksHeld, FilesHeld, Got
<1>3. (\A i : Live(i)' <=> Live(i)) /\ OpenDevices' \subseteq OpenDevices
  BY DEF Live, Held, OpenDevices, Device
<1>4. IdsKept'
  BY <1>3 DEF BackingInv, IdsKept
<1> QED
  BY <1>1, <1>2, <1>4 DEF BackingInv

LEMMA RepliedStep ==
    ASSUME BackingInv, NEW l \in Loops, opened_passthrough(l) PROVE BackingInv'
<1> DEFINE file == [ino |-> callback[l].ino, fh |-> callback[l].fh, id |-> callback[l].id]
<1>1. /\ Got(l) /\ callback' = [callback EXCEPT ![l].at = "replied"]
      /\ opened' = opened \cup {[ino |-> callback[l].ino, fh |-> callback[l].fh, id |-> id] :
                                    id \in {callback[l].id} \cap kernel}
      /\ UNCHANGED <<clone_fd, running, kernel, bound, by_handle, by_inode, next_fh, released,
                     owned, raw>>
  BY DEF opened_passthrough, Got
<1>2. callback \in [Loops -> Callbacks]
  BY DEF BackingInv, BackingTypeOK
<1>3. /\ callback' \in [Loops -> Callbacks]
      /\ \A m \in Loops : m # l => callback'[m] = callback[m]
      /\ callback'[l].at = "replied" /\ callback'[l].ino = callback[l].ino
      /\ callback'[l].fh = callback[l].fh /\ callback'[l].id = callback[l].id
  BY <1>1, <1>2 DEF Callbacks
<1>4. callback[l] # NoCallback
  BY <1>1 DEF Got, NoCallback
<1>5. /\ callback[l].ino \in Inodes /\ by_inode[callback[l].ino] = callback[l].id
      /\ callback[l].fh \in DOMAIN by_handle \ released /\ by_handle[callback[l].fh] = callback[l].id
      /\ \A f \in opened : f.fh # callback[l].fh
      /\ callback[l].fh \in Nat /\ callback[l].id \in Nat
  BY <1>1, <1>2, <1>4 DEF BackingInv, CallbacksHeld, Callbacks
<1>6. file.ino = callback[l].ino /\ file.fh = callback[l].fh /\ file.id = callback[l].id
      /\ file \in [ino : Inodes, fh : Nat, id : Nat]
  BY <1>5
<1>7. \A f \in opened' : f \in opened \/ f = file
  BY <1>1
<1> HIDE DEF file
<1>8. BackingTypeOK'
  BY <1>1, <1>3, <1>6, <1>7 DEF BackingInv, BackingTypeOK
<1>9. \A m \in Loops : Got(m)' => m # l /\ Got(m)
  BY <1>3 DEF Got
<1>10. CallbacksHeld'
  <2>1. ASSUME NEW m \in Loops
        PROVE  \/ callback'[m] = NoCallback
               \/ /\ callback'[m].ino \in Inodes /\ callback'[m].id \in DOMAIN bound
                  /\ callback'[m].fh \in 1 .. next_fh
                  /\ by_inode[callback'[m].ino] = callback'[m].id
    BY <1>3, <1>4 DEF BackingInv, CallbacksHeld
  <2>2. ASSUME NEW m \in Loops, Got(m)'
        PROVE  /\ callback'[m].fh \in DOMAIN by_handle \ released
               /\ by_handle[callback'[m].fh] = callback'[m].id
               /\ \A f \in opened' : f.fh # callback'[m].fh
    BY <1>1, <1>3, <1>6, <1>7, <1>9, <2>2 DEF BackingInv, CallbacksHeld
  <2>3. ASSUME NEW m \in Loops, NEW k \in Loops, Got(m)', Got(k)', m # k
        PROVE  callback'[m].fh # callback'[k].fh
    BY <1>3, <1>9, <2>3 DEF BackingInv, CallbacksHeld
  <2> QED
    BY <1>1, <2>1, <2>2, <2>3 DEF CallbacksHeld
<1>11. FilesHeld'
  BY <1>1, <1>5, <1>6, <1>7 DEF BackingInv, FilesHeld
<1>12. IdsKept'
  <2>1. \A m \in Loops : callback'[m].id = callback[m].id
    BY <1>3
  <2>2. \A i : Live(i)' <=> Live(i)
    BY <1>1, <2>1 DEF Live, Held
  <2>3. OpenDevices' = OpenDevices
    BY <1>1 DEF OpenDevices, Device
  <2> QED
    BY <1>1, <2>2, <2>3 DEF BackingInv, IdsKept
<1> QED
  BY <1>8, <1>10, <1>11, <1>12 DEF BackingInv

LEMMA OpenReturnsStep ==
    ASSUME BackingInv, NEW l \in Loops, OpenReturns(l) PROVE BackingInv'
<1> DEFINE callbacks == [callback EXCEPT ![l] = NoCallback]
<1>1. /\ DropArcs(by_handle, callbacks) /\ callback' = callbacks /\ by_handle' = by_handle
      /\ UNCHANGED <<clone_fd, running, bound, by_inode, next_fh, opened, released, owned, raw>>
  BY DEF OpenReturns, DropArcs
<1>2. callback \in [Loops -> Callbacks]
  BY DEF BackingInv, BackingTypeOK
<1>3. /\ callbacks \in [Loops -> Callbacks] /\ callbacks[l] = NoCallback
      /\ \A m \in Loops : m # l => callbacks[m] = callback[m]
  BY <1>2 DEF Callbacks, NoCallback
<1> HIDE DEF callbacks
<1>4. ASSUME NEW id \in DOMAIN bound, Held(by_handle, callbacks, id)
      PROVE  Live(id)
  <2>1. id # 0
    BY DEF BackingInv, BackingTypeOK
  <2> QED
    BY <1>3, <1>4, <2>1 DEF Live, Held, NoCallback
<1>5. IdsKept' /\ kernel' \subseteq kernel
  BY <1>1, <1>4, ArcsDropped
<1>6. BackingTypeOK'
  BY <1>1, <1>3, <1>5 DEF BackingInv, BackingTypeOK
<1>7. CallbacksHeld'
  BY <1>1, <1>3 DEF BackingInv, CallbacksHeld, Got, NoCallback
<1>8. FilesHeld'
  BY <1>1 DEF BackingInv, FilesHeld
<1> QED
  BY <1>5, <1>6, <1>7, <1>8 DEF BackingInv

LEMMA CloseStep ==
    ASSUME BackingInv, NEW file \in opened, Close(file) PROVE BackingInv'
<1>1. opened' = opened \ {file} /\ released' = released \cup {file.fh}
      /\ UNCHANGED <<clone_fd, running, kernel, bound, by_handle, by_inode, next_fh, callback,
                     owned, raw>>
  BY DEF Close
<1>2. file.fh \in DOMAIN by_handle
  BY DEF BackingInv, FilesHeld
<1>3. BackingTypeOK'
  BY <1>1, <1>2 DEF BackingInv, BackingTypeOK
<1>4. CallbacksHeld' /\ FilesHeld'
  BY <1>1, <1>2 DEF BackingInv, CallbacksHeld, FilesHeld, Got
<1>5. IdsKept'
  BY <1>1 DEF BackingInv, IdsKept, Live, Held, OpenDevices, Device
<1> QED
  BY <1>3, <1>4, <1>5 DEF BackingInv

LEMMA ReleaseStep ==
    ASSUME BackingInv, NEW l \in Loops, NEW fh \in released, Release(l, fh) PROVE BackingInv'
<1> DEFINE handles == [h \in DOMAIN by_handle \ {fh} |-> by_handle[h]]
<1>1. /\ released' = released \ {fh} /\ DropArcs(handles, callback)
      /\ callback' = callback /\ by_handle' = handles
      /\ UNCHANGED <<clone_fd, running, bound, by_inode, next_fh, opened, owned, raw>>
  BY DEF Release, DropArcs
<1>2. /\ DOMAIN handles = DOMAIN by_handle \ {fh}
      /\ \A h \in DOMAIN handles : handles[h] = by_handle[h]
  OBVIOUS
<1> HIDE DEF handles
<1>3. \A id \in DOMAIN bound : Held(handles, callback, id) => Live(id)
  BY <1>2 DEF Live, Held
<1>4. IdsKept' /\ kernel' \subseteq kernel
  BY <1>1, <1>3, ArcsDropped
<1>5. BackingTypeOK'
  BY <1>1, <1>2, <1>4 DEF BackingInv, BackingTypeOK
<1>6. CallbacksHeld'
  BY <1>1, <1>2 DEF BackingInv, CallbacksHeld, Got
<1>7. FilesHeld'
  BY <1>1, <1>2 DEF BackingInv, FilesHeld
<1> QED
  BY <1>4, <1>5, <1>6, <1>7 DEF BackingInv

(* An open that has an id, one that is shared or one that was just made:   *)
(* nobody holds another id for the inode.                                  *)
LEMMA GetsOrMakes ==
    ASSUME BackingInv, NEW l \in Loops, NEW ino \in Inodes, NEW fh, NEW id \in DOMAIN bound',
           callback[l] = NoCallback, fh = next_fh + 1, next_fh' = fh, get_or(l, ino, fh, id),
           \A m \in Loops : callback[m] # NoCallback /\ callback[m].ino = ino => callback[m].id = id,
           \A f \in opened : f.ino = ino => f.id = id,
           bound' \in Seq(Loops), DOMAIN bound \subseteq DOMAIN bound', kernel' \subseteq DOMAIN bound',
           UNCHANGED <<clone_fd, running, opened, released, owned, raw>>
    PROVE  /\ BackingTypeOK' /\ CallbacksHeld' /\ FilesHeld'
           /\ \A i \in DOMAIN bound' : Live(i)' <=> Live(i) \/ i = id
<1>1. /\ by_inode \in [Inodes -> Nat] /\ callback \in [Loops -> Callbacks] /\ next_fh \in Nat
      /\ DOMAIN by_handle \subseteq 1 .. next_fh /\ released \subseteq 1 .. next_fh
      /\ \A h \in DOMAIN by_handle : by_handle[h] \in DOMAIN bound
  BY DEF BackingInv, BackingTypeOK
<1>2. id \in Nat /\ id # 0
  OBVIOUS
<1>3. fh \notin DOMAIN by_handle /\ fh \notin released /\ fh \in Nat /\ fh \in 1 .. next_fh'
      /\ 1 .. next_fh \subseteq 1 .. next_fh' /\ fh \notin 1 .. next_fh
  BY <1>1
<1>4. /\ by_inode' \in [Inodes -> Nat] /\ by_inode'[ino] = id
      /\ \A i \in Inodes : i # ino => by_inode'[i] = by_inode[i]
  BY <1>1, <1>2 DEF get_or
<1>5. /\ DOMAIN by_handle' = DOMAIN by_handle \cup {fh} /\ by_handle'[fh] = id
      /\ \A h \in DOMAIN by_handle : by_handle'[h] = by_handle[h]
  BY <1>3 DEF get_or
<1>6. /\ callback' \in [Loops -> Callbacks]
      /\ callback'[l].at = "got" /\ callback'[l].ino = ino
      /\ callback'[l].fh = fh /\ callback'[l].id = id
      /\ \A m \in Loops : m # l => callback'[m] = callback[m]
  BY <1>1, <1>2, <1>3 DEF get_or, Callbacks
<1>7. BackingTypeOK'
  BY <1>1, <1>3, <1>4, <1>5, <1>6 DEF BackingInv, BackingTypeOK
<1>8. CallbacksHeld'
  <2>1. ASSUME NEW m \in Loops
        PROVE  \/ callback'[m] = NoCallback
               \/ /\ callback'[m].ino \in Inodes /\ callback'[m].id \in DOMAIN bound'
                  /\ callback'[m].fh \in 1 .. next_fh'
                  /\ by_inode'[callback'[m].ino] = callback'[m].id
    <3>1. CASE m = l
      BY <1>3, <1>4, <1>6, <3>1
    <3>2. CASE m # l
      BY <1>3, <1>4, <1>6, <3>2 DEF BackingInv, CallbacksHeld
    <3> QED
      BY <3>1, <3>2
  <2>2. ASSUME NEW m \in Loops, Got(m)'
        PROVE  /\ callback'[m].fh \in DOMAIN by_handle' \ released
               /\ by_handle'[callback'[m].fh] = callback'[m].id
               /\ \A f \in opened : f.fh # callback'[m].fh
               /\ m # l => callback'[m].fh # fh
    <3>1. CASE m = l
      BY <1>3, <1>5, <1>6, <3>1 DEF BackingInv, FilesHeld
    <3>2. CASE m # l
      BY <1>3, <1>5, <1>6, <2>2, <3>2 DEF BackingInv, CallbacksHeld, Got
    <3> QED
      BY <3>1, <3>2
  <2>3. ASSUME NEW m \in Loops, NEW k \in Loops, Got(m)', Got(k)', m # k
        PROVE  callback'[m].fh # callback'[k].fh
    <3>1. CASE m # l /\ k # l
      BY <1>6, <2>3, <3>1 DEF BackingInv, CallbacksHeld, Got
    <3>2. CASE m = l \/ k = l
      BY <1>6, <2>2, <2>3, <3>2
    <3> QED
      BY <3>1, <3>2
  <2> QED
    BY <2>1, <2>2, <2>3 DEF CallbacksHeld
<1>9. FilesHeld'
  BY <1>1, <1>3, <1>4, <1>5 DEF BackingInv, BackingTypeOK, FilesHeld
<1>10. ASSUME NEW i \in DOMAIN bound'
       PROVE  Live(i)' <=> Live(i) \/ i = id
  <2>1. i # 0
    OBVIOUS
  <2>2. (\E h \in DOMAIN by_handle' : by_handle'[h] = i)
           <=> (\E h \in DOMAIN by_handle : by_handle[h] = i) \/ i = id
    BY <1>3, <1>5
  <2>3. (\E m \in Loops : callback'[m].id = i)
           <=> (\E m \in Loops : callback[m].id = i) \/ i = id
    BY <1>6, <2>1 DEF NoCallback
  <2> QED
    BY <2>2, <2>3 DEF Live, Held
<1> QED
  BY <1>7, <1>8, <1>9, <1>10

LEMMA OpenStep ==
    ASSUME BackingInv, NEW l \in Loops, NEW ino \in Inodes, Open(l, ino) PROVE BackingInv'
<1>1. /\ callback[l] = NoCallback /\ next_fh' = next_fh + 1
      /\ UNCHANGED <<clone_fd, opened, released, owned, raw>>
  BY DEF Open
<1>2. BackingTypeOK /\ next_fh \in Nat /\ bound \in Seq(Loops) /\ kernel \subseteq DOMAIN bound
  BY DEF BackingInv, BackingTypeOK
<1> DEFINE shared == by_inode[ino]
<1>3. CASE /\ shared # 0 /\ Live(shared)
           /\ get_or(l, ino, next_fh', shared) /\ UNCHANGED <<kernel, bound, running>>
  <2>1. shared \in DOMAIN bound
    BY <1>2, <1>3 DEF BackingInv, BackingTypeOK, CallbacksHeld, NoCallback, Live, Held
  <2>2. /\ \A m \in Loops : callback[m] # NoCallback /\ callback[m].ino = ino
                                 => callback[m].id = shared
        /\ \A f \in opened : f.ino = ino => f.id = shared
    BY DEF BackingInv, CallbacksHeld, FilesHeld
  <2>3. /\ bound' \in Seq(Loops) /\ DOMAIN bound \subseteq DOMAIN bound'
        /\ kernel' \subseteq DOMAIN bound' /\ shared \in DOMAIN bound'
        /\ UNCHANGED <<clone_fd, running, opened, released, owned, raw>>
    BY <1>1, <1>2, <1>3, <2>1
  <2> HIDE DEF shared
  <2>4. /\ BackingTypeOK' /\ CallbacksHeld' /\ FilesHeld'
        /\ \A i \in DOMAIN bound' : Live(i)' <=> Live(i) \/ i = shared
    BY <1>1, <1>3, <2>2, <2>3, GetsOrMakes
  <2>5. OpenDevices' = OpenDevices
    BY <2>3 DEF OpenDevices, Device
  <2>6. IdsKept'
    BY <1>2, <1>3, <2>3, <2>4, <2>5 DEF BackingInv, IdsKept
  <2> QED
    BY <2>4, <2>6 DEF BackingInv
<1>4. CASE /\ ~(shared # 0 /\ Live(shared))
           /\ create(l) /\ get_or(l, ino, next_fh', Len(bound')) /\ UNCHANGED running
  <2>1. /\ bound' \in Seq(Loops) /\ Len(bound') = Len(bound) + 1
        /\ DOMAIN bound = 1 .. Len(bound) /\ DOMAIN bound' = 1 .. Len(bound')
        /\ Len(bound) \in Nat /\ Len(bound') \notin DOMAIN bound
        /\ \A id \in DOMAIN bound : bound'[id] = bound[id]
        /\ kernel' = kernel \cup {Len(bound')}
    BY <1>2, <1>4, Creates
  <2>2. \A m \in Loops : ~(callback[m] # NoCallback /\ callback[m].ino = ino)
    BY <1>4, <2>1 DEF BackingInv, CallbacksHeld, Live, Held
  <2>3. \A f \in opened : f.ino # ino
    <3> SUFFICES ASSUME NEW f \in opened, f.ino = ino PROVE FALSE
      OBVIOUS
    <3>1. f.fh \in DOMAIN by_handle /\ by_handle[f.fh] = shared /\ shared \in DOMAIN bound
      BY DEF BackingInv, BackingTypeOK, FilesHeld
    <3> QED
      BY <1>4, <2>1, <3>1 DEF Live, Held
  <2>4. /\ DOMAIN bound \subseteq DOMAIN bound' /\ kernel' \subseteq DOMAIN bound'
        /\ Len(bound') \in DOMAIN bound'
        /\ UNCHANGED <<clone_fd, running, opened, released, owned, raw>>
    BY <1>1, <1>2, <1>4, <2>1
  <2> HIDE DEF shared
  <2>5. /\ BackingTypeOK' /\ CallbacksHeld' /\ FilesHeld'
        /\ \A i \in DOMAIN bound' : Live(i)' <=> Live(i) \/ i = Len(bound')
    BY <1>1, <1>4, <2>1, <2>2, <2>3, <2>4, GetsOrMakes
  <2>6. OpenDevices' = OpenDevices
    BY <2>4 DEF OpenDevices, Device
  <2>7. \A id \in DOMAIN bound' : id \in DOMAIN bound \/ id = Len(bound')
    BY <2>1
  <2>8. IdsKept'
    BY <1>2, <2>1, <2>4, <2>5, <2>6, <2>7 DEF BackingInv, IdsKept
  <2> QED
    BY <2>5, <2>8 DEF BackingInv
<1>5. CASE running' = running \ {l} /\ UNCHANGED <<kernel, bound, by_handle, by_inode, callback>>
  BY <1>1, <1>2, <1>5, LoopEndsStep
<1> QED
  BY <1>3, <1>4, <1>5 DEF Open

LEMMA BackingStep == BackingInv /\ [Next]_vars => BackingInv'
<1> SUFFICES ASSUME BackingInv, [Next]_vars PROVE BackingInv'
  OBVIOUS
<1>1. ASSUME UNCHANGED backingVars PROVE BackingInv'
  BY <1>1 DEF backingVars, BackingInv, BackingTypeOK, CallbacksHeld, FilesHeld, IdsKept, Got,
     Live, Held, OpenDevices, Device
<1>2. CASE RunsPoll \/ RunsClock \/ UNCHANGED vars
  <2>1. UNCHANGED backingVars
    BY <1>2 DEF RunsPoll, RunsClock, vars
  <2> QED
    BY <1>1, <2>1
<1>3. CASE RunsPassthrough
  <2>1. ASSUME NEW l \in Loops, LoopEnds(l) PROVE BackingInv'
    <3>1. next_fh' = next_fh /\ next_fh \in Nat
      BY <2>1 DEF LoopEnds, BackingInv, BackingTypeOK
    <3> QED
      BY <2>1, <3>1, LoopEndsStep DEF LoopEnds
  <2>2. BackingNext
    BY <1>3 DEF RunsPassthrough
  <2> QED
    BY <2>1, <2>2, OpenBackingStep, RepliedStep, OpenReturnsStep, OpenStep, ReleaseStep, WrapStep,
       RawStep, DropOwnedStep, CloseStep DEF BackingNext
<1> QED
  BY <1>2, <1>3 DEF Next

(* BackingId and BackingCache neither lose nor close early an id that is   *)
(* in use, for any number of event loops, whichever of them fail: sharing  *)
(* ids through Weak references races with the last Arc going.              *)
THEOREM BackingsCorrect == Spec => []BackingsSound
<1>1. Init => BackingInv
  BY BackingInit_Inv DEF Init
<1> QED
  BY <1>1, BackingStep, BackingInvSound, PTL DEF Spec

=============================================================================
