----------------------------- MODULE SimpleAttrs -----------------------------
(***************************************************************************)
(* One file of the example filesystem examples/simple.rs: its record of    *)
(* attributes, the length of its content, which is another file, and the   *)
(* handles the kernel holds.  A handler reads the record, checks it        *)
(* against the caller, changes the content and writes the record back.     *)
(*                                                                         *)
(* The names and the storage of files are in SimpleFS.  One thread serves  *)
(* the requests (n_threads is 1 by default).                               *)
(***************************************************************************)
EXTENDS Integers, FiniteSets, FiniteSetsExt

CONSTANTS Callers,      \* who sends requests: uid, gid, groups, fsetid (CAP_FSETID)
          Modes,        \* the modes a chmod or a creation may ask for
          Keys,         \* the extended attributes that are set and removed
          MaxSize,      \* bound: offsets and lengths, MAX_FILE_SIZE in the code
          MaxHandles,   \* bound: kinds of handle held at once
          MaxClock,     \* bound: ticks of the clock
          SpecificTimes, \* the times a caller sets, past, present and yet to come
          Day           \* ticks after which relatime moves an access time anyway

Permissions == SUBSET {"r", "w", "x"}
ModeBits == [special : SUBSET {"suid", "sgid"},
             usr : Permissions, grp : Permissions, oth : Permissions]

ASSUME AttrsAssumption ==
    /\ MaxSize \in Nat /\ MaxHandles \in Nat /\ MaxClock \in Nat /\ Day \in Nat
    /\ SpecificTimes \subseteq Int
    /\ Callers \subseteq [uid : Nat, gid : Nat, groups : SUBSET Nat, fsetid : BOOLEAN]
    /\ Modes \subseteq ModeBits
    /\ Keys \subseteq {"user", "trusted", "security", "security.capability",
                       "system", "system.posix_acl_access", "unknown"}

VARIABLES attrs,       \* the record under inodes/
          length,      \* the length of the file under contents/
          handles,     \* the kinds of handle the kernel holds
          killpriv,    \* killpriv_negotiated: stripping privileges is ours
          clock,
          modifier,    \* history: the least of those who changed the file since it
                       \*          was last given privileges
          looked,      \* history: when the file was first read, with its access time
                       \*          kept, since it or its times were last changed
          skewed       \* history: a request of the two kinds that set the record
                       \*          apart from the content was carried out

vars == <<attrs, length, handles, killpriv, clock, modifier, looked, skewed>>

Handles ==
    {fh \in [read : BOOLEAN, write : BOOLEAN, append : BOOLEAN] :
        (fh.read \/ fh.write) /\ (fh.append => fh.write)}
Flags == {"IMMUTABLE", "APPEND", "NOATIME"}

is_immutable == "IMMUTABLE" \in attrs.flags
is_append_only == "APPEND" \in attrs.flags
is_noatime == "NOATIME" \in attrs.flags

(* Options are sets of at most one element.                                *)
Some(o) == CHOOSE v \in o : TRUE
Option(S) == {{}} \cup {{v} : v \in S}

---------------------------------------------------------------------------
(* The caller against the record.                                          *)

caller_is_root(c) == c.uid = 0
caller_owns(c) == c.uid = attrs.uid
caller_outside_group(c) == c.gid # attrs.gid /\ attrs.gid \notin c.groups

check_access(uid, gid, mode, c, mask) ==
    \/ mask = {}
    \/ IF c.uid = 0 THEN mask \cap {"x"} \subseteq mode.usr \cup mode.grp \cup mode.oth
       ELSE mask \subseteq CASE c.uid = uid -> mode.usr
                             [] c.uid # uid /\ c.gid = gid -> mode.grp
                             [] OTHER -> mode.oth

may_access(c, mask) == check_access(attrs.uid, attrs.gid, attrs.mode, c, mask)

\* Mutant of clear_suid_sgid: only the killpriv rule takes sgid away.
clear_suid_sgidByExec(a, c, lacks_fsetid) ==
    [a EXCEPT !.mode.special = IF "x" \in a.mode.grp THEN {} ELSE @ \ {"suid"}]

(* suid goes; sgid goes if it means setgid-on-exec, or if a caller without *)
(* CAP_FSETID is outside the file's group.                                 *)
clear_suid_sgid(a, c, lacks_fsetid) ==
    [a EXCEPT !.mode.special =
        IF "x" \in a.mode.grp \/ (lacks_fsetid /\ caller_outside_group(c))
        THEN {} ELSE @ \ {"suid"}]

clear_file_capabilities(a) == [a EXCEPT !.xattrs = @ \ {"security.capability"}]

(* For fallocate and copy_file_range, which carry no word on privileges.   *)
clear_privileges_unprompted(a, c) ==
    IF ~killpriv THEN a
    ELSE clear_file_capabilities(IF c.fsetid THEN a ELSE clear_suid_sgid(a, c, TRUE))

(* What the kernel asks for with FUSE_HANDLE_KILLPRIV_V2, in a write or a  *)
(* truncate; a chown always asks.                                          *)
KillSuidGid(c) == killpriv /\ ~c.fsetid

Modified(a) == [a EXCEPT !.mtime = clock, !.ctime = clock]
Changed(a) == [a EXCEPT !.ctime = clock]

---------------------------------------------------------------------------
(* Handlers: the answer, the record and the length they leave.             *)

Refuse == [reply |-> "refused", attrs |-> attrs, length |-> length]
Answer(a, n) == [reply |-> "ok", attrs |-> a, length |-> n]

chmod(c, mode) ==
    IF ~caller_is_root(c) /\ ~caller_owns(c) THEN Refuse
    ELSE LET kept == IF ~caller_is_root(c) /\ caller_outside_group(c)
                     THEN [mode EXCEPT !.special = @ \ {"sgid"}] ELSE mode
         IN  Answer(Changed([attrs EXCEPT !.mode = kept]), length)

chown(c, uid, gid) ==
    IF \/ gid # {} /\ ~caller_is_root(c) /\ Some(gid) \notin c.groups
       \/ uid # {} /\ ~caller_is_root(c) /\ ~(Some(uid) = attrs.uid /\ caller_owns(c))
       \/ gid # {} /\ ~caller_is_root(c) /\ ~caller_owns(c)
    THEN Refuse
    ELSE LET cleared == clear_file_capabilities(
                            IF killpriv THEN clear_suid_sgid(attrs, c, ~c.fsetid) ELSE attrs)
         IN  Answer(Changed([cleared EXCEPT !.uid = IF uid = {} THEN @ ELSE Some(uid),
                                            !.gid = IF gid = {} THEN @ ELSE Some(gid)]), length)

truncate(c, size, enforce_access) ==
    IF \/ size > MaxSize
       \/ is_immutable \/ is_append_only
       \/ enforce_access /\ ~may_access(c, {"w"})
    THEN Refuse
    ELSE LET cut == Modified([attrs EXCEPT !.size = size])
         IN  Answer(clear_file_capabilities(
                 IF KillSuidGid(c) THEN clear_suid_sgid(cut, c, TRUE) ELSE cut), size)

(* TimeOrNow: {t} is the specific time t.                                  *)
Now == {}
TimeOrNow == Option(SpecificTimes)
MaySetTime(c, time) ==
    /\ caller_owns(c) \/ caller_is_root(c) \/ time = Now
    /\ caller_owns(c) \/ may_access(c, {"w"})
Chosen(time) == IF time = Now THEN clock ELSE Some(time)

(* The access and then the modification time, each checked, set in the     *)
(* record that setattr read at its start and written back: a refusal comes *)
(* after what has been done so far, and a truncate before is undone in the *)
(* record.                                                                 *)
utimens(c, atime, mtime, cut) ==
    LET first == IF atime = {} THEN attrs
                 ELSE Changed([attrs EXCEPT !.atime = Chosen(Some(atime))])
        second == Changed([first EXCEPT !.mtime = Chosen(Some(mtime))])
    IN  IF atime # {} /\ ~MaySetTime(c, Some(atime)) THEN [cut EXCEPT !.reply = "refused"]
        ELSE IF mtime = {}
        THEN [cut EXCEPT !.attrs = IF atime = {} THEN @ ELSE first]
        ELSE IF ~MaySetTime(c, Some(mtime))
        THEN [cut EXCEPT !.reply = "refused", !.attrs = IF atime = {} THEN @ ELSE first]
        ELSE [cut EXCEPT !.attrs = second]

\* Mutant of setattr: an append-only file may be given a mode.
setattrAppendOnlyMode(c, mode, uid, gid, size, atime, mtime, fh) ==
    IF is_immutable \/ (is_append_only /\ mode = {}) THEN Refuse
    ELSE IF mode # {} THEN chmod(c, Some(mode))
    ELSE IF uid # {} \/ gid # {} THEN chown(c, uid, gid)
    ELSE IF size # {} THEN truncate(c, Some(size), fh = {})
    ELSE utimens(c, atime, mtime, Answer(attrs, length))

(* mode, if given, is all that is set; else the owner, if given.  fh is    *)
(* the handle of an ftruncate.                                             *)
setattr(c, mode, uid, gid, size, atime, mtime, fh) ==
    IF \/ is_immutable
       \/ is_append_only /\ (\/ mode # {} \/ uid # {} \/ gid # {} \/ size # {}
                            \/ \E time \in atime \cup mtime : time # Now)
    THEN Refuse
    ELSE IF mode # {} THEN chmod(c, Some(mode))
    ELSE IF uid # {} \/ gid # {} THEN chown(c, uid, gid)
    ELSE IF fh # {} /\ size # {} /\ ~Some(fh).write THEN Refuse
    ELSE LET cut == IF size = {} THEN Answer(attrs, length)
                    ELSE truncate(c, Some(size), fh = {})
         IN  IF cut.reply = "refused" THEN cut ELSE utimens(c, atime, mtime, cut)

\* Mutant of touch_atime: the access time moves once a day only.
touch_atimeDaily(a) == IF a.atime < clock - Day THEN [a EXCEPT !.atime = clock] ELSE a

(* relatime: the access time moves if nobody has read the file since it    *)
(* last changed, or once a day.                                            *)
touch_atime(a) ==
    IF /\ "NOATIME" \notin a.flags
       /\ a.atime <= a.mtime \/ a.atime <= a.ctime \/ a.atime < clock - Day
    THEN [a EXCEPT !.atime = clock] ELSE a

read(fh, no_atime) ==
    IF ~fh.read THEN Refuse
    ELSE Answer(IF no_atime THEN attrs ELSE touch_atime(attrs), length)

Grown(a, end) == [a EXCEPT !.size = Max({@, end})]

write(c, fh, offset, n) ==
    IF ~fh.write THEN Refuse
    ELSE LET grown == Grown(Modified(attrs), offset + n)
         IN  Answer(clear_file_capabilities(
                 IF KillSuidGid(c) THEN clear_suid_sgid(grown, c, TRUE) ELSE grown),
                 Max({length, offset + n}))

(* A mode is a set of FALLOC_FL flags, of those that the kernel forwards;  *)
(* can_take is the guess at the space left, which a hole does not need.    *)
FallocModes == {{}, {"KEEP_SIZE"}, {"ZERO_RANGE"}, {"KEEP_SIZE", "ZERO_RANGE"},
                {"KEEP_SIZE", "PUNCH_HOLE"}}

\* Mutant of fallocate: the size grows although it is to be kept.
fallocateGrows(c, offset, n, mode, can_take) ==
    IF is_immutable \/ is_append_only THEN Refuse
    ELSE Answer(Grown(Modified(attrs), offset + n),
                IF "KEEP_SIZE" \in mode THEN length ELSE Max({length, offset + n}))

fallocate(c, offset, n, mode, can_take) ==
    IF \/ is_immutable
       \/ is_append_only /\ ~(mode \subseteq {"KEEP_SIZE"})
       \/ "PUNCH_HOLE" \notin mode /\ ~can_take
    THEN Refuse
    ELSE LET end == IF "KEEP_SIZE" \in mode THEN 0 ELSE offset + n
         IN  Answer(clear_privileges_unprompted(Grown(Modified(attrs), end), c),
                    Max({length, end}))

(* n bytes were left to read in the source.  Writing none of them leaves   *)
(* the content as it is, and the record grows to the offset all the same.  *)
copy_file_range(c, fh, offset, n) ==
    IF ~fh.write \/ is_immutable THEN Refuse
    ELSE Answer(clear_privileges_unprompted(Grown(Modified(attrs), offset + n), c),
                IF n = 0 THEN length ELSE Max({length, offset + n}))

(* xattr_access_check, with what parse_xattr_namespace makes of the key.   *)
xattr_access_check(c, key, mask) ==
    /\ mask = {"r"} \/ ~(is_immutable \/ is_append_only)
    /\ CASE key \in {"security", "security.capability"} -> mask = {"r"} \/ caller_is_root(c)
         [] key \in {"trusted", "system"} -> caller_is_root(c)
         [] key \in {"user", "system.posix_acl_access"} -> may_access(c, mask)
         [] OTHER -> FALSE

setxattr(c, key) ==
    IF ~xattr_access_check(c, key, {"w"}) THEN Refuse
    ELSE Answer(Changed([attrs EXCEPT !.xattrs = @ \cup {key}]), length)

removexattr(c, key) ==
    IF \/ key # "security.capability" /\ ~xattr_access_check(c, key, {"w"})
       \/ key \notin attrs.xattrs
    THEN Refuse
    ELSE Answer(Changed([attrs EXCEPT !.xattrs = @ \ {key}]), length)

(* The two setters of flags; the one that speaks fsxattr refuses a flag    *)
(* with no counterpart there, both one that is not supported.              *)
ioctl(flags) ==
    IF ~(flags \subseteq Flags) THEN Refuse
    ELSE Answer(IF flags = attrs.flags THEN attrs
                ELSE Changed([attrs EXCEPT !.flags = flags]), length)

open(c, fh, trunc, exec) ==
    LET mask == IF fh.read /\ ~fh.write THEN (IF exec THEN {"x"} ELSE {"r"})
                ELSE IF fh.read THEN {"r", "w"} ELSE {"w"}
    IN  IF \/ ~fh.write /\ trunc
           \/ fh.write /\ is_immutable
           \/ is_append_only /\ ((fh.write /\ ~fh.append) \/ trunc)
           \/ ~may_access(c, mask)
        THEN Refuse ELSE Answer(attrs, length)

(* A new file: creation_mode and creation_gid of the caller and the parent *)
(* directory, which passes on its group if it is setgid.                   *)
Created(c, mode, suid_support, parent_gid) ==
    [mode |-> IF suid_support /\ caller_is_root(c) THEN mode ELSE [mode EXCEPT !.special = {}],
     uid |-> c.uid,
     gid |-> IF parent_gid = {} THEN c.gid ELSE Some(parent_gid),
     size |-> 0, flags |-> {}, xattrs |-> {}, atime |-> 0, mtime |-> 0, ctime |-> 0]

---------------------------------------------------------------------------
(* Requests.                                                               *)

Serve(outcome) ==
    /\ attrs' = outcome.attrs /\ length' = outcome.length
    /\ UNCHANGED <<killpriv, clock>>

(* Refused before anything was written.                                    *)
Undone(outcome) == outcome.reply = "refused" /\ outcome.attrs = attrs

(* A request that changes the content or the owner.                        *)
Modify(c, outcome) ==
    /\ Serve(outcome) /\ UNCHANGED handles
    /\ IF Undone(outcome) THEN UNCHANGED <<modifier, looked>>
       ELSE /\ modifier' = CASE ~c.fsetid /\ caller_outside_group(c) -> "outsider"
                             [] modifier \in {"unprivileged", "outsider"} -> modifier
                             [] OTHER -> IF c.fsetid THEN "privileged" ELSE "unprivileged"
            /\ looked' = {}

Chmod ==
    \E c \in Callers, m \in Modes :
        LET outcome == setattr(c, {m}, {}, {}, {}, {}, {}, {})
        IN  /\ Serve(outcome)
            /\ modifier' = IF outcome.reply = "ok" THEN "nobody" ELSE modifier
            /\ UNCHANGED <<handles, looked, skewed>>

Owners == {c.uid : c \in Callers}
Groups == {c.gid : c \in Callers}

Chown ==
    \E c \in Callers, uid \in Option(Owners), gid \in Option(Groups) :
        /\ uid # {} \/ gid # {}
        /\ Modify(c, setattr(c, {}, uid, gid, {}, {}, {}, {}))
        /\ UNCHANGED skewed

(* With a modification time the record that goes back to disk last is the  *)
(* one from before the truncate.                                           *)
Truncate ==
    \E c \in Callers, size \in 0 .. MaxSize + 1, fh \in Option(handles), mtime \in Option(TimeOrNow) :
        LET outcome == setattr(c, {}, {}, {}, {size}, {}, mtime, fh)
        IN  \/ mtime = {} /\ Modify(c, outcome) /\ UNCHANGED skewed
            \/ /\ mtime # {} /\ Serve(outcome)
               /\ looked' = IF Undone(outcome) THEN looked ELSE {}
               /\ skewed' = TRUE
               /\ UNCHANGED <<handles, modifier>>

Utimens ==
    \E c \in Callers, atime, mtime \in Option(TimeOrNow) :
        LET outcome == setattr(c, {}, {}, {}, {}, atime, mtime, {})
        IN  /\ atime # {} \/ mtime # {}
            /\ Serve(outcome)
            /\ looked' = IF Undone(outcome) THEN looked ELSE {}
            /\ UNCHANGED <<handles, modifier, skewed>>

Open ==
    \E c \in Callers, fh \in Handles, trunc, exec \in BOOLEAN :
        /\ Cardinality(handles \cup {fh}) <= MaxHandles
        /\ exec => ~fh.write /\ ~trunc
        /\ Serve(open(c, fh, trunc, exec))
        /\ handles' = handles \cup (IF open(c, fh, trunc, exec).reply = "ok" THEN {fh} ELSE {})
        /\ UNCHANGED <<modifier, looked, skewed>>

Release ==
    \E fh \in handles :
        /\ handles' = handles \ {fh}
        /\ UNCHANGED <<attrs, length, killpriv, clock, modifier, looked, skewed>>

(* read and, of its source, copy_file_range.                               *)
Read ==
    \E fh \in handles, no_atime \in BOOLEAN :
        /\ Serve(read(fh, no_atime))
        /\ looked' = IF looked = {} /\ fh.read /\ ~no_atime /\ ~is_noatime THEN {clock} ELSE looked
        /\ UNCHANGED <<handles, modifier, skewed>>

(* A handle that appends writes where the kernel takes the end to be.      *)
Write ==
    \E c \in Callers, fh \in handles, offset \in 0 .. MaxSize, n \in 1 .. MaxSize :
        /\ fh.append => offset = attrs.size
        /\ offset + n <= MaxSize
        /\ Modify(c, write(c, fh, offset, n))
        /\ UNCHANGED skewed

Fallocate ==
    \E c \in Callers, offset \in 0 .. MaxSize, n \in 1 .. MaxSize :
    \E mode \in FallocModes, can_take \in BOOLEAN :
        /\ \E fh \in handles : fh.write
        /\ offset + n <= MaxSize
        /\ Modify(c, fallocate(c, offset, n, mode, can_take))
        /\ UNCHANGED skewed

(* The kernel copies into no handle that appends, and asks for no more     *)
(* than it knows the source to hold; the source may have shrunk since.     *)
CopyFileRange ==
    \E c \in Callers, fh \in handles, offset, n \in 0 .. MaxSize :
        /\ ~fh.append /\ offset + n <= MaxSize
        /\ Modify(c, copy_file_range(c, fh, offset, n))
        /\ skewed' = (skewed \/ n = 0)

SetXattr ==
    \E c \in Callers, key \in Keys :
        /\ Serve(setxattr(c, key))
        /\ modifier' = IF setxattr(c, key).reply = "ok" /\ key = "security.capability"
                       THEN "nobody" ELSE modifier
        /\ UNCHANGED <<handles, looked, skewed>>

RemoveXattr ==
    \E c \in Callers, key \in Keys :
        /\ Serve(removexattr(c, key))
        /\ UNCHANGED <<handles, modifier, looked, skewed>>

Ioctl ==
    \E flags \in SUBSET (Flags \cup {"COMPR"}) :
        /\ Serve(ioctl(flags))
        /\ UNCHANGED <<handles, modifier, looked, skewed>>

Tick ==
    /\ clock < MaxClock /\ clock' = clock + 1
    /\ UNCHANGED <<attrs, length, handles, killpriv, modifier, looked, skewed>>

Init ==
    /\ killpriv \in BOOLEAN
    /\ \E c \in Callers, mode \in Modes, suid \in {FALSE, killpriv}, gid \in Option(Groups) :
          attrs = Created(c, mode, suid, gid)
    /\ length = 0 /\ handles = {} /\ clock = 0
    /\ modifier = "nobody" /\ looked = {} /\ skewed = FALSE

Next ==
    \/ Chmod \/ Chown \/ Truncate \/ Utimens \/ Open \/ Release \/ Read \/ Write
    \/ Fallocate \/ CopyFileRange \/ SetXattr \/ RemoveXattr \/ Ioctl \/ Tick

Spec == Init /\ [][Next]_vars

---------------------------------------------------------------------------
(* Properties.                                                             *)

(* The size in the record is the length of the content: write, truncate,   *)
(* fallocate and copy_file_range change two files and agree on both,       *)
(* except for a setattr that carries times with the size and for a copy    *)
(* that finds nothing left in its source.                                  *)
SizeIsLength == ~skewed => attrs.size = length

(* Privileges are earned.  Once stripping them is left to the filesystem,  *)
(* a file changed by a caller without CAP_FSETID keeps neither suid nor an *)
(* effective sgid, one changed by such a caller outside its group no sgid  *)
(* at all, and one changed by anybody no file capability, until somebody   *)
(* gives them anew, whether the change was a write, truncate, chown,       *)
(* fallocate or copy_file_range.  The exception is a truncate that carries *)
(* a modification time: setattr writes the record from before it back, and *)
(* the privileges in it stay what they were.                               *)
PrivilegesEarned ==
    killpriv =>
        /\ modifier \in {"unprivileged", "outsider"} =>
              /\ "suid" \notin attrs.mode.special
              /\ "sgid" \in attrs.mode.special => "x" \notin attrs.mode.grp
        /\ modifier = "outsider" => attrs.mode.special = {}
        /\ modifier # "nobody" => "security.capability" \notin attrs.xattrs

(* File capabilities "have to go on every write, chown and truncate", says *)
(* the comment of clear_file_capabilities: whatever changes the length of  *)
(* the content leaves none.                                                *)
CapabilitiesGo ==
    [][killpriv /\ length' # length => "security.capability" \notin attrs'.xattrs]_vars

(* relatime may skip reads, but not the first after a change: from then on *)
(* the access time is not before the modification time, nor, should that   *)
(* have been set to a time yet to come, before the read.                   *)
AtimeTells == \A t \in looked : attrs.atime >= attrs.mtime \/ attrs.atime >= t

(* While a file is immutable or append-only its mode, owner and extended   *)
(* attributes stay (but for suid, sgid and a capability, which go with a   *)
(* change through an open handle), its content does not shrink, and nobody *)
(* gets a handle to change it with, except to append.  An immutable one is *)
(* changed only through a handle that was opened before.                   *)
Enforces(f) ==
    /\ length' >= length
    /\ attrs'.uid = attrs.uid /\ attrs'.gid = attrs.gid
    /\ \A class \in {"usr", "grp", "oth"} : attrs'.mode[class] = attrs.mode[class]
    /\ attrs'.mode.special \subseteq attrs.mode.special
    /\ attrs'.xattrs \in {attrs.xattrs, attrs.xattrs \ {"security.capability"}}
    /\ \A fh \in handles' \ handles : fh.write => f = "APPEND" /\ fh.append
    /\ \/ \E fh \in handles : fh.write
       \/ /\ attrs'.mode = attrs.mode /\ length' = length
          /\ f = "IMMUTABLE" => attrs'.mtime = attrs.mtime
FlagsEnforcedStep ==
    \A f \in {"IMMUTABLE", "APPEND"} \cap attrs.flags \cap attrs'.flags : Enforces(f)
FlagsEnforced == [][FlagsEnforcedStep]_vars

=============================================================================
