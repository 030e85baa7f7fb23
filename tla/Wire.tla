-------------------------------- MODULE Wire --------------------------------
(***************************************************************************)
(* What crosses /dev/fuse: the kernel lays a request out as a header, a    *)
(* structure, names and data; AnyRequest and op::parse take it apart with  *)
(* an ArgumentIterator; dispatch_req hands the callback its arguments; the *)
(* answer goes back.  Each exchange is one step here (how exchanges of     *)
(* several threads interleave is in Requests), and a listing of a          *)
(* directory is a sequence of them.                                        *)
(*                                                                         *)
(* A message is a sequence of units, one for a structure's field or a      *)
(* byte of a name or of data.  0 ends a name, and is also what a field may *)
(* hold, so a structure that is taken for a name, or the reverse, reads as *)
(* something else and not as an error.                                     *)
(***************************************************************************)
EXTENDS Times, Listing, FiniteSets, FiniteSetsExt

CONSTANTS Names,       \* names of entries: sequences of units other than 0
          Payloads,    \* data of a write, an ioctl or an attribute's value
          MaxListing,  \* bound: entries of the directory that is listed
          Sizes,       \* the buffer sizes a listing may ask for
          Invalid      \* FUSE_INVALID_UIDGID, as a unit

VARIABLES negotiated,  \* flags of INIT that requests depend on
          asked,       \* the last request, as its caller meant it
          outcome,     \* what the library made of it
          times,       \* the times of a file, as the filesystem keeps them
          directory,   \* the directory the kernel lists
          listing      \* how far it has come

vars == <<negotiated, asked, outcome, times, directory, listing>>

Ids == 0 .. 1

(* Names are as the kernel gives them: never empty, and without a zero.    *)
(* FUSE_INVALID_UIDGID is nobody's id.                                     *)
ASSUME WireAssumption ==
    /\ Names \subseteq Seq(Nat \ {0}) /\ <<>> \notin Names
    /\ Payloads \subseteq Seq(Nat)
    /\ Invalid \notin Ids

Opt(S) == {{}} \cup {{x} : x \in S}
Val(opt) == IF opt = {} THEN 0 ELSE CHOOSE x \in opt : TRUE
Bit(b, opt) == IF opt = {} THEN 0 ELSE b
Flag(b, set) == IF set THEN b ELSE 0
contains(bits, b) == (bits \div b) % 2 = 1
When(set, value) == IF set THEN {value} ELSE {}

---------------------------------------------------------------------------
(* The structures of ll/fuse_abi.rs, field by field.                       *)

fuse_forget_in == <<"nlookup">>
fuse_batch_forget_in == <<"count", "dummy">>
fuse_getattr_in == <<"getattr_flags", "dummy", "fh">>
fuse_statx_in == <<"getattr_flags", "reserved", "fh", "sx_flags", "sx_mask">>
fuse_setattr_in == <<"valid", "padding", "fh", "size", "lock_owner", "atime", "mtime", "ctime",
                     "atimensec", "mtimensec", "ctimensec", "mode", "unused4", "uid", "gid", "unused5">>
fuse_mknod_in == <<"mode", "rdev", "umask", "padding">>
fuse_mkdir_in == <<"mode", "umask">>
fuse_rename_in == <<"newdir">>
fuse_rename2_in == <<"newdir", "flags", "padding">>
fuse_link_in == <<"oldnodeid">>
fuse_open_in == <<"flags", "open_flags">>
fuse_create_in == <<"flags", "mode", "umask", "open_flags">>
fuse_release_in == <<"fh", "flags", "release_flags", "lock_owner">>
fuse_flush_in == <<"fh", "unused", "padding", "lock_owner">>
fuse_read_in == <<"fh", "offset", "size", "read_flags", "lock_owner", "flags", "padding">>
fuse_write_in == <<"fh", "offset", "size", "write_flags", "lock_owner", "flags", "padding">>
fuse_fsync_in == <<"fh", "fsync_flags", "padding">>
fuse_setxattr_in == <<"size", "flags">>
fuse_setxattr_in_ext == <<"setxattr_flags", "padding">>
fuse_getxattr_in == <<"size", "padding">>
fuse_lk_in == <<"fh", "owner", "start", "end", "typ", "pid", "lk_flags", "padding">>
fuse_access_in == <<"mask", "padding">>
fuse_bmap_in == <<"block", "blocksize", "padding">>
fuse_ioctl_in == <<"fh", "flags", "cmd", "arg", "in_size", "out_size">>
fuse_poll_in == <<"fh", "kh", "flags", "events">>
fuse_fallocate_in == <<"fh", "offset", "length", "mode", "padding">>
fuse_lseek_in == <<"fh", "offset", "whence", "padding">>
fuse_syncfs_in == <<"padding">>
fuse_copy_file_range_in == <<"fh_in", "off_in", "nodeid_out", "fh_out", "off_out", "len", "flags">>

---------------------------------------------------------------------------
(* The requests, by what follows their structure.                          *)

NameOps == {"LOOKUP", "UNLINK", "RMDIR", "REMOVEXATTR"}
PlainOps == {"READLINK", "STATFS", "SYNCFS"}
ForgetOps == {"FORGET", "BATCH_FORGET"}
AttrOps == {"GETATTR", "STATX"}
MakeOps == {"SYMLINK", "MKNOD", "MKDIR", "CREATE", "TMPFILE"}
RenameOps == {"RENAME", "RENAME2"}
OpenOps == {"OPEN", "OPENDIR", "RELEASE", "RELEASEDIR", "FLUSH", "FSYNC", "FSYNCDIR"}
DataOps == {"READ", "WRITE", "FALLOCATE", "COPY_FILE_RANGE", "LSEEK"}
XattrOps == {"SETXATTR", "GETXATTR", "LISTXATTR"}
LockOps == {"GETLK", "SETLK", "SETLKW"}
OtherOps == {"ACCESS", "BMAP", "POLL", "IOCTL"}
(* Requests no callback is called for: INIT after the handshake, the ones  *)
(* left to do and opcodes the library does not know.                       *)
UnservedOps == {"INIT", "INTERRUPT", "NOTIFY_REPLY", "CUSE_INIT", "UNKNOWN"}

TwoNames == {"SYMLINK", "RENAME", "RENAME2"}
OneName == NameOps \cup {"MKNOD", "MKDIR", "CREATE", "TMPFILE", "LINK", "SETXATTR", "GETXATTR"}
NameCount(op) == IF op \in TwoNames THEN 2 ELSE IF op \in OneName THEN 1 ELSE 0

(* The structure op::parse fetches for an opcode.                          *)
Struct(op, ext) ==
    CASE op = "FORGET" -> fuse_forget_in
      [] op = "BATCH_FORGET" -> fuse_batch_forget_in
      [] op = "GETATTR" -> fuse_getattr_in
      [] op = "STATX" -> fuse_statx_in
      [] op = "SETATTR" -> fuse_setattr_in
      [] op = "MKNOD" -> fuse_mknod_in
      [] op = "MKDIR" -> fuse_mkdir_in
      [] op = "RENAME" -> fuse_rename_in
      [] op = "RENAME2" -> fuse_rename2_in
      [] op = "LINK" -> fuse_link_in
      [] op \in {"OPEN", "OPENDIR"} -> fuse_open_in
      [] op \in {"CREATE", "TMPFILE"} -> fuse_create_in
      [] op \in {"RELEASE", "RELEASEDIR"} -> fuse_release_in
      [] op = "FLUSH" -> fuse_flush_in
      [] op \in {"READ", "READDIR", "READDIRPLUS"} -> fuse_read_in
      [] op = "WRITE" -> fuse_write_in
      [] op \in {"FSYNC", "FSYNCDIR"} -> fuse_fsync_in
      [] op = "SETXATTR" ->
            IF ext THEN fuse_setxattr_in \o fuse_setxattr_in_ext ELSE fuse_setxattr_in
      [] op \in {"GETXATTR", "LISTXATTR"} -> fuse_getxattr_in
      [] op \in LockOps -> fuse_lk_in
      [] op = "ACCESS" -> fuse_access_in
      [] op = "BMAP" -> fuse_bmap_in
      [] op = "IOCTL" -> fuse_ioctl_in
      [] op = "POLL" -> fuse_poll_in
      [] op = "FALLOCATE" -> fuse_fallocate_in
      [] op = "LSEEK" -> fuse_lseek_in
      [] op = "SYNCFS" -> fuse_syncfs_in
      [] op = "COPY_FILE_RANGE" -> fuse_copy_file_range_in
      [] OTHER -> <<>>

---------------------------------------------------------------------------
(* ArgumentIterator, on what is left of a message: what is fetched and     *)
(* what stays, or nothing if there is not enough.                          *)

fetch(struct, data) ==
    IF Len(data) < Len(struct) THEN {}
    ELSE {[arg |-> [f \in ToSet(struct) |-> data[CHOOSE i \in DOMAIN struct : struct[i] = f]],
           rest |-> SubSeq(data, Len(struct) + 1, Len(data))]}

fetch_str(data) ==
    LET zeros == {i \in DOMAIN data : data[i] = 0}
        len == Min(zeros)
    IN  IF zeros = {} THEN {}
        ELSE {[str |-> SubSeq(data, 1, len - 1), rest |-> SubSeq(data, len + 1, Len(data))]}

fetch_slice(count, width, data) ==
    IF Len(data) < count * width THEN {}
    ELSE {[i \in 1 .. count |-> SubSeq(data, (i - 1) * width + 1, i * width)]}

(* The names that follow the structure, and the rest.                      *)
FetchNames(n, data) ==
    IF n = 0 THEN {[strs |-> <<>>, rest |-> data]}
    ELSE UNION {IF n = 1 THEN {[strs |-> <<x.str>>, rest |-> x.rest]}
                ELSE {[strs |-> <<x.str, y.str>>, rest |-> y.rest] : y \in fetch_str(x.rest)} :
                x \in fetch_str(data)}

(* op::parse.  Trailing bytes are ignored except where they are data; an   *)
(* attribute's value must have the length the structure gives.             *)
parse(op, body, ext) ==
    {p \in UNION {{[arg |-> s.arg, strs |-> n.strs, rest |-> n.rest] :
                      n \in FetchNames(NameCount(op), s.rest)} :
                  s \in fetch(Struct(op, ext), body)} :
        /\ op = "SETXATTR" => Len(p.rest) = p.arg.size
        /\ op = "BATCH_FORGET" => fetch_slice(p.arg.count, 2, p.rest) # {}}

(* The assert! of WRITE and the slice of IOCTL's in_data.                  *)
ParsePanics(op, p) ==
    CASE op = "WRITE" -> Len(p.rest) # p.arg.size
      [] op = "IOCTL" -> Len(p.rest) < p.arg.in_size
      [] OTHER -> FALSE

---------------------------------------------------------------------------
(* Callbacks: the arguments dispatch_req takes from a parsed request,      *)
(* through the accessors of its op structure.  An optional argument is a   *)
(* set of at most one value.                                               *)

FATTR_MODE == 1
FATTR_UID == 2
FATTR_GID == 4
FATTR_SIZE == 8
FATTR_ATIME == 16
FATTR_MTIME == 32
FATTR_FH == 64
FATTR_ATIME_NOW == 128
FATTR_MTIME_NOW == 256
FATTR_CTIME == 1024
FATTR_KILL_SUIDGID == 2048
GETATTR_FH == 1
READ_LOCKOWNER == 2
WRITE_LOCKOWNER == 2
RELEASE_FLUSH == 1
RELEASE_FLOCK_UNLOCK == 2
FSYNC_FDATASYNC == 1
OPEN_KILL_SUIDGID == 1
IOCTL_UNRESTRICTED == 2
RENAME_WHITEOUT == 4
Now == <<"now", 0>>
At(t) == <<"at", t>>

(* The accessors of ll::op, structure by structure.                        *)
LookupArgs(strs) == <<strs[1]>>         \* unlink and rmdir too
RemoveXAttrArgs(strs) == <<strs[1]>>
ForgetArgs(a) == <<a.nlookup>>
BatchForgetArgs(a, rest) == CHOOSE nodes \in fetch_slice(a.count, 2, rest) : TRUE

GetAttrArgs(a) == <<When(contains(a.getattr_flags, GETATTR_FH), a.fh)>>
StatXArgs(a) == GetAttrArgs(a) \o <<a.sx_flags, a.sx_mask>>

SetAttrArgs(a) ==
    LET valid(b) == contains(a.valid, b)
        time(b, now, secs, nsecs) ==
            When(valid(b), IF valid(now) THEN Now ELSE At(system_time_from_time(secs, nsecs)))
    IN  <<When(valid(FATTR_MODE), a.mode),
          When(valid(FATTR_UID), a.uid),
          When(valid(FATTR_GID), a.gid),
          When(valid(FATTR_SIZE), a.size),
          time(FATTR_ATIME, FATTR_ATIME_NOW, a.atime, a.atimensec),
          time(FATTR_MTIME, FATTR_MTIME_NOW, a.mtime, a.mtimensec),
          When(valid(FATTR_CTIME), At(system_time_from_time(a.ctime, a.ctimensec))),
          When(valid(FATTR_FH), a.fh),
          valid(FATTR_KILL_SUIDGID)>>

\* Mutant of SymLinkArgs: the two paths change places.
SymLinkArgsSwapped(strs) == <<strs[2], strs[1]>>
SymLinkArgs(strs) == <<strs[1], strs[2]>>     \* link_name, target
MkNodArgs(a, strs) == <<strs[1], a.mode, a.umask, a.rdev>>
MkDirArgs(a, strs) == <<strs[1], a.mode, a.umask>>
CreateArgs(a, strs) ==
    <<strs[1], a.mode, a.umask, a.flags, contains(a.open_flags, OPEN_KILL_SUIDGID)>>
TmpFileArgs(a) ==                             \* the name sent with it is not used
    <<a.mode, a.umask, a.flags, contains(a.open_flags, OPEN_KILL_SUIDGID)>>

RenameArgs(a, strs) == <<strs[1], a.newdir, strs[2], 0>>
Rename2Args(a, strs) == <<strs[1], a.newdir, strs[2], a.flags>>
(* The node of the header is the directory the link is made in.            *)
LinkArgs(h, a, strs) == <<a.oldnodeid, h.nodeid, strs[1]>>

OpenArgs(a) == <<a.flags, contains(a.open_flags, OPEN_KILL_SUIDGID)>>
OpenDirArgs(a) == <<a.flags>>
ReleaseArgs(a) ==
    <<a.fh, a.flags, When(contains(a.release_flags, RELEASE_FLOCK_UNLOCK), a.lock_owner),
      contains(a.release_flags, RELEASE_FLUSH)>>
ReleaseDirArgs(a) == <<a.fh, a.flags>>
FlushArgs(a) == <<a.fh, a.lock_owner>>
FSyncArgs(a) == <<a.fh, contains(a.fsync_flags, FSYNC_FDATASYNC)>>
FSyncDirArgs(a) == FSyncArgs(a)

ReadArgs(a) ==
    <<a.fh, a.offset, a.size, a.flags, When(contains(a.read_flags, READ_LOCKOWNER), a.lock_owner)>>
WriteArgs(a, rest) ==
    <<a.fh, a.offset, rest, a.write_flags, a.flags,
      When(contains(a.write_flags, WRITE_LOCKOWNER), a.lock_owner)>>
FAllocateArgs(a) == <<a.fh, a.offset, a.length, a.mode>>
LseekArgs(a) == <<a.fh, a.offset, a.whence>>
CopyFileRangeArgs(h, a) ==
    <<h.nodeid, a.fh_in, a.off_in, a.nodeid_out, a.fh_out, a.off_out, a.len, a.flags>>
ReadDirArgs(a) == <<a.fh, a.offset, a.size>>
ReadDirPlusArgs(a) == ReadDirArgs(a)

SetXAttrArgs(a, strs, rest) == <<strs[1], rest, a.flags>>
GetXAttrArgs(a, strs) == <<strs[1], a.size>>
ListXAttrArgs(a) == <<a.size>>

lock(a) == <<a.start, a.end, a.typ, a.pid>>
GetLkArgs(a) == <<a.fh, a.owner>> \o lock(a)
SetLkArgs(op, a) == <<a.fh, a.owner>> \o lock(a) \o <<op = "SETLKW">>

AccessArgs(a) == <<a.mask>>
BMapArgs(a) == <<a.blocksize, a.block>>
PollArgs(a) == <<a.fh, a.kh, a.events, a.flags>>
IoCtlArgs(a, rest) == <<a.fh, a.flags, a.cmd, SubSeq(rest, 1, a.in_size), a.out_size>>

(* The arms of dispatch_req that call the filesystem, in its order.        *)
NodeOps == {"LOOKUP", "FORGET", "GETATTR", "SETATTR", "READLINK", "MKNOD", "MKDIR", "UNLINK",
            "RMDIR", "SYMLINK", "RENAME", "LINK"}
NodeArgs(op, h, p) ==
    CASE op \in {"LOOKUP", "UNLINK", "RMDIR"} -> LookupArgs(p.strs)
      [] op = "FORGET" -> ForgetArgs(p.arg)
      [] op = "GETATTR" -> GetAttrArgs(p.arg)
      [] op = "SETATTR" -> SetAttrArgs(p.arg)
      [] op = "READLINK" -> <<>>
      [] op = "MKNOD" -> MkNodArgs(p.arg, p.strs)
      [] op = "MKDIR" -> MkDirArgs(p.arg, p.strs)
      [] op = "SYMLINK" -> SymLinkArgs(p.strs)
      [] op = "RENAME" -> RenameArgs(p.arg, p.strs)
      [] op = "LINK" -> LinkArgs(h, p.arg, p.strs)

FileArgs(op, p) ==
    CASE op = "OPEN" -> OpenArgs(p.arg)
      [] op = "READ" -> ReadArgs(p.arg)
      [] op = "WRITE" -> WriteArgs(p.arg, p.rest)
      [] op = "FLUSH" -> FlushArgs(p.arg)
      [] op = "RELEASE" -> ReleaseArgs(p.arg)
      [] op = "FSYNC" -> FSyncArgs(p.arg)
      [] op = "OPENDIR" -> OpenDirArgs(p.arg)
      [] op = "READDIR" -> ReadDirArgs(p.arg)
      [] op = "RELEASEDIR" -> ReleaseDirArgs(p.arg)
      [] op = "FSYNCDIR" -> FSyncDirArgs(p.arg)
      [] op = "STATFS" -> <<>>

AccessOps == XattrOps \cup LockOps \cup {"REMOVEXATTR", "ACCESS", "CREATE", "BMAP"}
AccessArmArgs(op, p) ==
    CASE op = "SETXATTR" -> SetXAttrArgs(p.arg, p.strs, p.rest)
      [] op = "GETXATTR" -> GetXAttrArgs(p.arg, p.strs)
      [] op = "LISTXATTR" -> ListXAttrArgs(p.arg)
      [] op = "REMOVEXATTR" -> RemoveXAttrArgs(p.strs)
      [] op = "ACCESS" -> AccessArgs(p.arg)
      [] op = "CREATE" -> CreateArgs(p.arg, p.strs)
      [] op = "GETLK" -> GetLkArgs(p.arg)
      [] op \in {"SETLK", "SETLKW"} -> SetLkArgs(op, p.arg)
      [] op = "BMAP" -> BMapArgs(p.arg)

LaterOps == {"IOCTL", "POLL", "BATCH_FORGET", "FALLOCATE", "READDIRPLUS", "RENAME2", "LSEEK",
             "COPY_FILE_RANGE", "SYNCFS", "STATX", "TMPFILE"}
LaterArgs(op, h, p) ==
    CASE op = "IOCTL" -> IoCtlArgs(p.arg, p.rest)
      [] op = "POLL" -> PollArgs(p.arg)
      [] op = "BATCH_FORGET" -> BatchForgetArgs(p.arg, p.rest)
      [] op = "FALLOCATE" -> FAllocateArgs(p.arg)
      [] op = "READDIRPLUS" -> ReadDirPlusArgs(p.arg)
      [] op = "RENAME2" -> Rename2Args(p.arg, p.strs)
      [] op = "LSEEK" -> LseekArgs(p.arg)
      [] op = "COPY_FILE_RANGE" -> CopyFileRangeArgs(h, p.arg)
      [] op = "SYNCFS" -> <<>>
      [] op = "STATX" -> StatXArgs(p.arg)
      [] op = "TMPFILE" -> TmpFileArgs(p.arg)

Args(op, h, p) ==
    CASE op \in NodeOps -> NodeArgs(op, h, p)
      [] op \in AccessOps -> AccessArmArgs(op, p)
      [] op \in LaterOps -> LaterArgs(op, h, p)
      [] OTHER -> FileArgs(op, p)

Callback(op) ==
    CASE op \in RenameOps -> "RENAME"
      [] op \in {"SETLK", "SETLKW"} -> "SETLK"
      [] OTHER -> op

(* The offsets dispatch_req validates, in a request that has any.          *)
Offsets(op, a) ==
    CASE op \in {"READ", "WRITE"} -> {a.offset}
      [] op = "FALLOCATE" -> {a.offset, a.length}
      [] op = "COPY_FILE_RANGE" -> {a.off_in, a.off_out}
      [] OTHER -> {}
validate_off_t(value) == value <= I64Max

(* The errno a request is refused with before its callback is called.      *)
Refused(op, a) ==
    CASE op = "INIT" -> {"EIO"}
      [] op \in UnservedOps \ {"INIT"} -> {"ENOSYS"}
      [] op = "SETXATTR" /\ "setxattr_flags" \in DOMAIN a /\ a.setxattr_flags # 0 -> {"ENOTSUP"}
      [] op = "IOCTL" /\ contains(a.flags, IOCTL_UNRESTRICTED) -> {"ENOSYS"}
      [] \E o \in Offsets(op, a) : ~validate_off_t(o) -> {"EINVAL"}
      [] OTHER -> {}

idmapped == "ALLOW_IDMAP" \in negotiated

(* The caller the filesystem sees: RequestWithSender::masked_header.       *)
request_header(h) == IF idmapped THEN Invalid ELSE h.uid

whiteout_owner(h, flags) == When(contains(flags, RENAME_WHITEOUT) /\ h.uid # Invalid, h.uid)

Owner(op, h, a) ==
    CASE op \in MakeOps -> {h.uid}
      [] op = "RENAME2" -> whiteout_owner(h, a.flags)
      [] OTHER -> {}

(* dispatch: a callback, an errno, or the panic of an assertion.           *)
Call(op, h, p) ==
    [result |-> "call", call |-> Callback(op), node |-> h.nodeid, caller |-> request_header(h),
     owner |-> Owner(op, h, p.arg), args |-> Args(op, h, p)]
Answered(errno) == [result |-> errno]

dispatch(h, body) ==
    LET parsed == parse(h.opcode, body, "SETXATTR_EXT" \in negotiated)
        p == CHOOSE x \in parsed : TRUE
        op == h.opcode
    IN  IF parsed = {} THEN Answered("ENOSYS")
        ELSE IF op = "WRITE" /\ ParsePanics(op, p) THEN Answered("panic")
        ELSE IF Refused(op, p.arg) # {} THEN Answered(CHOOSE e \in Refused(op, p.arg) : TRUE)
        ELSE IF ParsePanics(op, p) THEN Answered("panic")
        ELSE Call(op, h, p)

---------------------------------------------------------------------------
(* The kernel: the arguments system calls lead to, and how it lays them    *)
(* out, after include/uapi/linux/fuse.h.                                   *)

Times == {Now} \cup {At(t) : t \in I64Min * Second .. I64Max * Second + Second - 1}
Offs == {0, I64Max, I64Max + 1}

AskedAttrs ==
    {<<m, u, u, z, a, t, c, fh, k>> : m \in Opt({1}), u \in Opt(Ids), z \in Opt({1}), a \in Opt(Times),
        t \in Opt({Now, At(-1)}), c \in Opt({At(0)}), fh \in Opt({1}), k \in BOOLEAN}

AskedArgs(op) ==
    CASE op \in NameOps -> {<<n>> : n \in Names}
      [] op \in PlainOps \cup UnservedOps -> {<<>>}
      [] op = "FORGET" -> {<<n>> : n \in Ids}
      [] op = "BATCH_FORGET" -> UNION {[1 .. k -> Ids \X Ids] : k \in 0 .. 2}
      [] op = "GETATTR" -> {<<fh>> : fh \in Opt(Ids)}
      [] op = "STATX" -> Opt(Ids) \X Ids \X Ids
      [] op = "SETATTR" -> AskedAttrs
      [] op = "SYMLINK" -> Names \X Names
      [] op = "MKNOD" -> Names \X Ids \X Ids \X Ids
      [] op = "MKDIR" -> Names \X Ids \X Ids
      [] op = "CREATE" -> Names \X Ids \X Ids \X Ids \X BOOLEAN
      [] op = "TMPFILE" -> Ids \X Ids \X Ids \X BOOLEAN
      [] op = "RENAME" -> Names \X Ids \X Names \X {0}
      [] op = "RENAME2" -> Names \X Ids \X Names \X (1 .. 5)
      [] op = "LINK" -> Ids \X {0} \X Names
      [] op = "OPEN" -> Ids \X BOOLEAN
      [] op = "OPENDIR" -> {<<f>> : f \in Ids}
      [] op = "RELEASE" -> Ids \X Ids \X Opt(Ids) \X BOOLEAN
      [] op \in {"RELEASEDIR", "FLUSH"} -> Ids \X Ids
      [] op \in {"FSYNC", "FSYNCDIR"} -> Ids \X BOOLEAN
      [] op = "READ" -> Ids \X Offs \X Ids \X Ids \X Opt(Ids)
      [] op = "WRITE" -> {<<fh, o, d, f + Bit(WRITE_LOCKOWNER, l), g, l>> :
                            fh \in Ids, o \in Offs, d \in Payloads, f \in {0, 1}, g \in Ids, l \in Opt(Ids)}
      [] op = "FALLOCATE" -> Ids \X Offs \X Offs \X Ids
      [] op = "LSEEK" -> Ids \X Offs \X Ids
      [] op = "COPY_FILE_RANGE" -> {0} \X Ids \X Offs \X Ids \X Ids \X Offs \X Ids \X {0}
      [] op = "SETXATTR" -> Names \X Payloads \X Ids
      [] op = "GETXATTR" -> Names \X Ids
      [] op = "LISTXATTR" -> {<<z>> : z \in Ids}
      [] op = "GETLK" -> Ids \X Ids \X Ids \X Ids \X Ids \X Ids
      [] op \in {"SETLK", "SETLKW"} -> Ids \X Ids \X Ids \X Ids \X Ids \X Ids \X {op = "SETLKW"}
      [] op = "ACCESS" -> {<<m>> : m \in Ids}
      [] op = "BMAP" -> Ids \X Ids
      [] op = "POLL" -> Ids \X Ids \X Ids \X Ids
      [] op = "IOCTL" -> Ids \X (0 .. 3) \X Ids \X Payloads \X Ids

Str(name) == Append(name, 0)
Secs(time) == IF time \in {{}, {Now}} THEN 0 ELSE Val(time)[2] \div Second
Nsecs(time) == IF time \in {{}, {Now}} THEN 0 ELSE Val(time)[2] % Second

SetAttrBody(x) ==
    <<Bit(FATTR_MODE, x[1]) + Bit(FATTR_UID, x[2]) + Bit(FATTR_GID, x[3]) + Bit(FATTR_SIZE, x[4])
        + Bit(FATTR_ATIME, x[5]) + Flag(FATTR_ATIME_NOW, Now \in x[5])
        + Bit(FATTR_MTIME, x[6]) + Flag(FATTR_MTIME_NOW, Now \in x[6])
        + Bit(FATTR_CTIME, x[7]) + Bit(FATTR_FH, x[8]) + Flag(FATTR_KILL_SUIDGID, x[9]),
      0, Val(x[8]), Val(x[4]), 0, Secs(x[5]), Secs(x[6]), Secs(x[7]),
      Nsecs(x[5]), Nsecs(x[6]), Nsecs(x[7]), Val(x[1]), 0, Val(x[2]), Val(x[3]), 0>>

Body(op, x, ext, acl) ==
    CASE op \in NameOps -> Str(x[1])
      [] op \in {"READLINK", "STATFS"} \cup UnservedOps -> <<>>
      [] op = "SYNCFS" -> <<0>>
      [] op = "FORGET" -> x
      [] op = "BATCH_FORGET" -> <<Len(x), 0>> \o [k \in 1 .. 2 * Len(x) |-> x[(k + 1) \div 2][2 - (k % 2)]]
      [] op = "GETATTR" -> <<Bit(GETATTR_FH, x[1]), 0, Val(x[1])>>
      [] op = "STATX" -> <<Bit(GETATTR_FH, x[1]), 0, Val(x[1]), x[2], x[3]>>
      [] op = "SETATTR" -> SetAttrBody(x)
      [] op = "SYMLINK" -> Str(x[1]) \o Str(x[2])
      [] op = "MKNOD" -> <<x[2], x[4], x[3], 0>> \o Str(x[1])
      [] op = "MKDIR" -> <<x[2], x[3]>> \o Str(x[1])
      [] op = "CREATE" -> <<x[4], x[2], x[3], Flag(OPEN_KILL_SUIDGID, x[5])>> \o Str(x[1])
      [] op = "TMPFILE" -> <<x[3], x[1], x[2], Flag(OPEN_KILL_SUIDGID, x[4])>> \o Str(<<1>>)
      [] op = "RENAME" -> <<x[2]>> \o Str(x[1]) \o Str(x[3])
      [] op = "RENAME2" -> <<x[2], x[4], 0>> \o Str(x[1]) \o Str(x[3])
      [] op = "LINK" -> <<x[1]>> \o Str(x[3])
      [] op = "OPEN" -> <<x[1], Flag(OPEN_KILL_SUIDGID, x[2])>>
      [] op = "OPENDIR" -> <<x[1], 0>>
      [] op = "RELEASE" -> <<x[1], x[2], Bit(RELEASE_FLOCK_UNLOCK, x[3]) + Flag(RELEASE_FLUSH, x[4]), Val(x[3])>>
      [] op = "RELEASEDIR" -> <<x[1], x[2], 0, 0>>
      [] op = "FLUSH" -> <<x[1], 0, 0, x[2]>>
      [] op \in {"FSYNC", "FSYNCDIR"} -> <<x[1], Flag(FSYNC_FDATASYNC, x[2]), 0>>
      [] op = "READ" -> <<x[1], x[2], x[3], Bit(READ_LOCKOWNER, x[5]), Val(x[5]), x[4], 0>>
      [] op = "WRITE" -> <<x[1], x[2], Len(x[3]), x[4], Val(x[6]), x[5], 0>> \o x[3]
      [] op = "FALLOCATE" -> <<x[1], x[2], x[3], x[4], 0>>
      [] op = "LSEEK" -> <<x[1], x[2], x[3], 0>>
      [] op = "COPY_FILE_RANGE" -> <<x[2], x[3], x[4], x[5], x[6], x[7], x[8]>>
      [] op = "SETXATTR" -> <<Len(x[2]), x[3]>> \o (IF ext THEN <<acl, 0>> ELSE <<>>) \o Str(x[1]) \o x[2]
      [] op = "GETXATTR" -> <<x[2], 0>> \o Str(x[1])
      [] op = "LISTXATTR" -> <<x[1], 0>>
      [] op \in LockOps -> <<x[1], x[2], x[3], x[4], x[5], x[6], 0, 0>>
      [] op = "ACCESS" -> <<x[1], 0>>
      [] op = "BMAP" -> <<x[2], x[1], 0>>
      [] op = "POLL" -> <<x[1], x[2], x[4], x[3]>>
      [] op = "IOCTL" -> <<x[1], x[2], x[3], 0, Len(x[4]), x[5]>> \o x[4]

Creates(op, x) == op \in MakeOps \/ (op = "RENAME2" /\ contains(x[4], RENAME_WHITEOUT))

(* Without idmapping the kernel sends the caller's id.  With it, it sends  *)
(* the id that is to own an inode the request creates, and no other.       *)
SentId(op, x, caller, mapped) ==
    IF ~idmapped THEN caller ELSE IF Creates(op, x) THEN mapped ELSE Invalid

(* What the library must not serve, in terms of what was asked.            *)
Unservable(op, x, acl) ==
    CASE op = "INIT" -> {"EIO"}
      [] op \in UnservedOps \ {"INIT"} -> {"ENOSYS"}
      [] op = "SETXATTR" -> When(acl # 0, "ENOTSUP")
      [] op = "IOCTL" -> When(x[2] \in {2, 3}, "ENOSYS")
      [] op \in {"READ", "WRITE"} -> When(x[2] > I64Max, "EINVAL")
      [] op = "FALLOCATE" -> When(x[2] > I64Max \/ x[3] > I64Max, "EINVAL")
      [] op = "COPY_FILE_RANGE" -> When(x[3] > I64Max \/ x[6] > I64Max, "EINVAL")
      [] OTHER -> {}

Meant(op, x, caller, mapped) ==
    [result |-> "call", call |-> Callback(op), node |-> 0,
     caller |-> IF idmapped THEN Invalid ELSE caller,
     owner |-> IF Creates(op, x) THEN {IF idmapped THEN mapped ELSE caller} ELSE {},
     args |-> x]

---------------------------------------------------------------------------
(* Exchanges.  They share no state but a file's times and the place a      *)
(* listing has reached, so a behaviour has one request, or one listing.    *)
(* An idmapping gives every caller another id.                             *)

Ops == NameOps \cup PlainOps \cup ForgetOps \cup AttrOps \cup {"SETATTR", "LINK"} \cup MakeOps
       \cup RenameOps \cup OpenOps \cup DataOps \cup XattrOps \cup LockOps \cup OtherOps \cup UnservedOps

Nothing == [result |-> "none"]

(* A filesystem that keeps the times it is given; it takes now to be 0.    *)
Kept(old, time) == IF time = {} THEN old ELSE Val(time)[2]

Exchange(op, x, caller, mapped, acl, mislaid) ==
    LET ext == ("SETXATTR_EXT" \in negotiated) # mislaid
        h == [opcode |-> op, nodeid |-> 0, uid |-> SentId(op, x, caller, mapped)]
        made == dispatch(h, Body(op, x, ext, acl))
    IN  /\ outcome = Nothing /\ directory = <<>> /\ ~listing.done
        /\ outcome' = made
        /\ asked' = [meant |-> Meant(op, x, caller, mapped), refuse |-> Unservable(op, x, acl), mislaid |-> mislaid]
        /\ times' = IF op = "SETATTR" /\ made.result = "call"
                    THEN [wanted |-> Kept(times.wanted, x[5]), kept |-> Kept(times.kept, made.args[5])]
                    ELSE times
        /\ UNCHANGED <<negotiated, directory, listing>>

Request ==
    \E op \in Ops \ {"SETXATTR"} : \E x \in AskedArgs(op), caller \in Ids :
        Exchange(op, x, caller, 1 - caller, 0, FALSE)

(* The structure of SETXATTR depends on what INIT agreed on; mislaid is    *)
(* one laid out the other way.                                             *)
SetXattr ==
    \E x \in AskedArgs("SETXATTR"), caller \in Ids, acl \in 0 .. 1, mislaid \in BOOLEAN :
        /\ acl # 0 => ("SETXATTR_EXT" \in negotiated) # mislaid
        /\ Exchange("SETXATTR", x, caller, 1 - caller, acl, mislaid)

(* READDIR and READDIRPLUS: the kernel asks for more from the offset of    *)
(* the last entry it was given, until an answer is empty.                  *)
ReadDir(plus) ==
    \E size \in Sizes :
        LET op == IF plus THEN "READDIRPLUS" ELSE "READDIR"
            made == dispatch([opcode |-> op, nodeid |-> 0, uid |-> 0],
                             <<1, listing.offset, size, 0, 0, 0, 0>>)
            found == Walk(Fill(directory, made.args[2], plus, made.args[3]), plus)
        IN  /\ outcome = Nothing /\ ~listing.done
            /\ listing' = [got |-> listing.got \o [i \in DOMAIN found |-> found[i].name],
                           offset |-> IF found = <<>> THEN listing.offset ELSE found[Len(found)].off,
                           done |-> found = <<>>]
            /\ UNCHANGED <<negotiated, asked, outcome, times, directory>>

Directories == UNION {{d \in [1 .. k -> Names] : \A i, j \in 1 .. k : i # j => d[i] # d[j]} : k \in 0 .. MaxListing}

Init ==
    /\ negotiated \in SUBSET {"SETXATTR_EXT", "ALLOW_IDMAP"}
    /\ asked = [meant |-> Nothing, refuse |-> {}, mislaid |-> FALSE]
    /\ outcome = Nothing
    /\ times = [wanted |-> 0, kept |-> 0]
    /\ directory \in Directories
    /\ listing = [got |-> <<>>, offset |-> 0, done |-> FALSE]

Next == Request \/ SetXattr \/ ReadDir(FALSE) \/ ReadDir(TRUE)

Spec == Init /\ [][Next]_vars

---------------------------------------------------------------------------
(* Properties.                                                             *)

(* A callback is called with exactly what the system call asked for, every *)
(* optional argument present if and only if it was given; on an idmapped   *)
(* connection the caller is unknown and the id on the wire reaches the     *)
(* filesystem as the owner of what is created, and only then.  A request   *)
(* the library cannot serve is refused with the errno for it; one laid out *)
(* otherwise than negotiated is refused and never applied as another.      *)
CalledAsMeant ==
    outcome.result # "none" =>
        IF asked.mislaid THEN outcome.result \in {"ENOSYS", "ENOTSUP"}
        ELSE IF asked.refuse # {} THEN {outcome.result} = asked.refuse
        ELSE outcome = asked.meant

(* A time set by utimensat(2), before the epoch or after it and up to the  *)
(* ends of the range, is the time a later stat reports: it survives        *)
(* system_time_from_time on the way in and time_from_system_time on the    *)
(* way out.                                                                *)
TimesSurvive ==
    LET t == time_from_system_time(times.kept)
    IN  t \in Timespec /\ t[1] * Second + t[2] = times.wanted

(* A directory that does not change is listed completely: every entry once *)
(* and in order, wherever the limit of each answer falls among the padded  *)
(* entries, as long as a buffer has room for any one entry.                *)
ListedOnce ==
    /\ IsPrefix(listing.got, directory)
    /\ listing.done => listing.got = directory

=============================================================================
