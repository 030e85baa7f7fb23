---------------------------- MODULE MountOptions ----------------------------
(***************************************************************************)
(* Mount options: which ones are accepted together, how each is written    *)
(* for the kernel or for a mount helper, and what those read back.  An     *)
(* option list crosses to its reader as one string, a sequence of          *)
(* characters and keywords here; a keyword ("fsname=", "ro") is one        *)
(* element, since no value of interest contains one.                       *)
(***************************************************************************)
EXTENDS Integers, Sequences, SequencesExt

Comma == ","
Backslash == "\\"
NUL == "NUL"

(* enum MountOption: three kinds carry a value, the others none.           *)
Valued == {"FSName", "Subtype", "CUSTOM"}
Word == [AutoUnmount |-> "auto_unmount", DefaultPermissions |-> "default_permissions",
         Dev |-> "dev", NoDev |-> "nodev", Suid |-> "suid", NoSuid |-> "nosuid",
         RO |-> "ro", RW |-> "rw", Exec |-> "exec", NoExec |-> "noexec",
         Atime |-> "atime", NoAtime |-> "noatime", DirSync |-> "dirsync",
         Sync |-> "sync", Async |-> "async"]
Option(kind, value) == [kind |-> kind, value |-> value]
Plain == {Option(kind, <<>>) : kind \in DOMAIN Word}
Kinds(options) == {options[i].kind : i \in DOMAIN options}
ValuesOf(options, kind) ==
    LET of == SelectSeq(options, LAMBDA o : o.kind = kind)
    IN  [i \in DOMAIN of |-> of[i].value]

Opposites == {{"Dev", "NoDev"}, {"Suid", "NoSuid"}, {"RO", "RW"}, {"Exec", "NoExec"},
              {"Atime", "NoAtime"}, {"Sync", "Async"}}
conflicts_with(kind) ==
    {other \in DOMAIN Word : kind # other /\ {kind, other} \in Opposites}
Conflicting(options) ==
    \E kind \in Kinds(options) : conflicts_with(kind) \cap Kinds(options) # {}

(* check_option_values: the characters a value may not hold.               *)
InvalidIn(kind, platform) ==
    IF kind = "FSName" /\ platform = "linux" THEN {NUL} ELSE {NUL, Comma, Backslash}

check_option_values(options, platform) ==
    \A i \in DOMAIN options :
        ToSet(options[i].value) \cap InvalidIn(options[i].kind, platform) = {}

---------------------------------------------------------------------------
(* Writing a list.                                                         *)

option_to_string(o) ==
    CASE o.kind = "FSName"  -> <<"fsname=">> \o o.value
      [] o.kind = "Subtype" -> <<"subtype=">> \o o.value
      [] o.kind = "CUSTOM"  -> o.value
      [] OTHER              -> <<Word[o.kind]>>

\* Mutant of escape_option_value: a backslash stands for itself.
escape_option_valueCommas(value) ==
    FlattenSeq([i \in DOMAIN value |->
        IF value[i] = Comma THEN <<Backslash, value[i]>> ELSE <<value[i]>>])

escape_option_value(value) ==
    FlattenSeq([i \in DOMAIN value |->
        IF value[i] \in {Comma, Backslash} THEN <<Backslash, value[i]>> ELSE <<value[i]>>])

option_to_escaped_string(o) ==
    IF o.kind = "FSName" THEN <<"fsname=">> \o escape_option_value(o.value)
    ELSE option_to_string(o)

(* SessionACL::to_mount_option                                             *)
to_mount_option(acl) == IF acl \in {"All", "RootAndOwner"} THEN <<<<"allow_other">>>> ELSE <<>>

join(strings) ==
    FlattenSeq([i \in DOMAIN strings |->
        IF i = 1 THEN strings[i] ELSE <<Comma>> \o strings[i]])

(* The options in words, escaped for readers that undo it, and the ACL's.  *)
Escaped(options, acl) ==
    [i \in DOMAIN options |-> option_to_escaped_string(options[i])] \o to_mount_option(acl)
Unescaped(options, acl) ==
    [i \in DOMAIN options |-> option_to_string(options[i])] \o to_mount_option(acl)

option_group(kind) ==
    CASE kind \in {"FSName", "Subtype", "AutoUnmount"} -> "Fusermount"
      [] kind \in {"CUSTOM", "DefaultPermissions"}     -> "KernelOption"
      [] OTHER                                         -> "KernelFlag"

(* option_to_flag: the flags that allow something are the absence of the   *)
(* one that forbids it.                                                    *)
Restricting == {"NoDev", "NoSuid", "RO", "NoExec", "NoAtime", "Sync", "DirSync"}
option_to_flag(kind) == IF kind \in Restricting THEN {Word[kind]} ELSE {}

---------------------------------------------------------------------------
(* Reading it: the readers are the kernel and mount_fusefs, which split at *)
(* every comma, and libfuse and fusermount, which decode escapes.  All     *)
(* stop at NUL.                                                            *)

Terminated(list) ==
    LET ends == {i \in DOMAIN list : list[i] = NUL}
    IN  IF ends = {} THEN list ELSE SubSeq(list, 1, Min(ends) - 1)

(* Where an escape starts, when list is read from the left.                *)
Escapes(list) ==
    LET starts[i \in 0 .. Len(list)] ==
            i > 0 /\ i < Len(list) /\ list[i] = Backslash /\ ~starts[i - 1]
    IN  {i \in DOMAIN list : starts[i]}

(* The parts between the separators, without what is left out of them.     *)
Parts(list, separators, left_out) ==
    LET cuts == {0, Len(list) + 1} \cup separators
        Part(i, j) == FlattenSeq([k \in 1 .. j - i - 1 |->
                          IF i + k \in left_out THEN <<>> ELSE <<list[i + k]>>])
    IN  {Part(i, Min({j \in cuts : j > i})) : i \in cuts \ {Len(list) + 1}} \ {<<>>}

ReadVerbatim(list) ==
    LET s == Terminated(list)
    IN  Parts(s, {i \in DOMAIN s : s[i] = Comma}, {})
ReadDecoding(list) ==
    LET s == Terminated(list)
        escapes == Escapes(s)
    IN  Parts(s, {i \in DOMAIN s : s[i] = Comma /\ i - 1 \notin escapes}, escapes)

(* The mount a helper makes of what it reads.  Only root may lift the      *)
(* defaults nodev and nosuid.                                              *)
HelperMounts(words, root) ==
    LET named(prefix) == {SubSeq(w, 2, Len(w)) : w \in {v \in words : v[1] = prefix}}
        flags == {w[1] : w \in {v \in words : Len(v) = 1}} \cap {Word[k] : k \in DOMAIN Word}
        settings == {"auto_unmount", "default_permissions"}
    IN  [source |-> IF named("fsname=") # {} THEN named("fsname=")
                    ELSE IF named("subtype=") # {} THEN named("subtype=")
                    ELSE {<<"/dev/fuse">>},
         flags |-> (flags \cap {Word[k] : k \in Restricting})
                     \cup (IF root /\ "dev" \in flags THEN {} ELSE {"nodev"})
                     \cup (IF root /\ "suid" \in flags THEN {} ELSE {"nosuid"}),
         opts |-> {w \in words : w[1] \notin {"fsname=", "subtype=", "auto_unmount"}}
                    \ {<<f>> : f \in flags \ settings}]

---------------------------------------------------------------------------
(* The ways a list goes to its reader.                                     *)

(* fuse_mount_fusermount: escaped, in one list                             *)
ByFusermount(options, acl, root) ==
    HelperMounts(ReadDecoding(join(Escaped(options, acl))), root)

(* fuse_mount_mount_fusefs: as they are                                    *)
ByMountFusefs(options, acl, root) ==
    HelperMounts(ReadVerbatim(join(Unescaped(options, acl))), root)

(* with_fuse_args: each escaped, after a -o of its own                     *)
ByLibfuse(options, acl, root) ==
    LET args == Escaped(options, acl)
    IN  HelperMounts(UNION {ReadDecoding(args[i]) : i \in DOMAIN args}, root)

(* fuse_mount_sys: kernel options in a list, flags as flags, and the       *)
(* source as it is.                                                        *)
First(values, otherwise) == IF values = <<>> THEN otherwise ELSE Head(values)
Source(options) ==
    First(ValuesOf(options, "FSName"), First(ValuesOf(options, "Subtype"), <<"/dev/fuse">>))
ByKernel(options, acl) ==
    LET kinds == Kinds(options)
        forKernel == SelectSeq(options, LAMBDA o : option_group(o.kind) = "KernelOption")
    IN  [source |-> {Source(options)},
         flags |-> UNION {option_to_flag(k) : k \in {j \in kinds : option_group(j) = "KernelFlag"}}
                     \cup (IF "Dev" \in kinds THEN {} ELSE {"nodev"})
                     \cup (IF "Suid" \in kinds THEN {} ELSE {"nosuid"}),
         opts |-> ReadVerbatim(join(<<<<"fd=">>>> \o Unescaped(forKernel, acl)))
                    \ {<<"fd=">>}]

=============================================================================
