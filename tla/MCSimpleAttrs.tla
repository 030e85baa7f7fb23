---------------------------- MODULE MCSimpleAttrs ----------------------------
(* Constants for the runs of SimpleAttrs.                                  *)
EXTENDS SimpleAttrs

(* Root, root without CAP_FSETID, and a user.                              *)
MCCallers ==
    {[uid |-> 0, gid |-> 0, groups |-> {0}, fsetid |-> TRUE],
     [uid |-> 0, gid |-> 0, groups |-> {0}, fsetid |-> FALSE],
     [uid |-> 1, gid |-> 1, groups |-> {1}, fsetid |-> FALSE]}

(* 06770, and 02600: setgid without the group's exec bit.                  *)
MCModes ==
    {[special |-> {"suid", "sgid"}, usr |-> {"r", "w", "x"}, grp |-> {"r", "w", "x"}, oth |-> {}],
     [special |-> {"sgid"}, usr |-> {"r", "w"}, grp |-> {}, oth |-> {}]}

(* Time and privileges do not meet: a step that moves a time looks at no   *)
(* privilege and the other way round.  So the file is either one of the    *)
(* callers, modes and attributes above, with all times at the start and    *)
(* its reads not recorded, or the user's plain file, with any times and at *)
(* most one flag.                                                          *)
TimesOrPrivileges ==
    \/ looked = {} /\ clock = 0 /\ attrs.atime = 0 /\ attrs.mtime = 0 /\ attrs.ctime = 0
    \/ /\ ~killpriv /\ attrs.uid = 1 /\ attrs.gid = 1
       /\ attrs.mode = [special |-> {}, usr |-> {"r", "w"}, grp |-> {}, oth |-> {}]
       /\ attrs.xattrs = {} /\ Cardinality(attrs.flags) <= 1

=============================================================================
