------------------------- MODULE SimpleAttrsProofs -------------------------
(***************************************************************************)
(* The record of a file in examples/simple.rs keeps its promises for any   *)
(* callers, modes, sizes and clock.                                        *)
(***************************************************************************)
EXTENDS SimpleAttrs, TLAPS

Records ==
    [mode : ModeBits, uid : Nat, gid : Nat, size : Nat, flags : SUBSET Flags,
     xattrs : SUBSET Keys, atime : Int, mtime : Int, ctime : Int]

TypeOK ==
    /\ attrs \in Records /\ length \in Nat /\ clock \in Int
    /\ handles \subseteq Handles
    /\ killpriv \in BOOLEAN /\ looked \subseteq Int /\ skewed \in BOOLEAN
    /\ modifier \in {"nobody", "privileged", "unprivileged", "outsider"}

LEMMA MaxOfTwo ==
    ASSUME NEW a \in Nat, NEW b \in Nat
    PROVE  Max({a, b}) \in Nat /\ Max({a, b}) >= a /\ Max({a, b}) >= b
<1>1. \E x \in {a, b} : \A y \in {a, b} : x >= y
  BY SMT
<1> QED
  BY <1>1, SMT DEF Max

(* What the helpers do to a record.                                        *)
LEMMA SuidSgidCleared ==
    ASSUME NEW a \in Records, NEW c \in Callers, NEW lacks \in BOOLEAN
    PROVE  LET b == clear_suid_sgid(a, c, lacks)
           IN  /\ b \in Records
               /\ b.mode.special \subseteq a.mode.special \ {"suid"}
               /\ b.mode.usr = a.mode.usr /\ b.mode.grp = a.mode.grp /\ b.mode.oth = a.mode.oth
               /\ b.uid = a.uid /\ b.gid = a.gid
               /\ b.size = a.size /\ b.flags = a.flags /\ b.xattrs = a.xattrs
               /\ b.atime = a.atime /\ b.mtime = a.mtime /\ b.ctime = a.ctime
               /\ "x" \in a.mode.grp \/ (lacks /\ caller_outside_group(c)) => b.mode.special = {}
  BY DEF clear_suid_sgid, Records, ModeBits

LEMMA CapabilitiesCleared ==
    ASSUME NEW a \in Records
    PROVE  LET b == clear_file_capabilities(a)
           IN  /\ b \in Records /\ b.mode = a.mode /\ b.uid = a.uid /\ b.gid = a.gid
               /\ b.size = a.size /\ b.flags = a.flags
               /\ b.xattrs = a.xattrs \ {"security.capability"}
               /\ b.atime = a.atime /\ b.mtime = a.mtime /\ b.ctime = a.ctime
  BY DEF clear_file_capabilities, Records

(* What a request that modifies the file for a caller may leave behind, a  *)
(* record and the length of the content.                                   *)
Stripped(c, b) ==
    /\ "security.capability" \notin b.xattrs
    /\ ~c.fsetid => /\ "suid" \notin b.mode.special
                    /\ "x" \in b.mode.grp \/ caller_outside_group(c) => b.mode.special = {}

Modification(b, n) ==
    /\ b \in Records /\ n \in Nat
    /\ b.mode.special \subseteq attrs.mode.special /\ b.mode.usr = attrs.mode.usr
    /\ b.mode.grp = attrs.mode.grp /\ b.mode.oth = attrs.mode.oth
    /\ b.atime = attrs.atime /\ b.mtime \in {attrs.mtime, clock} /\ b.ctime = clock
    /\ b.flags = attrs.flags
    /\ b.xattrs \in {attrs.xattrs, attrs.xattrs \ {"security.capability"}}
    /\ is_immutable \/ is_append_only => n >= length /\ b.uid = attrs.uid /\ b.gid = attrs.gid

(* The record with a new size and the times of a change.                   *)
Resized(s) == [attrs EXCEPT !.size = s, !.mtime = clock, !.ctime = clock]

LEMMA ResizedRecord ==
    ASSUME TypeOK, NEW s \in Nat
    PROVE  Resized(s) \in Records
  BY DEF TypeOK, Records, Resized

LEMMA GrownIsResized ==
    ASSUME TypeOK, NEW end \in Nat
    PROVE  /\ Grown(Modified(attrs), end) = Resized(Max({attrs.size, end}))
           /\ Max({attrs.size, end}) \in Nat
<1>1. attrs \in Records /\ attrs.size \in Nat /\ clock \in Int
  BY DEF TypeOK, Records
<1>2. PICK m \in Nat : m = Max({attrs.size, end})
  BY <1>1, MaxOfTwo
<1>3. Modified(attrs).size = attrs.size
  BY <1>1 DEF Modified, Records
<1>4. Grown(Modified(attrs), end) = [Modified(attrs) EXCEPT !.size = m]
  BY <1>2, <1>3 DEF Grown
<1> QED
  BY <1>1, <1>2, <1>4 DEF Modified, Records, Resized

(* Write, truncate, fallocate and copy_file_range all resize the record    *)
(* and then strip it.                                                      *)
LEMMA StrippedModification ==
    ASSUME TypeOK, NEW c \in Callers, NEW s \in Nat, NEW n \in Nat, NEW b,
           is_immutable \/ is_append_only => n >= length,
           b \in {Resized(s), clear_file_capabilities(Resized(s)),
                  clear_file_capabilities(clear_suid_sgid(Resized(s), c, TRUE))},
           killpriv => b = clear_file_capabilities(
                               IF c.fsetid THEN Resized(s) ELSE clear_suid_sgid(Resized(s), c, TRUE))
    PROVE  /\ Modification(b, n) /\ b.size = s
           /\ killpriv => Stripped(c, b)
<1> DEFINE a == Resized(s)
           k == clear_suid_sgid(a, c, TRUE)
<1>1. /\ a \in Records /\ a.mode = attrs.mode /\ a.uid = attrs.uid /\ a.gid = attrs.gid
      /\ a.size = s /\ a.flags = attrs.flags /\ a.xattrs = attrs.xattrs
      /\ a.atime = attrs.atime /\ a.mtime = clock /\ a.ctime = clock
  BY ResizedRecord DEF TypeOK, Records, Resized
<1> HIDE DEF a
<1>2. /\ k \in Records /\ k.mode.special \subseteq a.mode.special \ {"suid"}
      /\ k.mode.usr = a.mode.usr /\ k.mode.grp = a.mode.grp /\ k.mode.oth = a.mode.oth
      /\ k.uid = a.uid /\ k.gid = a.gid
      /\ k.size = a.size /\ k.flags = a.flags /\ k.xattrs = a.xattrs
      /\ k.atime = a.atime /\ k.mtime = a.mtime /\ k.ctime = a.ctime
      /\ "x" \in a.mode.grp \/ caller_outside_group(c) => k.mode.special = {}
  BY <1>1, SuidSgidCleared
<1> HIDE DEF k
<1>3. CASE ~killpriv /\ b = a
  BY <1>1, <1>3 DEF Modification
<1>4. CASE b = clear_file_capabilities(a) /\ (killpriv => c.fsetid)
  BY <1>1, <1>4, CapabilitiesCleared DEF Modification, Stripped
<1>5. CASE b = clear_file_capabilities(k)
  BY <1>1, <1>2, <1>5, CapabilitiesCleared DEF Modification, Stripped
<1> QED
  BY <1>3, <1>4, <1>5 DEF a, k

(* A request is refused and leaves everything, or modifies the file.       *)
Refuses(o) == o.reply = "refused" /\ o.attrs = attrs /\ o.length = length
Modifies(c, o) ==
    /\ o.reply = "ok" /\ Modification(o.attrs, o.length)
    /\ killpriv => Stripped(c, o.attrs)

LEMMA WriteModifies ==
    ASSUME TypeOK, NEW c \in Callers, NEW fh, NEW offset \in Nat, NEW n \in Nat
    PROVE  LET o == write(c, fh, offset, n)
           IN  /\ Refuses(o) \/ (Modifies(c, o) /\ fh.write)
               /\ attrs.size = length => o.attrs.size = o.length
<1> DEFINE o == write(c, fh, offset, n)
           end == offset + n
           s == Max({attrs.size, end})
<1>1. CASE ~fh.write
  BY <1>1 DEF write, Refuse, Refuses
<1>2. CASE fh.write
  <2>1. end \in Nat /\ length \in Nat /\ killpriv \in BOOLEAN /\ c.fsetid \in BOOLEAN
    BY AttrsAssumption DEF TypeOK
  <2>2. Grown(Modified(attrs), end) = Resized(s) /\ s \in Nat
    BY <2>1, GrownIsResized
  <2>3. /\ o.reply = "ok" /\ o.length = Max({length, end})
        /\ o.attrs = clear_file_capabilities(
                IF KillSuidGid(c) THEN clear_suid_sgid(Resized(s), c, TRUE) ELSE Resized(s))
    BY <1>2, <2>2 DEF write, Answer
  <2>4. Max({length, end}) \in Nat /\ Max({length, end}) >= length
    BY <2>1, MaxOfTwo
  <2> HIDE DEF o, s, end
  <2>5. /\ o.attrs \in {Resized(s), clear_file_capabilities(Resized(s)),
                      clear_file_capabilities(clear_suid_sgid(Resized(s), c, TRUE))}
        /\ killpriv => o.attrs = clear_file_capabilities(
                         IF c.fsetid THEN Resized(s) ELSE clear_suid_sgid(Resized(s), c, TRUE))
    BY <2>1, <2>3 DEF KillSuidGid
  <2>6. o.length \in Nat /\ (is_immutable \/ is_append_only => o.length >= length)
    BY <2>3, <2>4
  <2>7. Modification(o.attrs, o.length) /\ o.attrs.size = s /\ (killpriv => Stripped(c, o.attrs))
    BY <2>2, <2>5, <2>6, StrippedModification
  <2> QED
    BY <1>2, <2>3, <2>7 DEF Modifies, s, o
<1> QED
  BY <1>1, <1>2

LEMMA FallocateModifies ==
    ASSUME TypeOK, NEW c \in Callers, NEW offset \in Nat, NEW n \in Nat, NEW mode, NEW can_take
    PROVE  LET o == fallocate(c, offset, n, mode, can_take)
           IN  /\ Refuses(o) \/ Modifies(c, o)
               /\ attrs.size = length => o.attrs.size = o.length
<1> DEFINE o == fallocate(c, offset, n, mode, can_take)
           end == IF "KEEP_SIZE" \in mode THEN 0 ELSE offset + n
           s == Max({attrs.size, end})
           refused == \/ is_immutable
                      \/ is_append_only /\ ~(mode \subseteq {"KEEP_SIZE"})
                      \/ "PUNCH_HOLE" \notin mode /\ ~can_take
<1>1. CASE refused
  BY <1>1 DEF fallocate, Refuse, Refuses
<1>2. CASE ~refused
  <2>1. end \in Nat /\ length \in Nat /\ killpriv \in BOOLEAN /\ c.fsetid \in BOOLEAN
    BY AttrsAssumption DEF TypeOK
  <2>2. Grown(Modified(attrs), end) = Resized(s) /\ s \in Nat
    BY <2>1, GrownIsResized
  <2>3. /\ o.reply = "ok" /\ o.length = Max({length, end})
        /\ o.attrs = clear_privileges_unprompted(Resized(s), c)
    BY <1>2, <2>2 DEF fallocate, Answer
  <2>4. Max({length, end}) \in Nat /\ Max({length, end}) >= length
    BY <2>1, MaxOfTwo
  <2> HIDE DEF o, s, end
  <2>5. /\ o.attrs \in {Resized(s), clear_file_capabilities(Resized(s)),
                      clear_file_capabilities(clear_suid_sgid(Resized(s), c, TRUE))}
        /\ killpriv => o.attrs = clear_file_capabilities(
                         IF c.fsetid THEN Resized(s) ELSE clear_suid_sgid(Resized(s), c, TRUE))
    BY <2>1, <2>3 DEF clear_privileges_unprompted
  <2>6. o.length \in Nat /\ (is_immutable \/ is_append_only => o.length >= length)
    BY <2>3, <2>4
  <2>7. Modification(o.attrs, o.length) /\ o.attrs.size = s /\ (killpriv => Stripped(c, o.attrs))
    BY <2>2, <2>5, <2>6, StrippedModification
  <2> QED
    BY <2>3, <2>7 DEF Modifies, s, o
<1> QED
  BY <1>1, <1>2

LEMMA CopyModifies ==
    ASSUME TypeOK, NEW c \in Callers, NEW fh, NEW offset \in Nat, NEW n \in Nat
    PROVE  LET o == copy_file_range(c, fh, offset, n)
           IN  /\ Refuses(o) \/ (Modifies(c, o) /\ fh.write)
               /\ attrs.size = length /\ n # 0 => o.attrs.size = o.length
<1> DEFINE o == copy_file_range(c, fh, offset, n)
           end == offset + n
           s == Max({attrs.size, end})
<1>1. CASE ~fh.write \/ is_immutable
  BY <1>1 DEF copy_file_range, Refuse, Refuses
<1>2. CASE fh.write /\ ~is_immutable
  <2>1. end \in Nat /\ length \in Nat /\ killpriv \in BOOLEAN /\ c.fsetid \in BOOLEAN
    BY AttrsAssumption DEF TypeOK
  <2>2. Grown(Modified(attrs), end) = Resized(s) /\ s \in Nat
    BY <2>1, GrownIsResized
  <2>3. /\ o.reply = "ok" /\ o.length = IF n = 0 THEN length ELSE Max({length, end})
        /\ o.attrs = clear_privileges_unprompted(Resized(s), c)
    BY <1>2, <2>2 DEF copy_file_range, Answer
  <2>4. Max({length, end}) \in Nat /\ Max({length, end}) >= length
    BY <2>1, MaxOfTwo
  <2> HIDE DEF o, s, end
  <2>5. /\ o.attrs \in {Resized(s), clear_file_capabilities(Resized(s)),
                      clear_file_capabilities(clear_suid_sgid(Resized(s), c, TRUE))}
        /\ killpriv => o.attrs = clear_file_capabilities(
                         IF c.fsetid THEN Resized(s) ELSE clear_suid_sgid(Resized(s), c, TRUE))
    BY <2>1, <2>3 DEF clear_privileges_unprompted
  <2>6. o.length \in Nat /\ (is_immutable \/ is_append_only => o.length >= length)
    BY <2>1, <2>3, <2>4
  <2>7. Modification(o.attrs, o.length) /\ o.attrs.size = s /\ (killpriv => Stripped(c, o.attrs))
    BY <2>2, <2>5, <2>6, StrippedModification
  <2> QED
    BY <1>2, <2>3, <2>7 DEF Modifies, s, o
<1> QED
  BY <1>1, <1>2

Outcomes == [reply : {"ok", "refused"}, attrs : Records, length : Nat]

LEMMA TruncateModifies ==
    ASSUME TypeOK, NEW c \in Callers, NEW size \in Nat, NEW enforce
    PROVE  LET o == truncate(c, size, enforce)
           IN  /\ Refuses(o) \/ (Modifies(c, o) /\ ~is_immutable /\ ~is_append_only)
               /\ attrs.size = length => o.attrs.size = o.length
               /\ o \in Outcomes
<1> DEFINE o == truncate(c, size, enforce)
           refused == \/ size > MaxSize
                      \/ is_immutable \/ is_append_only
                      \/ enforce /\ ~may_access(c, {"w"})
<1>1. CASE refused
  BY <1>1 DEF truncate, Refuse, Refuses, TypeOK, Outcomes
<1>2. CASE ~refused
  <2>1. killpriv \in BOOLEAN /\ c.fsetid \in BOOLEAN /\ attrs \in Records
    BY AttrsAssumption DEF TypeOK
  <2>2. Modified([attrs EXCEPT !.size = size]) = Resized(size)
    BY <2>1 DEF Modified, Resized, Records
  <2>3. /\ o.reply = "ok" /\ o.length = size
        /\ o.attrs = clear_file_capabilities(
                IF KillSuidGid(c) THEN clear_suid_sgid(Resized(size), c, TRUE) ELSE Resized(size))
    BY <1>2, <2>2 DEF truncate, Answer
  <2>4. ~is_immutable /\ ~is_append_only
    BY <1>2
  <2> HIDE DEF o, refused
  <2>5. /\ o.attrs \in {Resized(size), clear_file_capabilities(Resized(size)),
                      clear_file_capabilities(clear_suid_sgid(Resized(size), c, TRUE))}
        /\ killpriv => o.attrs = clear_file_capabilities(
                         IF c.fsetid THEN Resized(size) ELSE clear_suid_sgid(Resized(size), c, TRUE))
    BY <2>1, <2>3 DEF KillSuidGid
  <2>6. o.length \in Nat /\ (is_immutable \/ is_append_only => o.length >= length)
    BY <2>3, <2>4
  <2>7. Modification(o.attrs, o.length) /\ o.attrs.size = size /\ (killpriv => Stripped(c, o.attrs))
    BY <2>5, <2>6, StrippedModification
  <2>8. o = Answer(o.attrs, o.length)
    BY <1>2 DEF truncate, Answer, o, refused
  <2>9. o \in Outcomes
    BY <2>7, <2>8 DEF Answer, Outcomes, Modification
  <2> QED
    BY <2>3, <2>4, <2>7, <2>9 DEF Modifies, o
<1> QED
  BY <1>1, <1>2

LEMMA SomeOfOne == ASSUME NEW v PROVE Some({v}) = v
  BY DEF Some

LEMMA SomeOfOption ==
    ASSUME NEW S, NEW o \in Option(S), o # {}
    PROVE  Some(o) \in S
  BY SomeOfOne DEF Option

LEMMA ChownModifies ==
    ASSUME TypeOK, NEW c \in Callers, NEW uid \in Option(Owners), NEW gid \in Option(Groups),
           ~is_immutable, ~is_append_only
    PROVE  LET o == chown(c, uid, gid)
           IN  /\ Refuses(o) \/ Modifies(c, o)
               /\ attrs.size = length => o.attrs.size = o.length
<1> DEFINE o == chown(c, uid, gid)
           refused == \/ gid # {} /\ ~caller_is_root(c) /\ Some(gid) \notin c.groups
                      \/ uid # {} /\ ~caller_is_root(c)
                            /\ ~(Some(uid) = attrs.uid /\ caller_owns(c))
                      \/ gid # {} /\ ~caller_is_root(c) /\ ~caller_owns(c)
           k == IF killpriv THEN clear_suid_sgid(attrs, c, ~c.fsetid) ELSE attrs
           b == clear_file_capabilities(k)
           u == IF uid = {} THEN b.uid ELSE Some(uid)
           g == IF gid = {} THEN b.gid ELSE Some(gid)
<1>1. CASE refused
  BY <1>1 DEF chown, Refuse, Refuses
<1>2. CASE ~refused
  <2>1. killpriv \in BOOLEAN /\ c.fsetid \in BOOLEAN /\ attrs \in Records
        /\ clock \in Int /\ length \in Nat
    BY AttrsAssumption DEF TypeOK
  <2>2. /\ k \in Records /\ k.mode.special \subseteq attrs.mode.special
        /\ k.mode.usr = attrs.mode.usr /\ k.mode.grp = attrs.mode.grp
        /\ k.mode.oth = attrs.mode.oth
        /\ k.size = attrs.size /\ k.flags = attrs.flags /\ k.xattrs = attrs.xattrs
        /\ k.atime = attrs.atime /\ k.mtime = attrs.mtime
        /\ killpriv /\ ~c.fsetid =>
              /\ "suid" \notin k.mode.special
              /\ "x" \in k.mode.grp \/ caller_outside_group(c) => k.mode.special = {}
    <3>1. CASE ~killpriv
      BY <2>1, <3>1
    <3>2. CASE killpriv
      <4>1. PICK lacks \in BOOLEAN : lacks = ~c.fsetid
        BY <2>1
      <4>2. k = clear_suid_sgid(attrs, c, lacks)
        BY <3>2, <4>1
      <4> HIDE DEF k
      <4>3. /\ k \in Records /\ k.mode.special \subseteq attrs.mode.special \ {"suid"}
            /\ k.mode.usr = attrs.mode.usr /\ k.mode.grp = attrs.mode.grp
            /\ k.mode.oth = attrs.mode.oth
            /\ k.size = attrs.size /\ k.flags = attrs.flags /\ k.xattrs = attrs.xattrs
            /\ k.atime = attrs.atime /\ k.mtime = attrs.mtime
            /\ "x" \in attrs.mode.grp \/ (lacks /\ caller_outside_group(c)) => k.mode.special = {}
        BY <2>1, <4>2, SuidSgidCleared
      <4> QED
        BY <4>1, <4>3
    <3> QED
      BY <3>1, <3>2
  <2> HIDE DEF k
  <2>3. /\ b \in Records /\ b.mode = k.mode /\ b.size = k.size /\ b.flags = k.flags
        /\ b.xattrs = k.xattrs \ {"security.capability"}
        /\ b.atime = k.atime /\ b.mtime = k.mtime
    BY <2>2, CapabilitiesCleared
  <2> HIDE DEF b
  <2>4. u \in Nat /\ g \in Nat
    <3>1. Owners \subseteq Nat /\ Groups \subseteq Nat
      BY AttrsAssumption DEF Owners, Groups
    <3>2. b.uid \in Nat /\ b.gid \in Nat
      BY <2>3 DEF Records
    <3> QED
      BY <3>1, <3>2, SomeOfOption
  <2>5. o = Answer(Changed([b EXCEPT !.uid = u, !.gid = g]), length)
    BY <1>2, <2>3 DEF chown, b, k, Records
  <2> HIDE DEF u, g, o, refused
  <2>6. /\ o.reply = "ok" /\ o.length = length
        /\ o.attrs = [b EXCEPT !.uid = u, !.gid = g, !.ctime = clock]
    BY <2>3, <2>5 DEF Answer, Changed, Records
  <2>7. /\ o.attrs \in Records /\ o.attrs.mode = b.mode /\ o.attrs.size = b.size
        /\ o.attrs.flags = b.flags /\ o.attrs.xattrs = b.xattrs
        /\ o.attrs.atime = b.atime /\ o.attrs.mtime = b.mtime /\ o.attrs.ctime = clock
    BY <2>1, <2>3, <2>4, <2>6 DEF Records
  <2>8. Modification(o.attrs, o.length)
    BY <2>1, <2>2, <2>3, <2>6, <2>7 DEF Modification
  <2>9. killpriv => Stripped(c, o.attrs)
    BY <2>2, <2>3, <2>7 DEF Stripped
  <2> QED
    BY <2>2, <2>3, <2>6, <2>7, <2>8, <2>9 DEF Modifies, o
<1> QED
  BY <1>1, <1>2

(* A setattr of a size, alone and with a time: the second writes the       *)
(* record back as it was read, with the privileges that were in it.        *)
Keeps(b) ==
    /\ b.mode.special \subseteq attrs.mode.special /\ b.mode.grp = attrs.mode.grp
    /\ b.xattrs \subseteq attrs.xattrs

LEMMA ChosenTime ==
    ASSUME TypeOK, NEW time \in TimeOrNow
    PROVE  Chosen(time) \in Int
<1>1. time # {} => Some(time) \in SpecificTimes
  BY SomeOfOption DEF TimeOrNow
<1> QED
  BY <1>1, AttrsAssumption DEF Chosen, Now, TypeOK

LEMMA SetSizeModifies ==
    ASSUME TypeOK, NEW c \in Callers, NEW size \in Nat, NEW fh
    PROVE  LET o == setattr(c, {}, {}, {}, {size}, {}, {}, fh)
           IN  /\ Refuses(o) \/ (Modifies(c, o) /\ ~is_immutable /\ ~is_append_only)
               /\ attrs.size = length => o.attrs.size = o.length
<1> DEFINE o == setattr(c, {}, {}, {}, {size}, {}, {}, fh)
           enforce == fh = {}
           cut == truncate(c, size, enforce)
<1>1. CASE is_immutable \/ is_append_only \/ (fh # {} /\ ~Some(fh).write)
  BY <1>1 DEF setattr, Refuse, Refuses
<1>2. CASE ~(is_immutable \/ is_append_only \/ (fh # {} /\ ~Some(fh).write))
  <2>1. o = IF cut.reply = "refused" THEN cut ELSE [cut EXCEPT !.attrs = @]
    BY <1>2, SomeOfOne DEF setattr, utimens
  <2>2. /\ Refuses(cut) \/ (Modifies(c, cut) /\ ~is_immutable /\ ~is_append_only)
        /\ attrs.size = length => cut.attrs.size = cut.length
        /\ cut \in Outcomes
    <3> HIDE DEF enforce
    <3> QED  BY TruncateModifies
  <2> HIDE DEF cut, o
  <2>3. o = cut
    BY <2>1, <2>2 DEF Outcomes
  <2> QED
    BY <2>2, <2>3 DEF o
<1> QED
  BY <1>1, <1>2

LEMMA SetSizeAndTime ==
    ASSUME TypeOK, NEW c \in Callers, NEW size \in Nat, NEW fh, NEW time \in TimeOrNow
    PROVE  LET o == setattr(c, {}, {}, {}, {size}, {}, {time}, fh)
           IN  \/ Refuses(o)
               \/ /\ ~is_immutable /\ ~is_append_only
                  /\ o \in Outcomes /\ o.attrs.flags = attrs.flags
                  /\ Keeps(o.attrs)
<1> DEFINE o == setattr(c, {}, {}, {}, {size}, {}, {time}, fh)
           enforce == fh = {}
           cut == truncate(c, size, enforce)
           m == Chosen(time)
           second == Changed([attrs EXCEPT !.mtime = m])
<1>1. CASE is_immutable \/ is_append_only \/ (fh # {} /\ ~Some(fh).write)
  BY <1>1 DEF setattr, Refuse, Refuses
<1>2. CASE ~(is_immutable \/ is_append_only \/ (fh # {} /\ ~Some(fh).write))
  <2>1. o = IF cut.reply = "refused" THEN cut
            ELSE IF ~MaySetTime(c, time) THEN [cut EXCEPT !.reply = "refused", !.attrs = @]
            ELSE [cut EXCEPT !.attrs = second]
    BY <1>2, SomeOfOne DEF setattr, utimens
  <2>2. /\ Refuses(cut) \/ Modifies(c, cut)
        /\ cut \in Outcomes
    <3> HIDE DEF enforce
    <3> QED  BY TruncateModifies
  <2>3. m \in Int
    BY ChosenTime
  <2> HIDE DEF m
  <2>4. second \in Records /\ second.flags = attrs.flags /\ Keeps(second)
    BY <2>3 DEF TypeOK, Records, Changed, Keeps
  <2> HIDE DEF cut, o, second
  <2>5. cut.attrs.flags = attrs.flags /\ Keeps(cut.attrs)
    BY <2>2 DEF Refuses, Modifies, Modification, Keeps
  <2>6. o \in Outcomes /\ o.attrs \in {cut.attrs, second}
    BY <2>1, <2>2, <2>4 DEF Outcomes
  <2> QED
    BY <1>2, <2>4, <2>5, <2>6 DEF o
<1> QED
  BY <1>1, <1>2

---------------------------------------------------------------------------
(* The invariant.  That a read was not in the future keeps relatime, which *)
(* moves the access time to the present, from moving it to before a read.  *)

LookedPast == \A t \in looked : t <= clock

Inv ==
    /\ TypeOK /\ LookedPast
    /\ SizeIsLength /\ PrivilegesEarned /\ AtimeTells

LEMMA ModifyKeeps ==
    ASSUME Inv, NEW c \in Callers, NEW o, Refuses(o) \/ Modifies(c, o), Modify(c, o),
           skewed' \in BOOLEAN, skewed => skewed',
           ~skewed' /\ attrs.size = length => o.attrs.size = o.length
    PROVE  Inv'
<1> USE DEF Inv
<1>0. c.fsetid \in BOOLEAN
  BY AttrsAssumption
<1>1. TypeOK'
  BY <1>0 DEF TypeOK, Refuses, Modifies, Modification, Modify, Undone, Serve
<1>2. LookedPast'
  BY DEF LookedPast, Modify, Serve
<1>3. SizeIsLength'
  BY DEF TypeOK, SizeIsLength, Modify, Serve
<1>4. PrivilegesEarned'
  <2>1. CASE Refuses(o)
    BY <2>1 DEF TypeOK, PrivilegesEarned, Refuses, Modify, Undone, Serve
  <2>2. CASE Modifies(c, o)
    BY <1>0, <2>2 DEF TypeOK, PrivilegesEarned, Modifies, Modification, Stripped, Modify,
       Undone, Serve
  <2> QED
    BY <2>1, <2>2
<1>5. AtimeTells'
  BY DEF TypeOK, AtimeTells, Refuses, Modifies, Modify, Undone, Serve
<1> QED
  BY <1>1, <1>2, <1>3, <1>4, <1>5

LEMMA ModifyEnforces ==
    ASSUME TypeOK, NEW c \in Callers, NEW o, Modify(c, o),
           \/ Refuses(o)
           \/ Modifies(c, o) /\ (is_immutable \/ is_append_only => \E fh \in handles : fh.write)
    PROVE  FlagsEnforcedStep
<1>1. attrs' = o.attrs /\ length' = o.length /\ handles' = handles
  BY DEF Modify, Serve
<1> SUFFICES ASSUME NEW f \in {"IMMUTABLE", "APPEND"} \cap attrs.flags \cap attrs'.flags
             PROVE  Enforces(f)
  BY DEF FlagsEnforcedStep, Enforces
<1>2. CASE Refuses(o)
  BY <1>1, <1>2 DEF TypeOK, Refuses, Enforces
<1>3. CASE Modifies(c, o) /\ (is_immutable \/ is_append_only => \E fh \in handles : fh.write)
  <2>1. Modification(o.attrs, o.length) /\ (is_immutable \/ is_append_only)
    BY <1>3 DEF Modifies, is_immutable, is_append_only
  <2> QED
    BY <1>1, <1>3, <2>1 DEF Modification, Enforces
<1> QED
  BY <1>2, <1>3

---------------------------------------------------------------------------
(* Every action keeps the invariant and enforces the flags.                *)

LEMMA InitInv == Init => Inv
<1> SUFFICES ASSUME Init PROVE Inv
  OBVIOUS
<1>1. PICK c \in Callers, mode \in Modes, suid \in {FALSE, killpriv}, gid \in Option(Groups) :
          attrs = Created(c, mode, suid, gid)
  BY DEF Init
<1>2. c.uid \in Nat /\ c.gid \in Nat /\ mode \in ModeBits
  BY AttrsAssumption
<1>3. (IF suid /\ caller_is_root(c) THEN mode ELSE [mode EXCEPT !.special = {}]) \in ModeBits
  BY <1>2 DEF ModeBits
<1>4. (IF gid = {} THEN c.gid ELSE Some(gid)) \in Nat
  BY <1>2, SomeOfOption, AttrsAssumption DEF Groups
<1>5. attrs \in Records /\ attrs.size = 0 /\ attrs.mtime = 0
  BY <1>1, <1>2, <1>3, <1>4 DEF Created, Records
<1>6. TypeOK
  <2>1. length \in Nat /\ clock \in Int
    BY DEF Init
  <2>2. handles \subseteq Handles /\ looked \subseteq Int
    BY DEF Init
  <2> QED
    BY <1>5, <2>1, <2>2 DEF Init, TypeOK
<1>7. LookedPast /\ SizeIsLength /\ AtimeTells
  BY <1>5 DEF Init, LookedPast, SizeIsLength, AtimeTells
<1>8. PrivilegesEarned
  BY DEF Init, PrivilegesEarned
<1> QED
  BY <1>6, <1>7, <1>8 DEF Inv

LEMMA UnchangedStep == Inv /\ UNCHANGED vars => Inv' /\ FlagsEnforcedStep
<1> SUFFICES ASSUME Inv, UNCHANGED vars PROVE Inv' /\ FlagsEnforcedStep
  OBVIOUS
<1>1. Inv'
  BY DEF vars, Inv, TypeOK, LookedPast, SizeIsLength, PrivilegesEarned, AtimeTells
<1>2. FlagsEnforcedStep
  BY DEF vars, Inv, TypeOK, FlagsEnforcedStep, Enforces
<1> QED
  BY <1>1, <1>2

LEMMA ChmodStep == Inv /\ Chmod => Inv' /\ FlagsEnforcedStep
<1> SUFFICES ASSUME Inv, Chmod PROVE Inv' /\ FlagsEnforcedStep
  OBVIOUS
<1>1. PICK c \in Callers, m \in Modes :
          LET o == setattr(c, {m}, {}, {}, {}, {}, {}, {})
          IN  /\ Serve(o) /\ modifier' = IF o.reply = "ok" THEN "nobody" ELSE modifier
              /\ UNCHANGED <<handles, looked, skewed>>
  BY DEF Chmod
<1> DEFINE o == setattr(c, {m}, {}, {}, {}, {}, {}, {})
           kept == IF ~caller_is_root(c) /\ caller_outside_group(c)
                   THEN [m EXCEPT !.special = @ \ {"sgid"}] ELSE m
<1>2. kept \in ModeBits
  BY AttrsAssumption DEF ModeBits
<1>3. \/ o = Refuse
      \/ ~is_immutable /\ ~is_append_only
         /\ o = Answer(Changed([attrs EXCEPT !.mode = kept]), length)
  BY SomeOfOne DEF setattr, chmod
<1> HIDE DEF kept, o
<1>4. CASE o = Refuse
  <2>1. UNCHANGED vars
    BY <1>1, <1>4 DEF o, Refuse, Serve, vars
  <2> QED
    BY <2>1, UnchangedStep
<1>5. CASE ~is_immutable /\ ~is_append_only
           /\ o = Answer(Changed([attrs EXCEPT !.mode = kept]), length)
  <2>1. /\ o.reply = "ok" /\ o.length = length
        /\ o.attrs \in Records /\ o.attrs.size = attrs.size /\ o.attrs.flags = attrs.flags
        /\ o.attrs.atime = attrs.atime /\ o.attrs.mtime = attrs.mtime
    BY <1>2, <1>5 DEF Answer, Changed, Records, Inv, TypeOK
  <2> QED
    BY <1>1, <1>5, <2>1 DEF o, Serve, Inv, TypeOK, LookedPast, SizeIsLength, PrivilegesEarned,
       AtimeTells, FlagsEnforcedStep, Enforces, is_immutable, is_append_only
<1> QED
  BY <1>3, <1>4, <1>5

LEMMA ChownStep == Inv /\ Chown => Inv' /\ FlagsEnforcedStep
<1> SUFFICES ASSUME Inv, Chown PROVE Inv' /\ FlagsEnforcedStep
  OBVIOUS
<1>1. PICK c \in Callers, uid \in Option(Owners), gid \in Option(Groups) :
          /\ uid # {} \/ gid # {}
          /\ Modify(c, setattr(c, {}, uid, gid, {}, {}, {}, {}))
          /\ UNCHANGED skewed
  BY DEF Chown
<1> DEFINE o == setattr(c, {}, uid, gid, {}, {}, {}, {})
<1>2. o = IF is_immutable \/ is_append_only THEN Refuse ELSE chown(c, uid, gid)
  BY <1>1 DEF setattr
<1>3. /\ Refuses(o) \/ (Modifies(c, o) /\ ~is_immutable /\ ~is_append_only)
      /\ attrs.size = length => o.attrs.size = o.length
  <2>1. CASE is_immutable \/ is_append_only
    BY <1>2, <2>1 DEF Refuse, Refuses
  <2>2. CASE ~is_immutable /\ ~is_append_only
    BY <1>2, <2>2, ChownModifies DEF Inv
  <2> QED
    BY <2>1, <2>2
<1>4. skewed' \in BOOLEAN /\ (skewed => skewed')
  BY <1>1 DEF Inv, TypeOK
<1>5. Modify(c, o)
  BY <1>1
<1> HIDE DEF o
<1> QED
  BY <1>3, <1>4, <1>5, ModifyKeeps, ModifyEnforces DEF Inv

LEMMA TruncateStep == Inv /\ Truncate => Inv' /\ FlagsEnforcedStep
<1> SUFFICES ASSUME Inv, Truncate PROVE Inv' /\ FlagsEnforcedStep
  OBVIOUS
<1>1. PICK c \in Callers, size \in 0 .. MaxSize + 1, fh \in Option(handles),
           mtime \in Option(TimeOrNow) :
          LET o == setattr(c, {}, {}, {}, {size}, {}, mtime, fh)
          IN  \/ mtime = {} /\ Modify(c, o) /\ UNCHANGED skewed
              \/ /\ mtime # {} /\ Serve(o)
                 /\ looked' = IF Undone(o) THEN looked ELSE {}
                 /\ skewed' = TRUE
                 /\ UNCHANGED <<handles, modifier>>
  BY DEF Truncate
<1>2. size \in Nat
  BY AttrsAssumption
<1> DEFINE o == setattr(c, {}, {}, {}, {size}, {}, mtime, fh)
<1>3. CASE mtime = {}
  <2>1. /\ Refuses(o) \/ (Modifies(c, o) /\ ~is_immutable /\ ~is_append_only)
        /\ attrs.size = length => o.attrs.size = o.length
    BY <1>2, <1>3, SetSizeModifies DEF Inv
  <2>2. skewed' \in BOOLEAN /\ (skewed => skewed') /\ Modify(c, o)
    BY <1>1, <1>3 DEF Inv, TypeOK
  <2> HIDE DEF o
  <2> QED
    BY <2>1, <2>2, ModifyKeeps, ModifyEnforces DEF Inv
<1>4. CASE mtime # {}
  <2>1. PICK time \in TimeOrNow : mtime = {time}
    BY <1>4 DEF Option
  <2>2. \/ Refuses(o)
        \/ /\ ~is_immutable /\ ~is_append_only
           /\ o \in Outcomes /\ o.attrs.flags = attrs.flags /\ Keeps(o.attrs)
    BY <1>2, <2>1, SetSizeAndTime DEF Inv
  <2>3. /\ attrs' = o.attrs /\ length' = o.length /\ looked' = IF Undone(o) THEN looked ELSE {}
        /\ skewed' = TRUE /\ UNCHANGED <<handles, modifier, killpriv, clock>>
    BY <1>1, <1>4 DEF Serve
  <2>4. looked' = {} \/ (looked' = looked /\ attrs' = attrs)
    BY <2>3 DEF Undone
  <2> HIDE DEF o
  <2>5. TypeOK'
    BY <2>2, <2>3, <2>4 DEF Inv, TypeOK, Refuses, Outcomes
  <2>6. SizeIsLength' /\ LookedPast' /\ AtimeTells'
    BY <2>3, <2>4 DEF Inv, SizeIsLength, LookedPast, AtimeTells
  <2>7. PrivilegesEarned'
    BY <2>2, <2>3 DEF Inv, PrivilegesEarned, Refuses, Keeps
  <2>8. FlagsEnforcedStep
    BY <2>2, <2>3 DEF Inv, TypeOK, Refuses, FlagsEnforcedStep, Enforces, is_immutable, is_append_only
  <2> QED
    BY <2>5, <2>6, <2>7, <2>8 DEF Inv
<1> QED
  BY <1>3, <1>4

LEMMA UtimensStep == Inv /\ Utimens => Inv' /\ FlagsEnforcedStep
<1> SUFFICES ASSUME Inv, Utimens PROVE Inv' /\ FlagsEnforcedStep
  OBVIOUS
<1>1. PICK c \in Callers, atime \in Option(TimeOrNow), mtime \in Option(TimeOrNow) :
          LET o == setattr(c, {}, {}, {}, {}, atime, mtime, {})
          IN  /\ atime # {} \/ mtime # {}
              /\ Serve(o)
              /\ looked' = IF Undone(o) THEN looked ELSE {}
              /\ UNCHANGED <<handles, modifier, skewed>>
  BY DEF Utimens
<1> DEFINE o == setattr(c, {}, {}, {}, {}, atime, mtime, {})
           cut == Answer(attrs, length)
           a == Chosen(Some(atime))
           m == Chosen(Some(mtime))
           first == IF atime = {} THEN attrs ELSE Changed([attrs EXCEPT !.atime = a])
           second == Changed([first EXCEPT !.mtime = m])
<1>2. \/ o = Refuse
      \/ ~is_immutable /\ o = utimens(c, atime, mtime, cut)
  BY DEF setattr, Answer
<1>3. /\ attrs \in Records /\ clock \in Int /\ length \in Nat
      /\ (atime # {} => a \in Int) /\ (mtime # {} => m \in Int)
  BY SomeOfOption, ChosenTime DEF Inv, TypeOK
<1>4. /\ first \in Records /\ first.mode = attrs.mode /\ first.uid = attrs.uid
      /\ first.gid = attrs.gid /\ first.size = attrs.size /\ first.flags = attrs.flags
      /\ first.xattrs = attrs.xattrs /\ first.mtime = attrs.mtime
      /\ first.atime = IF atime = {} THEN attrs.atime ELSE a
  <2> HIDE DEF a
  <2> QED  BY <1>3 DEF Changed, Records
<1>5. mtime # {} =>
      /\ second \in Records /\ second.mode = first.mode /\ second.uid = first.uid
      /\ second.gid = first.gid /\ second.size = first.size /\ second.flags = first.flags
      /\ second.xattrs = first.xattrs
  <2> HIDE DEF m, first
  <2> QED  BY <1>3, <1>4 DEF Changed, Records
<1>6. /\ o.length = length
      /\ \/ o.reply = "refused" /\ o.attrs = attrs
         \/ ~is_immutable /\ o.attrs = first
         \/ ~is_immutable /\ mtime # {} /\ o.attrs = second
  <2>1. CASE o = Refuse
    BY <2>1 DEF Refuse
  <2>2. CASE ~is_immutable /\ o = utimens(c, atime, mtime, cut)
    <3>1. cut.reply = "ok" /\ cut.attrs = attrs /\ cut.length = length
          /\ cut = [reply |-> "ok", attrs |-> attrs, length |-> length]
      BY DEF Answer
    <3>3. o \in IF atime # {} /\ ~MaySetTime(c, Some(atime)) THEN {[cut EXCEPT !.reply = "refused"]}
                ELSE IF mtime = {} THEN {[cut EXCEPT !.attrs = first]}
                ELSE IF ~MaySetTime(c, Some(mtime))
                THEN {[cut EXCEPT !.reply = "refused", !.attrs = first]}
                ELSE {[cut EXCEPT !.attrs = second]}
      BY <2>2, <3>1 DEF utimens
    <3> HIDE DEF first, second, o, cut
    <3>4. CASE atime # {} /\ ~MaySetTime(c, Some(atime))
      BY <3>1, <3>3, <3>4
    <3>5. CASE (atime # {} => MaySetTime(c, Some(atime))) /\ mtime = {}
      BY <2>2, <3>1, <3>3, <3>5
    <3>6. CASE (atime # {} => MaySetTime(c, Some(atime))) /\ mtime # {}
               /\ ~MaySetTime(c, Some(mtime))
      BY <2>2, <3>1, <3>3, <3>6
    <3>7. CASE (atime # {} => MaySetTime(c, Some(atime))) /\ mtime # {}
               /\ MaySetTime(c, Some(mtime))
      BY <2>2, <3>1, <3>3, <3>7
    <3> QED
      BY <3>4, <3>5, <3>6, <3>7
  <2> QED
    BY <1>2, <2>1, <2>2
<1>7. /\ attrs' = o.attrs /\ length' = o.length /\ looked' = IF Undone(o) THEN looked ELSE {}
      /\ UNCHANGED <<handles, modifier, skewed, killpriv, clock>>
  BY <1>1 DEF Serve
<1>8. looked' = {} \/ (looked' = looked /\ attrs' = attrs)
  BY <1>7 DEF Undone
<1> HIDE DEF o, first, second, a, m
<1>9. /\ attrs' \in Records /\ attrs'.mode = attrs.mode /\ attrs'.uid = attrs.uid
      /\ attrs'.gid = attrs.gid /\ attrs'.size = attrs.size /\ attrs'.flags = attrs.flags
      /\ attrs'.xattrs = attrs.xattrs /\ length' = length
      /\ is_immutable => attrs'.mtime = attrs.mtime
  BY <1>3, <1>4, <1>5, <1>6, <1>7
<1>10. TypeOK'
  BY <1>7, <1>8, <1>9 DEF Inv, TypeOK
<1>11. SizeIsLength' /\ PrivilegesEarned'
  BY <1>7, <1>9 DEF Inv, SizeIsLength, PrivilegesEarned
<1>12. LookedPast' /\ AtimeTells'
  BY <1>7, <1>8 DEF Inv, LookedPast, AtimeTells
<1>13. FlagsEnforcedStep
  BY <1>3, <1>7, <1>9 DEF Inv, TypeOK, FlagsEnforcedStep, Enforces, is_immutable
<1> QED
  BY <1>10, <1>11, <1>12, <1>13 DEF Inv

LEMMA OpenStep == Inv /\ Open => Inv' /\ FlagsEnforcedStep
<1> SUFFICES ASSUME Inv, Open PROVE Inv' /\ FlagsEnforcedStep
  OBVIOUS
<1>1. PICK c \in Callers, fh \in Handles, trunc \in BOOLEAN, exec \in BOOLEAN :
          /\ Serve(open(c, fh, trunc, exec))
          /\ handles' = handles \cup (IF open(c, fh, trunc, exec).reply = "ok" THEN {fh} ELSE {})
          /\ UNCHANGED <<modifier, looked, skewed>>
  BY DEF Open
<1>2. LET o == open(c, fh, trunc, exec)
      IN  /\ o.attrs = attrs /\ o.length = length
          /\ o.reply = "ok" /\ fh.write => ~is_immutable /\ (is_append_only => fh.append)
  BY DEF open, Refuse, Answer
<1>3. attrs' = attrs /\ length' = length /\ UNCHANGED <<modifier, looked, skewed, killpriv, clock>>
  BY <1>1, <1>2 DEF Serve
<1>4. handles' = handles \/ handles' = handles \cup {fh}
  BY <1>1
<1>5. ASSUME NEW h \in handles' \ handles, h.write
      PROVE  ~is_immutable /\ (is_append_only => h.append)
  <2>1. open(c, fh, trunc, exec).reply = "ok" /\ h = fh
    BY <1>1, <1>5
  <2> QED
    BY <1>2, <1>5, <2>1
<1>6. TypeOK'
  <2>1. handles' \subseteq Handles
    BY <1>4 DEF Inv, TypeOK
  <2> QED
    BY <1>3, <2>1 DEF Inv, TypeOK
<1>7. Inv'
  BY <1>3, <1>6 DEF Inv, LookedPast, SizeIsLength, PrivilegesEarned, AtimeTells
<1>8. FlagsEnforcedStep
  BY <1>3, <1>5 DEF Inv, TypeOK, FlagsEnforcedStep, Enforces, is_immutable, is_append_only
<1> QED
  BY <1>7, <1>8

LEMMA ReadStep == Inv /\ Read => Inv' /\ FlagsEnforcedStep
<1> SUFFICES ASSUME Inv, Read PROVE Inv' /\ FlagsEnforcedStep
  OBVIOUS
<1>1. PICK fh \in handles, no_atime \in BOOLEAN :
          /\ Serve(read(fh, no_atime))
          /\ looked' = IF looked = {} /\ fh.read /\ ~no_atime /\ ~is_noatime
                       THEN {clock} ELSE looked
          /\ UNCHANGED <<handles, modifier, skewed>>
  BY DEF Read
<1> DEFINE b == [attrs EXCEPT !.atime = clock]
           touched == fh.read /\ ~no_atime
<1>2. /\ length' = length
      /\ attrs' = IF touched THEN touch_atime(attrs) ELSE attrs
      /\ looked' = looked \/ (looked' = {clock} /\ touched /\ ~is_noatime)
      /\ UNCHANGED <<handles, modifier, skewed, killpriv, clock>>
  BY <1>1 DEF read, Refuse, Answer, Serve
<1>3. touched \in BOOLEAN
  BY DEF Inv, TypeOK, Handles
<1>4. /\ b \in Records /\ b.mode = attrs.mode /\ b.uid = attrs.uid
      /\ b.gid = attrs.gid /\ b.size = attrs.size /\ b.flags = attrs.flags
      /\ b.xattrs = attrs.xattrs /\ b.mtime = attrs.mtime /\ b.atime = clock
  BY DEF Inv, TypeOK, Records
<1>5. touch_atime(attrs) = attrs \/ touch_atime(attrs) = b
  BY DEF touch_atime
<1>6. attrs.atime \in Int /\ attrs.mtime \in Int /\ clock \in Int
  BY DEF Inv, TypeOK, Records
<1>7. ~is_noatime /\ touch_atime(attrs) # b => attrs.atime >= attrs.mtime
  <2>1. CASE attrs.atime <= attrs.mtime /\ ~is_noatime
    BY <2>1 DEF touch_atime, is_noatime
  <2>2. CASE ~(attrs.atime <= attrs.mtime)
    BY <1>6, <2>2
  <2> QED
    BY <2>1, <2>2
<1> HIDE DEF b, touched
<1>8. TypeOK' /\ LookedPast' /\ SizeIsLength' /\ PrivilegesEarned'
  <2>1. /\ attrs' \in Records /\ attrs'.mode = attrs.mode /\ attrs'.size = attrs.size
        /\ attrs'.xattrs = attrs.xattrs
    BY <1>2, <1>4, <1>5 DEF Inv, TypeOK
  <2>2. looked' \subseteq Int /\ LookedPast'
    <3>1. CASE looked' = looked
      BY <1>2, <3>1 DEF Inv, TypeOK, LookedPast
    <3>2. CASE looked' = {clock}
      BY <1>2, <1>6, <3>2 DEF LookedPast
    <3> QED
      BY <1>2, <3>1, <3>2
  <2>3. TypeOK'
    BY <1>2, <2>1, <2>2 DEF Inv, TypeOK
  <2> QED
    BY <1>2, <2>1, <2>2, <2>3 DEF Inv, SizeIsLength, PrivilegesEarned
<1>9. AtimeTells'
  <2> SUFFICES ASSUME NEW t \in looked'
               PROVE  attrs'.atime >= attrs'.mtime \/ attrs'.atime >= t
    BY DEF AtimeTells
  <2>1. t \in Int /\ t <= clock
    BY <1>2, <1>8 DEF TypeOK, LookedPast
  <2>2. CASE attrs' = b
    BY <1>4, <1>6, <2>1, <2>2
  <2>3. CASE attrs' = attrs /\ attrs # b
    <3>1. CASE t \in looked
      BY <2>3, <3>1 DEF Inv, AtimeTells
    <3>2. CASE touched /\ ~is_noatime
      BY <1>2, <1>7, <2>3, <3>2
    <3> QED
      BY <1>2, <3>1, <3>2
  <2> QED
    BY <1>2, <1>5, <2>2, <2>3
<1>10. FlagsEnforcedStep
  BY <1>2, <1>4, <1>5 DEF Inv, TypeOK, FlagsEnforcedStep, Enforces
<1> QED
  BY <1>8, <1>9, <1>10 DEF Inv

LEMMA WriteStep == Inv /\ Write => Inv' /\ FlagsEnforcedStep
<1> SUFFICES ASSUME Inv, Write PROVE Inv' /\ FlagsEnforcedStep
  OBVIOUS
<1>1. PICK c \in Callers, fh \in handles, offset \in 0 .. MaxSize, n \in 1 .. MaxSize :
          Modify(c, write(c, fh, offset, n)) /\ UNCHANGED skewed
  BY DEF Write
<1>2. offset \in Nat /\ n \in Nat
  BY AttrsAssumption
<1> DEFINE o == write(c, fh, offset, n)
<1>3. /\ Refuses(o) \/ (Modifies(c, o) /\ fh.write)
      /\ attrs.size = length => o.attrs.size = o.length
  BY <1>2, WriteModifies DEF Inv
<1>4. skewed' \in BOOLEAN /\ (skewed => skewed') /\ Modify(c, o)
  BY <1>1 DEF Inv, TypeOK
<1> HIDE DEF o
<1> QED
  BY <1>3, <1>4, ModifyKeeps, ModifyEnforces DEF Inv

LEMMA FallocateStep == Inv /\ Fallocate => Inv' /\ FlagsEnforcedStep
<1> SUFFICES ASSUME Inv, Fallocate PROVE Inv' /\ FlagsEnforcedStep
  OBVIOUS
<1>1. PICK c \in Callers, offset \in 0 .. MaxSize, n \in 1 .. MaxSize,
           mode \in FallocModes, can_take \in BOOLEAN :
          /\ \E fh \in handles : fh.write
          /\ Modify(c, fallocate(c, offset, n, mode, can_take)) /\ UNCHANGED skewed
  BY DEF Fallocate
<1>2. offset \in Nat /\ n \in Nat
  BY AttrsAssumption
<1> DEFINE o == fallocate(c, offset, n, mode, can_take)
<1>3. /\ Refuses(o) \/ Modifies(c, o)
      /\ attrs.size = length => o.attrs.size = o.length
  BY <1>2, FallocateModifies DEF Inv
<1>4. skewed' \in BOOLEAN /\ (skewed => skewed') /\ Modify(c, o)
  BY <1>1 DEF Inv, TypeOK
<1> HIDE DEF o
<1> QED
  BY <1>1, <1>3, <1>4, ModifyKeeps, ModifyEnforces DEF Inv

LEMMA CopyFileRangeStep == Inv /\ CopyFileRange => Inv' /\ FlagsEnforcedStep
<1> SUFFICES ASSUME Inv, CopyFileRange PROVE Inv' /\ FlagsEnforcedStep
  OBVIOUS
<1>1. PICK c \in Callers, fh \in handles, offset \in 0 .. MaxSize, n \in 0 .. MaxSize :
          Modify(c, copy_file_range(c, fh, offset, n)) /\ skewed' = (skewed \/ n = 0)
  BY DEF CopyFileRange
<1>2. offset \in Nat /\ n \in Nat
  BY AttrsAssumption
<1> DEFINE o == copy_file_range(c, fh, offset, n)
<1>3. /\ Refuses(o) \/ (Modifies(c, o) /\ fh.write)
      /\ attrs.size = length /\ n # 0 => o.attrs.size = o.length
  BY <1>2, CopyModifies DEF Inv
<1>4. skewed' \in BOOLEAN /\ (skewed => skewed') /\ (~skewed' => n # 0) /\ Modify(c, o)
  BY <1>1 DEF Inv, TypeOK
<1> HIDE DEF o
<1> QED
  BY <1>3, <1>4, ModifyKeeps, ModifyEnforces DEF Inv

LEMMA SetXattrStep == Inv /\ SetXattr => Inv' /\ FlagsEnforcedStep
<1> SUFFICES ASSUME Inv, SetXattr PROVE Inv' /\ FlagsEnforcedStep
  OBVIOUS
<1>1. PICK c \in Callers, key \in Keys :
          /\ Serve(setxattr(c, key))
          /\ modifier' = IF setxattr(c, key).reply = "ok" /\ key = "security.capability"
                         THEN "nobody" ELSE modifier
          /\ UNCHANGED <<handles, looked, skewed>>
  BY DEF SetXattr
<1> DEFINE o == setxattr(c, key)
           b == Changed([attrs EXCEPT !.xattrs = @ \cup {key}])
<1>2. /\ b \in Records /\ b.mode = attrs.mode /\ b.size = attrs.size /\ b.flags = attrs.flags
      /\ b.xattrs = attrs.xattrs \cup {key}
      /\ b.atime = attrs.atime /\ b.mtime = attrs.mtime
  BY DEF Inv, TypeOK, Records, Changed
<1>3. \/ Refuses(o)
      \/ o.reply = "ok" /\ o.attrs = b /\ o.length = length /\ ~is_immutable /\ ~is_append_only
  BY DEF setxattr, Refuse, Refuses, Answer, xattr_access_check
<1>4. /\ attrs' = o.attrs /\ length' = o.length
      /\ modifier' = IF o.reply = "ok" /\ key = "security.capability" THEN "nobody" ELSE modifier
      /\ UNCHANGED <<handles, looked, skewed, killpriv, clock>>
  BY <1>1 DEF Serve
<1> HIDE DEF o, b
<1>5. TypeOK' /\ LookedPast' /\ SizeIsLength' /\ AtimeTells'
  BY <1>2, <1>3, <1>4 DEF Inv, TypeOK, LookedPast, SizeIsLength, AtimeTells, Refuses
<1>6. PrivilegesEarned'
  BY <1>2, <1>3, <1>4 DEF Inv, PrivilegesEarned, Refuses
<1>7. FlagsEnforcedStep
  BY <1>2, <1>3, <1>4
     DEF Inv, TypeOK, FlagsEnforcedStep, Enforces, Refuses, is_immutable, is_append_only
<1> QED
  BY <1>5, <1>6, <1>7 DEF Inv

LEMMA RemoveXattrStep == Inv /\ RemoveXattr => Inv' /\ FlagsEnforcedStep
<1> SUFFICES ASSUME Inv, RemoveXattr PROVE Inv' /\ FlagsEnforcedStep
  OBVIOUS
<1>1. PICK c \in Callers, key \in Keys :
          /\ Serve(removexattr(c, key))
          /\ UNCHANGED <<handles, modifier, looked, skewed>>
  BY DEF RemoveXattr
<1> DEFINE o == removexattr(c, key)
           b == Changed([attrs EXCEPT !.xattrs = @ \ {key}])
<1>2. /\ b \in Records /\ b.mode = attrs.mode /\ b.uid = attrs.uid /\ b.gid = attrs.gid
      /\ b.size = attrs.size /\ b.flags = attrs.flags
      /\ b.xattrs = attrs.xattrs \ {key}
      /\ b.atime = attrs.atime /\ b.mtime = attrs.mtime
  BY DEF Inv, TypeOK, Records, Changed
<1>3. \/ Refuses(o)
      \/ /\ o.reply = "ok" /\ o.attrs = b /\ o.length = length
         /\ key = "security.capability" \/ (~is_immutable /\ ~is_append_only)
  BY DEF removexattr, Refuse, Refuses, Answer, xattr_access_check
<1>4. /\ attrs' = o.attrs /\ length' = o.length
      /\ UNCHANGED <<handles, modifier, looked, skewed, killpriv, clock>>
  BY <1>1 DEF Serve
<1> HIDE DEF o, b
<1>5. TypeOK' /\ LookedPast' /\ SizeIsLength' /\ AtimeTells'
  BY <1>2, <1>3, <1>4 DEF Inv, TypeOK, LookedPast, SizeIsLength, AtimeTells, Refuses
<1>6. PrivilegesEarned'
  BY <1>2, <1>3, <1>4 DEF Inv, PrivilegesEarned, Refuses
<1>7. FlagsEnforcedStep
  BY <1>2, <1>3, <1>4
     DEF Inv, TypeOK, FlagsEnforcedStep, Enforces, Refuses, is_immutable, is_append_only
<1> QED
  BY <1>5, <1>6, <1>7 DEF Inv

LEMMA IoctlStep == Inv /\ Ioctl => Inv' /\ FlagsEnforcedStep
<1> SUFFICES ASSUME Inv, Ioctl PROVE Inv' /\ FlagsEnforcedStep
  OBVIOUS
<1>1. PICK flags \in SUBSET (Flags \cup {"COMPR"}) :
          Serve(ioctl(flags)) /\ UNCHANGED <<handles, modifier, looked, skewed>>
  BY DEF Ioctl
<1> DEFINE b == Changed([attrs EXCEPT !.flags = flags])
<1>2. CASE attrs' = attrs /\ length' = length
  BY <1>1, <1>2 DEF Serve, Inv, TypeOK, LookedPast, SizeIsLength, PrivilegesEarned, AtimeTells,
     FlagsEnforcedStep, Enforces
<1>3. CASE flags \subseteq Flags /\ attrs' = b /\ length' = length
  <2>1. /\ b \in Records /\ b.mode = attrs.mode /\ b.uid = attrs.uid /\ b.gid = attrs.gid
        /\ b.size = attrs.size /\ b.xattrs = attrs.xattrs
        /\ b.atime = attrs.atime /\ b.mtime = attrs.mtime
    BY <1>3 DEF Inv, TypeOK, Records, Changed
  <2> HIDE DEF b
  <2> QED
    BY <1>1, <1>3, <2>1 DEF Serve, Inv, TypeOK, LookedPast, SizeIsLength, PrivilegesEarned,
       AtimeTells, FlagsEnforcedStep, Enforces
<1> QED
  BY <1>1, <1>2, <1>3 DEF Serve, ioctl, Refuse, Answer

LEMMA NextKeeps == Inv /\ [Next]_vars => Inv' /\ [FlagsEnforcedStep]_vars
<1> SUFFICES ASSUME Inv, [Next]_vars PROVE Inv' /\ [FlagsEnforcedStep]_vars
  OBVIOUS
<1>1. CASE Release
  <2>1. handles' \subseteq handles
        /\ UNCHANGED <<attrs, length, killpriv, clock, modifier, looked, skewed>>
    BY <1>1 DEF Release
  <2>2. Inv'
    BY <2>1 DEF Inv, TypeOK, LookedPast, SizeIsLength, PrivilegesEarned, AtimeTells
  <2>3. FlagsEnforcedStep
    BY <2>1 DEF Inv, TypeOK, FlagsEnforcedStep, Enforces
  <2> QED
    BY <2>2, <2>3
<1>2. CASE Tick
  <2>1. Inv'
    BY <1>2 DEF Tick, Inv, TypeOK, Records, LookedPast, SizeIsLength, PrivilegesEarned, AtimeTells
  <2>2. FlagsEnforcedStep
    BY <1>2 DEF Tick, Inv, TypeOK, FlagsEnforcedStep, Enforces
  <2> QED
    BY <2>1, <2>2
<1>3. CASE UNCHANGED vars
  BY <1>3 DEF vars, Inv, TypeOK, LookedPast, SizeIsLength, PrivilegesEarned, AtimeTells
<1> QED
  BY <1>1, <1>2, <1>3, ChmodStep, ChownStep, TruncateStep, UtimensStep, OpenStep, ReadStep,
     WriteStep, FallocateStep, CopyFileRangeStep, SetXattrStep, RemoveXattrStep, IoctlStep
     DEF Next

---------------------------------------------------------------------------
(* The record, the content and the histories stay in their types, and the  *)
(* three invariants hold in every state.                                   *)
THEOREM Invariance == Spec => []Inv
  BY InitInv, NextKeeps, PTL DEF Spec

THEOREM TypeCorrect == Spec => []TypeOK
<1>1. Inv => TypeOK
  BY DEF Inv
<1> QED
  BY <1>1, Invariance, PTL

(* write, truncate, fallocate and copy_file_range leave the size of the    *)
(* record and the length of the content equal, for every offset and length.*)
THEOREM SizeCorrect == Spec => []SizeIsLength
<1>1. Inv => SizeIsLength
  BY DEF Inv
<1> QED
  BY <1>1, Invariance, PTL

(* Write, truncate, chown, fallocate and copy_file_range leave no          *)
(* privileges that the modifiers of the file did not earn, for any         *)
(* callers, groups and modes; a truncate that carries a modification time  *)
(* adds none to those that were there.                                     *)
THEOREM PrivilegesCorrect == Spec => []PrivilegesEarned
<1>1. Inv => PrivilegesEarned
  BY DEF Inv
<1> QED
  BY <1>1, Invariance, PTL

(* A file that was looked at since its last change shows it in its access  *)
(* time, although relatime skips most updates, for every clock and day and *)
(* whatever times callers set, also such as lie in the future.             *)
THEOREM AtimeCorrect == Spec => []AtimeTells
<1>1. Inv => AtimeTells
  BY DEF Inv
<1> QED
  BY <1>1, Invariance, PTL

(* No request gets around the immutable and the append-only flag: neither  *)
(* mode, owner nor attributes move and the content never shrinks.          *)
THEOREM FlagsCorrect == Spec => FlagsEnforced
  BY InitInv, NextKeeps, Invariance, PTL DEF Spec, FlagsEnforced

=============================================================================
