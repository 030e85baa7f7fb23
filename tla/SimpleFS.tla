------------------------------ MODULE SimpleFS ------------------------------
(***************************************************************************)
(* The namespace of the example filesystem examples/simple.rs: inodes,     *)
(* directories, link counts and open handles, kept as one small file per   *)
(* inode under inodes/, one per inode under contents/, and a superblock    *)
(* holding the last inode number given out.                                *)
(*                                                                         *)
(* A handler reads what it needs, refuses the request or computes the      *)
(* files it rewrites, and rewrites them one after the other.  The model    *)
(* computes the same sequence of writes, so that the process can be killed *)
(* after any of them, or in the middle of one: every file is truncated     *)
(* before it is written, and one left truncated makes the read that meets  *)
(* it panic.  One thread serves the requests (n_threads is 1 by default),  *)
(* so no other handler runs between two writes of one request.             *)
(*                                                                         *)
(* Permissions, inode flags, sizes, times and extended attributes are in   *)
(* SimpleAttrs: their checks all come before a handler's first write.      *)
(***************************************************************************)
EXTENDS Integers, FiniteSets, Sequences, FiniteSetsExt

CONSTANTS Names,        \* the names a request may give an entry
          MaxIno,       \* bound: the last inode number that is given out
          KillIno,      \* bound: a process that has given out more is not killed,
                        \*        and one mounted after a kill gives out no more
          MaxHandles,   \* bound: handles the kernel holds open at once, one after a kill
          MaxMounts,    \* bound: times the filesystem is mounted
          U32Max,       \* the largest link count, after which it wraps
          Absent,       \* a file that does not exist
          Torn,         \* a file truncated and not yet written
          Data          \* the content of a file or symlink

ASSUME NamesAssumption == IsFiniteSet(Names) /\ "." \notin Names /\ ".." \notin Names
ASSUME BoundsAssumption ==
    MaxIno \in Nat \ {0} /\ KillIno \in 0 .. MaxIno /\ MaxHandles \in Nat /\ MaxMounts \in Nat /\ U32Max \in Nat \ {0}

VARIABLES disk,       \* the files under data_dir
          handles,    \* per inode, the file handles the kernel holds
          mounted,    \* the process is running and serving requests
          mounts,     \* mounts so far
          clean,      \* no process was killed so far
          reply       \* the answer to the last request

vars == <<disk, handles, mounted, mounts, clean, reply>>

ROOT == 1
Inos == ROOT .. MaxIno
Errors == {"EEXIST", "ENOENT", "ENOTEMPTY", "EINVAL"}

InodeFile(i) == <<"inodes", i>>
ContentFile(i) == <<"contents", i>>
Superblock == <<"superblock", 0>>
Files == {InodeFile(i) : i \in Inos} \cup {ContentFile(i) : i \in Inos} \cup {Superblock}

(* What is in a file under inodes/, and in that of a directory under       *)
(* contents/ when the inodes given out so far are those up to last.        *)
Kinds == {"File", "Directory"}
InodeRecords == [kind : Kinds, hardlinks : Nat, open_file_handles : Nat]
EntriesTo(last) ==
    UNION {[D -> (1 .. last) \X Kinds] : D \in SUBSET (Names \cup {".", ".."})}

ASSUME ContentsAssumption ==
    /\ Absent # Torn /\ Absent # Data /\ Torn # Data
    /\ \A v \in {Absent, Torn, Data} :
          v \notin Nat /\ v \notin InodeRecords /\ v \notin EntriesTo(MaxIno)

inode(i) == disk[InodeFile(i)]
content(i) == disk[ContentFile(i)]
Exists(v) == v \notin {Absent, Torn}
IsDirectoryContent(v) == Exists(v) /\ v # Data

---------------------------------------------------------------------------
(* Names and the tree, as the kernel finds them by looking up.             *)

(* The inode a name of a directory is bound to; none if the directory has  *)
(* no content or no such name.                                             *)
Bound(d, n) ==
    IF IsDirectoryContent(content(d)) /\ n \in DOMAIN content(d)
    THEN {content(d)[n][1]} ELSE {}

Children(d) == UNION {Bound(d, n) : n \in Names}

(* The inodes at or below d, by following entries at most MaxIno deep.     *)
Below(d) ==
    LET reach[k \in 0 .. MaxIno] ==
            IF k = 0 THEN {d}
            ELSE LET above == reach[k - 1]
                 IN  above \cup UNION {Children(x) : x \in above}
    IN  {d} \cup (Inos \cap reach[MaxIno])

Slots == {s \in Inos \X Names : Bound(s[1], s[2]) # {}}
Namespace == [s \in Slots |-> CHOOSE i \in Bound(s[1], s[2]) : TRUE]
Links(i) == {s \in Inos \X Names : i \in Bound(s[1], s[2])}

Directories == {i \in Below(ROOT) : Exists(inode(i)) /\ inode(i).kind = "Directory"}

---------------------------------------------------------------------------
(* Writing files.                                                          *)

(* The files after the first k writes: each has its last one.              *)
Written(writes, k) ==
    [f \in Files |->
        LET mine == {j \in 1 .. k : writes[j][1] = f}
        IN  IF mine = {} THEN disk[f] ELSE writes[Max(mine)][2]]

(* An empty content file is a valid file; a record or a descriptor that    *)
(* was truncated is not.                                                   *)
Tears(write) == write[2] \notin {Absent, Data}

(* What a process killed after any number of writes, perhaps with the next *)
(* one begun, leaves behind.                                               *)
Interrupted(writes) ==
    {Written(writes, k) : k \in 0 .. Len(writes)} \cup
    {[Written(writes, k - 1) EXCEPT ![writes[k][1]] = Torn] :
        k \in {j \in 1 .. Len(writes) : Tears(writes[j])}}

(* allocate_next_inode                                                     *)
LastInode == IF disk[Superblock] = Absent THEN ROOT ELSE disk[Superblock]
NextInode == LastInode + 1

(* The kind "File" stands for all but directories: files, symlinks,       *)
(* devices, fifos and sockets are named and collected alike.               *)
Attrs(kind, links, open) ==
    [kind |-> kind, hardlinks |-> links, open_file_handles |-> open]

Insert(entries, name, i, kind) ==
    [n \in DOMAIN entries \cup {name} |->
        IF n = name THEN <<i, kind>> ELSE entries[n]]
Remove(entries, name) == [n \in DOMAIN entries \ {name} |-> entries[n]]

\* Mutant of GcInode: open handles do not keep the inode.
GcInodeDespiteHandles(i, attrs) ==
    IF attrs.hardlinks = 0
    THEN <<<<InodeFile(i), Absent>>, <<ContentFile(i), Absent>>>> ELSE <<>>
\* Mutant of GcInode: the inode stays when its last name goes.
GcInodeKeeps(i, attrs) ==
    IF attrs.hardlinks = 0 /\ attrs.open_file_handles = 0
    THEN <<<<ContentFile(i), Absent>>>> ELSE <<>>

(* gc_inode: the files removed once nothing refers to the inode; removing  *)
(* a content file that is not there panics, and nothing is written after.  *)
GcInode(i, attrs) ==
    IF attrs.hardlinks = 0 /\ attrs.open_file_handles = 0
    THEN <<<<InodeFile(i), Absent>>, <<ContentFile(i), Absent>>>> ELSE <<>>
GcPanics(i, attrs) ==
    attrs.hardlinks = 0 /\ attrs.open_file_handles = 0 /\ content(i) = Absent

DecrementLinks(attrs) ==
    [attrs EXCEPT !.hardlinks = IF @ = 0 THEN U32Max ELSE @ - 1]
\* Mutant of IncrementLinks: the new name is not counted.
IncrementLinksForgotten(attrs) == attrs
IncrementLinks(attrs) == [attrs EXCEPT !.hardlinks = (@ + 1) % (U32Max + 1)]

---------------------------------------------------------------------------
(* Handlers: the answer, and the writes made on the way to it.             *)

Refuse(error) == [reply |-> error, writes |-> <<>>]
Done(writes) == [reply |-> "ok", writes |-> writes]
Panic(writes) == [reply |-> "panic", writes |-> writes]

(* lookup_name, for the callers that only ask whether the name resolves.   *)
LookupName(d, n) == {i \in Bound(d, n) : Exists(inode(i))}

(* Every request on a name starts by reading the directory, the inode the  *)
(* name is bound to and the inode of the directory.                        *)
ReadsTorn(d, n) ==
    Torn \in {content(d), inode(d)} \cup {inode(i) : i \in Bound(d, n)}

(* Rewriting the parent's descriptor, which is read back first.            *)
Entering(d, writes, entries) ==
    IF content(d) = Absent THEN Panic(writes)
    ELSE Done(Append(writes, <<ContentFile(d), entries>>))

\* Mutant of MakeNode: the superblock is written after the inode.
MakeNodeSuperblockLate(d, n, open) ==
    IF LookupName(d, n) # {} THEN Refuse("EEXIST")
    ELSE Entering(d,
           <<<<InodeFile(d), inode(d)>>,
             <<InodeFile(NextInode), Attrs("File", 1, open)>>,
             <<ContentFile(NextInode), Data>>,
             <<Superblock, NextInode>>>>,
           Insert(content(d), n, NextInode, "File"))

(* mknod and create: inode and content first, the name last.               *)
MakeNode(d, n, open) ==
    IF LookupName(d, n) # {} THEN Refuse("EEXIST")
    ELSE Entering(d,
           <<<<InodeFile(d), inode(d)>>,
             <<Superblock, NextInode>>,
             <<InodeFile(NextInode), Attrs("File", 1, open)>>,
             <<ContentFile(NextInode), Data>>>>,
           Insert(content(d), n, NextInode, "File"))

mknod(d, n) == MakeNode(d, n, 0)
create(d, n) == MakeNode(d, n, 1)

\* Mutant of mkdir: the new directory gets no content.
mkdirNoContent(d, n) ==
    IF LookupName(d, n) # {} THEN Refuse("EEXIST")
    ELSE Entering(d,
           <<<<InodeFile(d), inode(d)>>,
             <<Superblock, NextInode>>,
             <<InodeFile(NextInode), Attrs("Directory", 2, 0)>>>>,
           Insert(content(d), n, NextInode, "Directory"))

mkdir(d, n) ==
    IF LookupName(d, n) # {} THEN Refuse("EEXIST")
    ELSE Entering(d,
           <<<<InodeFile(d), inode(d)>>,
             <<Superblock, NextInode>>,
             <<InodeFile(NextInode), Attrs("Directory", 2, 0)>>,
             <<ContentFile(NextInode),
               [m \in {".", ".."} |-> <<IF m = "." THEN NextInode ELSE d, "Directory">>]>>>>,
           Insert(content(d), n, NextInode, "Directory"))

\* Mutant of symlink: the name is entered before it is found taken.
symlinkOverwrites(d, n) ==
    LET entered == <<<<InodeFile(d), inode(d)>>, <<Superblock, NextInode>>,
                     <<ContentFile(d), Insert(content(d), n, NextInode, "File")>>>>
    IN  IF LookupName(d, n) # {} THEN [reply |-> "EEXIST", writes |-> entered]
        ELSE IF content(d) = Absent THEN Panic(SubSeq(entered, 1, 2))
        ELSE Done(entered \o <<<<InodeFile(NextInode), Attrs("File", 1, 0)>>,
                               <<ContentFile(NextInode), Data>>>>)

(* symlink: the name comes first, by insert_link, which is also where an   *)
(* existing name is refused, the inode number being spent by then.         *)
symlink(d, n) ==
    LET allocated == <<<<InodeFile(d), inode(d)>>, <<Superblock, NextInode>>>>
    IN  IF LookupName(d, n) # {}
        THEN [reply |-> "EEXIST", writes |-> allocated]
        ELSE IF content(d) = Absent THEN Panic(allocated)
        ELSE Done(allocated \o
               <<<<ContentFile(d), Insert(content(d), n, NextInode, "File")>>,
                 <<InodeFile(NextInode), Attrs("File", 1, 0)>>,
                 <<ContentFile(NextInode), Data>>>>)

tmpfile ==
    Done(<<<<Superblock, NextInode>>,
           <<InodeFile(NextInode), Attrs("File", 0, 1)>>,
           <<ContentFile(NextInode), Data>>>>)

link(i, d, n) ==
    IF LookupName(d, n) # {} THEN Refuse("EEXIST")
    ELSE IF content(d) = Absent THEN Panic(<<<<InodeFile(d), inode(d)>>>>)
    ELSE Done(<<<<InodeFile(d), inode(d)>>,
                <<ContentFile(d), Insert(content(d), n, i, inode(i).kind)>>,
                <<InodeFile(i), IncrementLinks(inode(i))>>>>)

(* The writes that take one name, or all, from an inode and collect it if  *)
(* nothing refers to it any more.                                          *)
Drop(i, attrs) == <<<<InodeFile(i), attrs>>>> \o GcInode(i, attrs)

(* unlink and rmdir: the inode first, the name last.                       *)
Unname(d, n, i, attrs) ==
    LET dropped == <<<<InodeFile(d), inode(d)>>>> \o Drop(i, attrs)
    IN  IF GcPanics(i, attrs) THEN Panic(dropped)
        ELSE Entering(d, dropped, Remove(content(d), n))

unlink(d, n, i) == Unname(d, n, i, DecrementLinks(inode(i)))

rmdir(d, n, i) ==
    IF ~IsDirectoryContent(content(i)) THEN Panic(<<>>)
    ELSE IF Cardinality(DOMAIN content(i)) > 2 THEN Refuse("ENOTEMPTY")
    ELSE Unname(d, n, i, [inode(i) EXCEPT !.hardlinks = 0])

\* Mutant of Reparent: a moved directory keeps its old parent.
ReparentForgotten(i, d) == <<>>

(* A moved directory gets a new ".."                                       *)
Reparent(i, d) ==
    IF inode(i).kind = "Directory"
    THEN <<<<ContentFile(i), Insert(content(i), "..", d, "Directory")>>>> ELSE <<>>
ReparentPanics(i) == inode(i).kind = "Directory" /\ ~IsDirectoryContent(content(i))

(* rename with RENAME_EXCHANGE: both directories, then the inodes, then    *)
(* the two parents' links.                                                 *)
Exchange(d, n, i, e, m, j) ==
    LET there == Insert(content(e), m, i, inode(i).kind)
        here == Insert(IF d = e THEN there ELSE content(d), n, j, inode(j).kind)
        swapped == <<<<ContentFile(e), there>>, <<ContentFile(d), here>>,
                     <<InodeFile(d), inode(d)>>, <<InodeFile(e), inode(e)>>,
                     <<InodeFile(i), inode(i)>>, <<InodeFile(j), inode(j)>>>>
    IN  IF ReparentPanics(i) THEN Panic(swapped)
        ELSE IF ReparentPanics(j) THEN Panic(swapped \o Reparent(i, e))
        ELSE Done(swapped \o Reparent(i, e) \o Reparent(j, d))

(* The destination a rename replaces loses its name and perhaps its inode. *)
Replaced(e, m, j) ==
    <<<<ContentFile(e), Remove(content(e), m)>>>> \o
    Drop(j, IF inode(j).kind = "Directory" THEN [inode(j) EXCEPT !.hardlinks = 0]
            ELSE DecrementLinks(inode(j)))
ReplacePanics(j) ==
    inode(j).kind # "Directory" /\ GcPanics(j, DecrementLinks(inode(j)))

(* rename without RENAME_EXCHANGE.  The owner of a whiteout is missing if  *)
(* the kernel sent no ids for it (whiteout_owner), which is found out only *)
(* after the destination was replaced.                                     *)
Move(d, n, i, e, m, target, whiteout, owned) ==
    LET removed == UNION {{Replaced(e, m, j)} : j \in target}
        replaced == IF removed = {} THEN <<>> ELSE CHOOSE w \in removed : TRUE
        gone(x) == IF x = e /\ target # {} THEN Remove(content(x), m) ELSE content(x)
        left == IF whiteout THEN Insert(Remove(gone(d), n), n, NextInode, "File")
                ELSE Remove(gone(d), n)
        hole == IF whiteout
                THEN <<<<Superblock, NextInode>>,
                       <<InodeFile(NextInode), Attrs("File", 1, 0)>>,
                       <<ContentFile(NextInode), Data>>>> ELSE <<>>
        taken == replaced \o hole \o <<<<ContentFile(d), left>>>>
        moved == taken \o
                 <<<<ContentFile(e), Insert(IF d = e THEN left ELSE gone(e), m, i, inode(i).kind)>>,
                   <<InodeFile(d), inode(d)>>, <<InodeFile(e), inode(e)>>,
                   <<InodeFile(i), inode(i)>>>>
    IN  IF \E j \in target : ReplacePanics(j) THEN Panic(replaced)
        ELSE IF whiteout /\ ~owned THEN [reply |-> "EIO", writes |-> replaced]
        ELSE IF whiteout /\ disk[Superblock] = Torn THEN Panic(replaced)
        ELSE IF content(e) = Absent THEN Panic(taken)
        ELSE IF ReparentPanics(i) THEN Panic(moved)
        ELSE Done(moved \o Reparent(i, e))

RenameFlags == SUBSET {"EXCHANGE", "NOREPLACE", "WHITEOUT"}

rename(d, n, i, e, m, flags, owned) ==
    LET target == LookupName(e, m)
    IN  IF "EXCHANGE" \in flags /\ flags # {"EXCHANGE"} THEN Refuse("EINVAL")
        ELSE IF "EXCHANGE" \in flags
        THEN IF target = {} THEN Refuse("ENOENT")
             ELSE Exchange(d, n, i, e, m, CHOOSE j \in target : TRUE)
        ELSE IF "NOREPLACE" \in flags /\ target # {} THEN Refuse("EEXIST")
        ELSE IF \E j \in target : ReparentPanics(j) THEN Panic(<<>>)
        ELSE IF \E j \in target : /\ inode(j).kind = "Directory"
                                  /\ Cardinality(DOMAIN content(j)) > 2
        THEN Refuse("ENOTEMPTY")
        ELSE Move(d, n, i, e, m, target, "WHITEOUT" \in flags, owned)

(* open and opendir count a handle; release and releasedir, through        *)
(* close_handle, uncount it and collect the inode if that was the last     *)
(* thing keeping it.                                                       *)
open(i) == Done(<<<<InodeFile(i), [inode(i) EXCEPT !.open_file_handles = @ + 1]>>>>)

release(i) ==
    IF inode(i) = Absent THEN Done(<<>>)
    ELSE LET attrs == [inode(i) EXCEPT !.open_file_handles = IF @ = 0 THEN 0 ELSE @ - 1]
         IN  IF GcPanics(i, attrs) THEN Panic(Drop(i, attrs)) ELSE Done(Drop(i, attrs))

(* init: an inodes/ without a root gets an empty one.                      *)
init ==
    IF inode(ROOT) = Torn THEN Panic(<<>>)
    ELSE IF inode(ROOT) # Absent THEN Done(<<>>)
    ELSE Done(<<<<InodeFile(ROOT), Attrs("Directory", 2, 0)>>,
                <<ContentFile(ROOT), [m \in {"."} |-> <<ROOT, "Directory">>]>>>>)

---------------------------------------------------------------------------
(* Requests.  The kernel names a directory it has reached by lookups, and  *)
(* holds a handle until it releases it, once.                              *)

NoHandles == [i \in Inos |-> 0]
CanOpen ==
    MapThenSumSet(LAMBDA i : handles[i], Inos) < IF clean THEN MaxHandles ELSE 1

(* What is kept of an answer: whether the request was carried out, refused *)
(* with some errno, given up with EIO or ended in a panic.                 *)
Answer(outcome) == IF outcome.reply \in Errors THEN "refused" ELSE outcome.reply

Killed ==
    /\ disk'[Superblock] \in {Absent, Torn} \cup 1 .. KillIno
    /\ clean' = FALSE /\ mounted' = FALSE /\ handles' = NoHandles /\ reply' = "killed"

(* A handler runs to its answer, panics where it ends, or is killed.       *)
Run(outcome, open_after) ==
    /\ UNCHANGED mounts
    /\ \/ /\ disk' = Written(outcome.writes, Len(outcome.writes))
          /\ reply' = Answer(outcome)
          /\ mounted' = (outcome.reply # "panic")
          /\ handles' = CASE outcome.reply = "ok" -> open_after
                          [] outcome.reply = "panic" -> NoHandles
                          [] OTHER -> handles
          /\ UNCHANGED clean
       \/ /\ disk' \in Interrupted(outcome.writes)
          /\ Killed

Serve(torn, outcome, open_after) ==
    /\ mounted
    /\ IF torn THEN Run(Panic(<<>>), handles) ELSE Run(outcome, open_after)

Opened(i) == [handles EXCEPT ![i] = @ + 1]
CanAllocate ==
    IF disk[Superblock] = Torn THEN TRUE
    ELSE NextInode <= IF clean THEN MaxIno ELSE KillIno
AllocatesTorn(d, n) == ReadsTorn(d, n) \/ disk[Superblock] = Torn

Mknod ==
    \E d \in Directories, n \in Names :
        CanAllocate /\ Serve(AllocatesTorn(d, n), mknod(d, n), handles)

Create ==
    \E d \in Directories, n \in Names :
        /\ CanAllocate /\ CanOpen
        /\ Serve(AllocatesTorn(d, n), create(d, n), Opened(NextInode))

Mkdir ==
    \E d \in Directories, n \in Names :
        CanAllocate /\ Serve(AllocatesTorn(d, n), mkdir(d, n), handles)

Symlink ==
    \E d \in Directories, n \in Names :
        CanAllocate /\ Serve(AllocatesTorn(d, n), symlink(d, n), handles)

Tmpfile ==
    /\ CanAllocate /\ CanOpen
    /\ Serve(disk[Superblock] = Torn, tmpfile, Opened(NextInode))

(* The kernel links what it has named or holds open, and no directory.     *)
Link ==
    \E i \in Inos, d \in Directories, n \in Names :
        /\ i \in Below(ROOT) \/ handles[i] > 0
        /\ Exists(inode(i)) /\ inode(i).kind # "Directory"
        /\ Serve(ReadsTorn(d, n), link(i, d, n), handles)

Unlink ==
    \E d \in Directories, n \in Names : \E i \in LookupName(d, n) :
        /\ inode(i).kind # "Directory"
        /\ Serve(ReadsTorn(d, n), unlink(d, n, i), handles)

Rmdir ==
    \E d \in Directories, n \in Names : \E i \in LookupName(d, n) :
        /\ inode(i).kind = "Directory"
        /\ Serve(ReadsTorn(d, n), rmdir(d, n, i), handles)

(* The kernel refuses by itself to move a directory below itself, to       *)
(* replace one by a file or the reverse, and to rename an inode over       *)
(* another name of its own.                                                *)
Rename ==
    \E d \in Directories, n \in Names : \E i \in LookupName(d, n) :
    \E e \in Directories \ Below(i), m \in Names :
        /\ \A j \in LookupName(e, m) : j # i /\ d \notin Below(j)
        /\ \E flags \in RenameFlags, owned \in BOOLEAN :
              /\ ~owned => "WHITEOUT" \in flags
              /\ \A j \in LookupName(e, m) : "EXCHANGE" \in flags \/ inode(i).kind = inode(j).kind
              /\ "WHITEOUT" \in flags => CanAllocate
              /\ Serve(ReadsTorn(d, n) \/ ReadsTorn(e, m), rename(d, n, i, e, m, flags, owned), handles)

Open ==
    \E i \in Below(ROOT) :
        /\ CanOpen /\ inode(i) # Absent
        /\ Serve(inode(i) = Torn, open(i), Opened(i))

Release ==
    \E i \in Inos :
        /\ handles[i] > 0
        /\ Serve(inode(i) = Torn, release(i), [handles EXCEPT ![i] = @ - 1])

(* The requests that rewrite one inode and nothing else: setattr, write,   *)
(* setxattr, ioctl, and the reads that move the access time.               *)
Rewrite ==
    \E i \in Inos :
        /\ i \in Below(ROOT) \/ handles[i] > 0
        /\ inode(i) # Absent
        /\ Serve(inode(i) = Torn, Done(<<<<InodeFile(i), inode(i)>>>>), handles)

(* A check that refuses a request comes before its first write.            *)
Deny == mounted /\ reply' = "refused" /\ UNCHANGED <<disk, handles, mounted, mounts, clean>>

Mount ==
    /\ ~mounted /\ mounts < MaxMounts
    /\ mounts' = mounts + 1
    /\ \/ /\ disk' = Written(init.writes, Len(init.writes))
          /\ reply' = Answer(init)
          /\ mounted' = (init.reply # "panic")
          /\ UNCHANGED <<handles, clean>>
       \/ /\ disk' \in Interrupted(init.writes)
          /\ Killed

(* The kernel lets go of a filesystem when it has released every handle.   *)
Unmount ==
    /\ mounted /\ handles = NoHandles
    /\ mounted' = FALSE /\ reply' = "ok"
    /\ UNCHANGED <<disk, handles, mounts, clean>>

Init ==
    /\ disk = [f \in Files |-> Absent]
    /\ handles = NoHandles
    /\ mounted = FALSE /\ mounts = 0 /\ clean = TRUE /\ reply = "ok"

Next ==
    \/ Mknod \/ Create \/ Mkdir \/ Symlink \/ Tmpfile \/ Link
    \/ Unlink \/ Rmdir \/ Rename \/ Open \/ Release \/ Rewrite
    \/ Deny \/ Mount \/ Unmount

Spec == Init /\ [][Next]_vars

---------------------------------------------------------------------------
(* Properties.                                                             *)

(* Between requests the link count of a file is the number of its names,   *)
(* and a directory, counted 2, has one name, or none once it was removed   *)
(* while open: unlink, link, the five ways to create and every rename keep *)
(* the two apart files, the inode and the directories, in step.            *)
LinkCountsExact ==
    clean => \A i \in Inos \ {ROOT} : Exists(inode(i)) =>
        IF inode(i).kind = "Directory"
        THEN \/ inode(i).hardlinks = 2 /\ Cardinality(Links(i)) = 1
             \/ inode(i).hardlinks = 0 /\ Links(i) = {}
        ELSE inode(i).hardlinks = Cardinality(Links(i))

(* Storage is neither leaked nor freed too early: an inode and its content *)
(* are on disk exactly while a name or an open handle refers to it, and    *)
(* every name leads to an inode of the kind the entry records.             *)
StorageExact ==
    clean /\ mounts > 0 =>
        \A i \in Inos :
            /\ inode(i) # Absent <=> i = ROOT \/ Links(i) # {} \/ handles[i] > 0
            /\ inode(i) # Absent <=> content(i) # Absent
            /\ \A s \in Links(i) : content(s[1])[s[2]][2] = inode(i).kind

(* The directories are a tree whose upward links agree with its downward   *)
(* ones: "." is the directory, ".." the one that names it, whatever        *)
(* renames and exchanges moved it.                                         *)
TreeAgrees ==
    clean => \A i \in Directories :
        /\ content(i)["."] = <<i, "Directory">>
        /\ \A s \in Links(i) : content(i)[".."] = <<s[1], "Directory">>

(* An open file keeps its storage: its handle count on disk is never below *)
(* the handles the kernel holds, a kill and a new mount in between or not. *)
OpenFilesPinned ==
    \A i \in Inos : handles[i] > 0 =>
        inode(i) = Torn \/ (inode(i) # Absent /\ inode(i).open_file_handles >= handles[i])

(* The number given to the next inode is in use nowhere, so a new file     *)
(* never takes over the name, content or handles of another: the           *)
(* superblock is written before the number is used.                        *)
NextInodeUnused ==
    disk[Superblock] # Torn => \A i \in Inos : i >= NextInode =>
        inode(i) = Absent /\ content(i) = Absent /\ Links(i) = {} /\ handles[i] = 0

(* None of the unwrap()s the handlers rely on fails unless the process was *)
(* killed before.                                                          *)
NoPanic == clean => reply # "panic"

(* A request that is refused changes no name, symlink included, which has  *)
(* spent an inode number by then.  The exception is the whiteout rename    *)
(* that finds no owner: it answers EIO when the name it was to replace is  *)
(* gone, and that is all it has done.                                      *)
LosesOneName == \E s \in Slots : Namespace' = [t \in Slots \ {s} |-> Namespace[t]]
RefusedChangesNoName ==
    [][/\ reply' = "refused" => Namespace' = Namespace
       /\ reply' = "EIO" => Namespace' = Namespace \/ LosesOneName]_vars

=============================================================================
