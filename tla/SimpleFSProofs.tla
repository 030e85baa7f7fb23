--------------------------- MODULE SimpleFSProofs ---------------------------
(***************************************************************************)
(* The storage of examples/simple.rs keeps its promises for any names, any *)
(* number of inodes, handles and mounts, and whichever write of a request  *)
(* the process is killed at.                                               *)
(*                                                                         *)
(* A request is a sequence of writes, and what a kill leaves is a prefix   *)
(* of it.  So the argument is about single writes: each one leaves a file  *)
(* fit for its inode, and those that use a new inode number come after the *)
(* superblock that gives it out.                                           *)
(***************************************************************************)
EXTENDS SimpleFS, FiniteSetTheorems, WellFoundedInduction, TLAPS

---------------------------------------------------------------------------
(* Files and sequences of writes.                                          *)

LEMMA FilesDistinct ==
    /\ \A i, j : InodeFile(i) = InodeFile(j) => i = j
    /\ \A i, j : ContentFile(i) = ContentFile(j) => i = j
    /\ \A i, j : InodeFile(i) # ContentFile(j)
    /\ \A i : InodeFile(i) # Superblock /\ ContentFile(i) # Superblock
    /\ \A i \in Inos : InodeFile(i) \in Files /\ ContentFile(i) \in Files
    /\ Superblock \in Files
    /\ \A f \in Files : f = Superblock \/ \E i \in Inos : f = InodeFile(i) \/ f = ContentFile(i)
  BY DEF InodeFile, ContentFile, Superblock, Files

(* The largest of some indices; the provers have no induction, but the     *)
(* library's theorem on least elements of a well-founded relation.         *)
LEMMA MaxOfIndices ==
    ASSUME NEW k \in Nat, NEW M, M \subseteq 1 .. k, M # {}
    PROVE  Max(M) \in M /\ \A j \in M : j <= Max(M)
<1> DEFINE R == OpToRel(<, Nat)
           T == {i \in Nat : k - i \in M}
<1>1. T \subseteq Nat /\ T # {}
  <2>1. PICK m \in M : TRUE
    OBVIOUS
  <2>2. k - m \in Nat /\ k - (k - m) = m
    BY <2>1
  <2> QED
    BY <2>1, <2>2
<1>2. IsWellFoundedOn(R, Nat)
  BY NatLessThanWellFounded
<1>3. \A x, y \in Nat : x < y => <<x, y>> \in R
  BY DEF OpToRel
<1> HIDE DEF R, T
<1>4. PICK x \in T : \A y \in T : <<y, x>> \notin R
  BY <1>1, <1>2, WFMin
<1>5. x \in Nat /\ \A y \in T : ~(y < x)
  BY <1>1, <1>3, <1>4
<1>6. k - x \in M /\ \A j \in M : j <= k - x
  <2>1. k - x \in M
    BY <1>4 DEF T
  <2>2. ASSUME NEW j \in M PROVE j <= k - x
    <3>1. k - j \in Nat /\ k - (k - j) = j
      BY <2>2
    <3>2. k - j \in T
      BY <3>1 DEF T
    <3> QED
      BY <1>5, <2>2, <3>1, <3>2
  <2> QED
    BY <2>1, <2>2
<1>7. \E y \in M : \A j \in M : y >= j
  BY <1>5, <1>6
<1> QED
  BY <1>7 DEF Max

(* A file has what it had, or what some write put there.                   *)
LEMMA WrittenFrom ==
    ASSUME NEW w, NEW k \in Nat, NEW f \in Files
    PROVE  \/ Written(w, k)[f] = disk[f] /\ \A j \in 1 .. k : w[j][1] # f
           \/ \E j \in 1 .. k : w[j][1] = f /\ Written(w, k)[f] = w[j][2]
<1> DEFINE mine == {j \in 1 .. k : w[j][1] = f}
<1>1. Written(w, k)[f] = IF mine = {} THEN disk[f] ELSE w[Max(mine)][2]
  BY DEF Written
<1>2. CASE mine = {}
  BY <1>1, <1>2
<1>3. CASE mine # {}
  BY <1>1, <1>3, MaxOfIndices
<1> QED
  BY <1>2, <1>3

(* It has what the last one put there.                                     *)
LEMMA WrittenLast ==
    ASSUME NEW w, NEW k \in Nat, NEW f \in Files, NEW j \in 1 .. k, w[j][1] = f,
           \A h \in j + 1 .. k : w[h][1] # f
    PROVE  Written(w, k)[f] = w[j][2]
<1> DEFINE mine == {h \in 1 .. k : w[h][1] = f}
<1>1. Written(w, k)[f] = IF mine = {} THEN disk[f] ELSE w[Max(mine)][2]
  BY DEF Written
<1>2. j \in mine /\ \A h \in mine : h <= j
  OBVIOUS
<1>3. Max(mine) = j
  <2>1. Max(mine) \in mine /\ j <= Max(mine)
    BY <1>2, MaxOfIndices
  <2> QED
    BY <1>2, <2>1
<1> QED
  BY <1>1, <1>2, <1>3

LEMMA WrittenFiles ==
    ASSUME NEW w, NEW k
    PROVE  DOMAIN Written(w, k) = Files /\ Written(w, k) = [f \in Files |-> Written(w, k)[f]]
  BY DEF Written

---------------------------------------------------------------------------
(* What is on disk.  Every inode number has a kind, which its record and   *)
(* its content agree on, and nothing is beyond the number that the         *)
(* superblock has given out.  No directory has itself as an entry, and all *)
(* but the root have the two entries mkdir gives them.                     *)

Limit(D) ==
    CASE D[Superblock] = Torn -> MaxIno
      [] D[Superblock] = Absent -> ROOT
      [] OTHER -> D[Superblock]

RecordsOf(kind) == {r \in InodeRecords : r.kind = kind}
Dotted(i, names) == i = ROOT \/ ("." \in names /\ ".." \in names)
EntriesOf(i, last) ==
    {e \in EntriesTo(last) : (\A n \in Names \cap DOMAIN e : e[n][1] # i) /\ Dotted(i, DOMAIN e)}
ContentsOf(i, kind, last) == IF kind = "File" THEN {Data} ELSE EntriesOf(i, last)

Kept(D, last, kinds) ==
    \A i \in Inos :
        /\ D[InodeFile(i)] \in {Absent, Torn} \cup RecordsOf(kinds[i])
        /\ D[ContentFile(i)] \in {Absent, Torn} \cup ContentsOf(i, kinds[i], last)
        /\ i > last => D[InodeFile(i)] = Absent /\ D[ContentFile(i)] = Absent

KindsOfInodes == {kinds \in [Inos -> Kinds] : kinds[ROOT] = "Directory"}

DiskOK(D, kinds) ==
    /\ DOMAIN D = Files /\ D = [f \in Files |-> D[f]]
    /\ D[Superblock] \in {Absent, Torn} \cup Inos
    /\ Kept(D, Limit(D), kinds)

LEMMA LimitIsIno == ASSUME NEW D, NEW kinds, DiskOK(D, kinds) PROVE Limit(D) \in Inos
  BY BoundsAssumption DEF DiskOK, Limit, Inos, ROOT

LEMMA EntriesGrow ==
    ASSUME NEW k \in Nat, NEW l \in Nat, k <= l, NEW i
    PROVE  EntriesTo(k) \subseteq EntriesTo(l) /\ EntriesOf(i, k) \subseteq EntriesOf(i, l)
<1>1. (1 .. k) \X Kinds \subseteq (1 .. l) \X Kinds
  OBVIOUS
<1>2. EntriesTo(k) \subseteq EntriesTo(l)
  BY <1>1 DEF EntriesTo
<1> QED
  BY <1>2 DEF EntriesOf

(* What a single write may be: one to an inode that was given out, fit for *)
(* its kind and keeping its handles, or the removal of one that has none.  *)
AllContents == {Absent, Data} \cup InodeRecords \cup EntriesTo(MaxIno) \cup Nat

Stores(last, kinds, after) ==
    {write \in Files \X AllContents : \E i \in Inos :
        \/ /\ write[1] = InodeFile(i)
           /\ \/ write[2] = Absent /\ after[i] = 0
              \/ /\ i <= last /\ write[2] \in RecordsOf(kinds[i])
                 /\ write[2].open_file_handles >= after[i]
        \/ /\ write[1] = ContentFile(i)
           /\ write[2] = Absent \/ (i <= last /\ write[2] \in ContentsOf(i, kinds[i], last))}

LEMMA StoresInode ==
    ASSUME NEW last, NEW kinds, NEW after, NEW i \in Inos, i <= last,
           NEW r \in InodeRecords, r.kind = kinds[i], r.open_file_handles >= after[i]
    PROVE  <<InodeFile(i), r>> \in Stores(last, kinds, after)
  BY FilesDistinct DEF Stores, AllContents, RecordsOf

LEMMA StoresAbsent ==
    ASSUME NEW last, NEW kinds, NEW after, NEW i \in Inos
    PROVE  /\ after[i] = 0 => <<InodeFile(i), Absent>> \in Stores(last, kinds, after)
           /\ <<ContentFile(i), Absent>> \in Stores(last, kinds, after)
  BY FilesDistinct DEF Stores, AllContents

LEMMA StoresData ==
    ASSUME NEW last, NEW kinds, NEW after, NEW i \in Inos, i <= last, kinds[i] = "File"
    PROVE  <<ContentFile(i), Data>> \in Stores(last, kinds, after)
  BY FilesDistinct DEF Stores, AllContents, ContentsOf

LEMMA StoresEntries ==
    ASSUME NEW last \in Inos, NEW kinds, NEW after, NEW i \in Inos, i <= last,
           kinds[i] = "Directory", NEW e \in EntriesOf(i, last)
    PROVE  <<ContentFile(i), e>> \in Stores(last, kinds, after)
<1>1. last \in Nat /\ MaxIno \in Nat /\ last <= MaxIno
  BY BoundsAssumption DEF Inos, ROOT
<1>2. e \in AllContents
  BY <1>1, EntriesGrow DEF EntriesOf, AllContents
<1> QED
  BY <1>2, FilesDistinct DEF Stores, ContentsOf

LEMMA StoresGrow ==
    ASSUME NEW k \in Nat, NEW l \in Nat, k <= l, NEW kinds, NEW after
    PROVE  Stores(k, kinds, after) \subseteq Stores(l, kinds, after)
<1>1. \A i \in Inos : /\ i <= k => i <= l
                      /\ ContentsOf(i, kinds[i], k) \subseteq ContentsOf(i, kinds[i], l)
  BY BoundsAssumption, EntriesGrow DEF ContentsOf, Inos, ROOT
<1> QED
  BY <1>1 DEF Stores

---------------------------------------------------------------------------
(* The writes of a request: those that use the next inode number come      *)
(* after the superblock that gives it out.                                 *)

GivesOut(w, k) == \E m \in 1 .. k : w[m] = <<Superblock, NextInode>>

Ordered(w, kinds, after) ==
    /\ w \in Seq(Files \X AllContents)
    /\ \A j \in 1 .. Len(w) :
          \/ w[j] \in Stores(Limit(disk), kinds, after)
          \/ /\ disk[Superblock] # Torn /\ NextInode \in Inos
             /\ \/ w[j] = <<Superblock, NextInode>>
                \/ w[j] \in Stores(NextInode, kinds, after) /\ GivesOut(w, j - 1)

(* A store is to an inode's file, and never leaves it truncated.           *)
LEMMA StoresWhat ==
    ASSUME NEW last, NEW kinds, NEW after, NEW write \in Stores(last, kinds, after)
    PROVE  /\ write \in Files \X AllContents /\ write[1] # Superblock
           /\ \A i \in Inos : write[1] = InodeFile(i) =>
                 \/ write[2] = Absent /\ after[i] = 0
                 \/ /\ i <= last /\ write[2] \in RecordsOf(kinds[i])
                    /\ write[2].open_file_handles >= after[i]
           /\ \A i \in Inos : write[1] = ContentFile(i) =>
                 write[2] = Absent \/ (i <= last /\ write[2] \in ContentsOf(i, kinds[i], last))
  BY FilesDistinct DEF Stores

LEMMA ContentsGrow ==
    ASSUME NEW k \in Inos, NEW l \in Inos, k <= l, NEW i, NEW kind
    PROVE  ContentsOf(i, kind, k) \subseteq ContentsOf(i, kind, l)
  BY EntriesGrow, BoundsAssumption DEF ContentsOf, Inos, ROOT

LEMMA KeptGrows ==
    ASSUME NEW D, NEW kinds, NEW k \in Inos, NEW l \in Inos, k <= l, Kept(D, k, kinds)
    PROVE  Kept(D, l, kinds)
<1> SUFFICES ASSUME NEW i \in Inos
             PROVE  /\ D[InodeFile(i)] \in {Absent, Torn} \cup RecordsOf(kinds[i])
                    /\ D[ContentFile(i)] \in {Absent, Torn} \cup ContentsOf(i, kinds[i], l)
                    /\ i > l => D[InodeFile(i)] = Absent /\ D[ContentFile(i)] = Absent
  BY DEF Kept
<1>1. i > l => i > k
  BY BoundsAssumption DEF Inos, ROOT
<1> QED
  BY <1>1, ContentsGrow DEF Kept

(* Stores keep the files of every inode fit for it.                        *)
LEMMA KeptWritten ==
    ASSUME NEW kinds, NEW after, NEW w, NEW k \in Nat, NEW last \in Inos,
           Kept(disk, last, kinds),
           \A j \in 1 .. k : w[j] \in Stores(last, kinds, after) \/ w[j][1] = Superblock
    PROVE  Kept(Written(w, k), last, kinds)
<1> SUFFICES ASSUME NEW i \in Inos
             PROVE  /\ Written(w, k)[InodeFile(i)] \in {Absent, Torn} \cup RecordsOf(kinds[i])
                    /\ Written(w, k)[ContentFile(i)] \in {Absent, Torn} \cup ContentsOf(i, kinds[i], last)
                    /\ i > last => /\ Written(w, k)[InodeFile(i)] = Absent
                                   /\ Written(w, k)[ContentFile(i)] = Absent
  BY DEF Kept
<1> DEFINE D == Written(w, k)
<1>1. /\ disk[InodeFile(i)] \in {Absent, Torn} \cup RecordsOf(kinds[i])
      /\ disk[ContentFile(i)] \in {Absent, Torn} \cup ContentsOf(i, kinds[i], last)
      /\ i > last => disk[InodeFile(i)] = Absent /\ disk[ContentFile(i)] = Absent
  BY DEF Kept
<1>2. i > last <=> ~(i <= last)
  BY BoundsAssumption DEF Inos, ROOT
<1>3. InodeFile(i) \in Files /\ ContentFile(i) \in Files
      /\ InodeFile(i) # Superblock /\ ContentFile(i) # Superblock
  BY FilesDistinct
<1>4. \/ D[InodeFile(i)] = disk[InodeFile(i)]
      \/ D[InodeFile(i)] = Absent \/ (i <= last /\ D[InodeFile(i)] \in RecordsOf(kinds[i]))
  <2>1. CASE D[InodeFile(i)] = disk[InodeFile(i)]
    BY <2>1
  <2>2. CASE \E j \in 1 .. k : w[j][1] = InodeFile(i) /\ D[InodeFile(i)] = w[j][2]
    <3>1. PICK j \in 1 .. k : w[j][1] = InodeFile(i) /\ D[InodeFile(i)] = w[j][2]
      BY <2>2
    <3>2. w[j] \in Stores(last, kinds, after)
      BY <1>3, <3>1
    <3> QED
      BY <3>1, <3>2, StoresWhat
  <2> QED
    BY <1>3, <2>1, <2>2, WrittenFrom
<1>5. \/ D[ContentFile(i)] = disk[ContentFile(i)]
      \/ D[ContentFile(i)] = Absent \/ (i <= last /\ D[ContentFile(i)] \in ContentsOf(i, kinds[i], last))
  <2>1. CASE D[ContentFile(i)] = disk[ContentFile(i)]
    BY <2>1
  <2>2. CASE \E j \in 1 .. k : w[j][1] = ContentFile(i) /\ D[ContentFile(i)] = w[j][2]
    <3>1. PICK j \in 1 .. k : w[j][1] = ContentFile(i) /\ D[ContentFile(i)] = w[j][2]
      BY <2>2
    <3>2. w[j] \in Stores(last, kinds, after)
      BY <1>3, <3>1
    <3> QED
      BY <3>1, <3>2, StoresWhat
  <2> QED
    BY <1>3, <2>1, <2>2, WrittenFrom
<1> HIDE DEF D
<1>6. /\ D[InodeFile(i)] \in {Absent, Torn} \cup RecordsOf(kinds[i])
      /\ D[ContentFile(i)] \in {Absent, Torn} \cup ContentsOf(i, kinds[i], last)
      /\ i > last => D[InodeFile(i)] = Absent /\ D[ContentFile(i)] = Absent
  BY <1>1, <1>2, <1>4, <1>5
<1> QED
  BY <1>6 DEF D

LEMMA LimitIsLast ==
    ASSUME disk[Superblock] # Torn
    PROVE  Limit(disk) = LastInode /\ NextInode = Limit(disk) + 1
  BY DEF Limit, LastInode, NextInode

(* After any number of writes the disk is in order, and the next write is  *)
(* a store that its superblock allows, or the superblock itself.           *)
LEMMA WrittenDisk ==
    ASSUME NEW kinds \in KindsOfInodes, NEW after, NEW w, DiskOK(disk, kinds),
           Ordered(w, kinds, after), NEW k \in 0 .. Len(w)
    PROVE  /\ DiskOK(Written(w, k), kinds)
           /\ k < Len(w) => \/ w[k + 1] \in Stores(Limit(Written(w, k)), kinds, after)
                            \/ w[k + 1][1] = Superblock
<1> DEFINE D == Written(w, k)
           L == Limit(disk)
<1>1. L \in Inos /\ Kept(disk, L, kinds)
  BY LimitIsIno DEF DiskOK
<1>2. DOMAIN D = Files /\ D = [f \in Files |-> D[f]]
  BY WrittenFiles
<1>3. k \in Nat /\ Len(w) \in Nat /\ \A j \in 1 .. k : j \in 1 .. Len(w)
  BY DEF Ordered
<1>4. Superblock \in Files
  BY FilesDistinct
<1>5. CASE ~GivesOut(w, k)
  <2>1. \A j \in 1 .. k : w[j] \in Stores(L, kinds, after)
    <3> SUFFICES ASSUME NEW j \in 1 .. k PROVE w[j] \in Stores(L, kinds, after)
      OBVIOUS
    <3>1. ~GivesOut(w, j - 1) /\ w[j] # <<Superblock, NextInode>>
      BY <1>3, <1>5 DEF GivesOut
    <3> QED
      BY <1>3, <3>1 DEF Ordered
  <2>2. D[Superblock] = disk[Superblock]
    BY <1>3, <1>4, <2>1, StoresWhat, WrittenFrom
  <2>3. Limit(D) = L
    BY <2>2 DEF Limit
  <2>4. Kept(D, L, kinds)
    BY <1>1, <1>3, <2>1, KeptWritten
  <2>5. k < Len(w) => w[k + 1] \in Stores(L, kinds, after) \/ w[k + 1][1] = Superblock
    <3> SUFFICES ASSUME k < Len(w)
                 PROVE  w[k + 1] \in Stores(L, kinds, after) \/ w[k + 1][1] = Superblock
      OBVIOUS
    <3>1. k + 1 \in 1 .. Len(w) /\ (k + 1) - 1 = k
      BY <1>3
    <3> QED
      BY <1>5, <3>1 DEF Ordered
  <2> HIDE DEF D, L
  <2>6. DiskOK(D, kinds) /\ (k < Len(w) => \/ w[k + 1] \in Stores(Limit(D), kinds, after)
                                           \/ w[k + 1][1] = Superblock)
    BY <1>2, <2>2, <2>3, <2>4, <2>5 DEF DiskOK
  <2> QED
    BY <2>6 DEF D
<1>6. CASE GivesOut(w, k)
  <2>1. PICK m \in 1 .. k : w[m] = <<Superblock, NextInode>>
    BY <1>6 DEF GivesOut
  <2>2. disk[Superblock] # Torn /\ NextInode \in Inos
    BY <1>3, <2>1, StoresWhat DEF Ordered
  <2>3. NextInode = L + 1 /\ L <= NextInode /\ L \in Nat /\ NextInode \in Nat
    BY <1>1, <2>2, LimitIsLast, BoundsAssumption DEF Inos, ROOT
  <2>4. \A j \in 1 .. Len(w) : \/ w[j] \in Stores(NextInode, kinds, after)
                               \/ w[j] = <<Superblock, NextInode>>
    BY <2>3, StoresGrow DEF Ordered
  <2>5. D[Superblock] = NextInode
    BY <1>3, <1>4, <2>1, <2>4, StoresWhat, WrittenFrom
  <2>6. Limit(D) = NextInode
    BY <2>2, <2>3, <2>5, ContentsAssumption DEF Limit
  <2>7. Kept(disk, NextInode, kinds)
    BY <1>1, <2>2, <2>3, KeptGrows
  <2>8. Kept(D, NextInode, kinds)
    BY <1>3, <2>2, <2>4, <2>7, KeptWritten
  <2>9. k < Len(w) => w[k + 1] \in Stores(NextInode, kinds, after) \/ w[k + 1][1] = Superblock
    BY <1>3, <2>4
  <2> HIDE DEF D, L
  <2>10. DiskOK(D, kinds) /\ (k < Len(w) => \/ w[k + 1] \in Stores(Limit(D), kinds, after)
                                            \/ w[k + 1][1] = Superblock)
    BY <1>2, <2>2, <2>5, <2>6, <2>8, <2>9 DEF DiskOK
  <2> QED
    BY <2>10 DEF D
<1> QED
  BY <1>5, <1>6

(* A file truncated under the next write does not disturb the others.      *)
LEMMA TornDisk ==
    ASSUME NEW D, NEW kinds, NEW after, NEW write, DiskOK(D, kinds), Tears(write),
           write \in Files \X AllContents,
           write \in Stores(Limit(D), kinds, after) \/ write[1] = Superblock
    PROVE  DiskOK([D EXCEPT ![write[1]] = Torn], kinds)
<1> DEFINE E == [D EXCEPT ![write[1]] = Torn]
           L == Limit(D)
<1>1. L \in Inos /\ Kept(D, L, kinds) /\ DOMAIN D = Files /\ D = [f \in Files |-> D[f]]
  BY LimitIsIno DEF DiskOK
<1>2. /\ DOMAIN E = Files /\ E = [f \in Files |-> E[f]]
      /\ E[write[1]] = Torn /\ \A f \in Files : f # write[1] => E[f] = D[f]
  BY <1>1
<1>3. CASE write[1] = Superblock
  <2>1. Limit(E) = MaxIno /\ MaxIno \in Inos /\ L <= MaxIno
    <3>1. E[Superblock] = Torn
      BY <1>2, <1>3
    <3> HIDE DEF E, L
    <3>2. Limit(E) = MaxIno
      BY <3>1, ContentsAssumption DEF Limit
    <3> QED
      BY <1>1, <3>2, BoundsAssumption DEF Inos, ROOT
  <2>2. Kept(D, MaxIno, kinds)
    BY <1>1, <2>1, KeptGrows
  <2> HIDE DEF E, L
  <2>3. Kept(E, MaxIno, kinds)
    BY <1>2, <1>3, <2>2, FilesDistinct DEF Kept
  <2> QED
    BY <1>2, <1>3, <2>1, <2>3 DEF DiskOK, E
<1>4. CASE write[1] # Superblock
  <2>1. E[Superblock] = D[Superblock] /\ Limit(E) = L
    BY <1>2, <1>4, FilesDistinct DEF Limit
  <2>2. write \in Stores(L, kinds, after) /\ write[2] # Absent
    BY <1>4 DEF Tears
  <2> HIDE DEF E, L
  <2>3. ASSUME NEW i \in Inos
        PROVE  /\ E[InodeFile(i)] \in {Absent, Torn} \cup RecordsOf(kinds[i])
               /\ E[ContentFile(i)] \in {Absent, Torn} \cup ContentsOf(i, kinds[i], L)
               /\ i > L => E[InodeFile(i)] = Absent /\ E[ContentFile(i)] = Absent
    <3>1. i > L <=> ~(i <= L)
      BY <1>1, BoundsAssumption DEF Inos, ROOT
    <3>2. InodeFile(i) \in Files /\ ContentFile(i) \in Files
      BY FilesDistinct
    <3>3. /\ D[InodeFile(i)] \in {Absent, Torn} \cup RecordsOf(kinds[i])
          /\ D[ContentFile(i)] \in {Absent, Torn} \cup ContentsOf(i, kinds[i], L)
          /\ i > L => D[InodeFile(i)] = Absent /\ D[ContentFile(i)] = Absent
      BY <1>1 DEF Kept
    <3>4. E[InodeFile(i)] = D[InodeFile(i)] \/ (E[InodeFile(i)] = Torn /\ i <= L)
      BY <1>2, <2>2, <3>2, StoresWhat
    <3>5. E[ContentFile(i)] = D[ContentFile(i)] \/ (E[ContentFile(i)] = Torn /\ i <= L)
      BY <1>2, <2>2, <3>2, StoresWhat
    <3> QED
      BY <3>1, <3>3, <3>4, <3>5
  <2>4. Kept(E, L, kinds)
    BY <2>3 DEF Kept
  <2>5. E[Superblock] \in {Absent, Torn} \cup Inos
    BY <2>1 DEF DiskOK
  <2>6. DiskOK(E, kinds)
    BY <1>2, <2>1, <2>4, <2>5 DEF DiskOK
  <2> QED
    BY <2>6 DEF E
<1> QED
  BY <1>3, <1>4

(* Whenever a request is interrupted, the disk is in order.                *)
LEMMA InterruptedDisk ==
    ASSUME NEW kinds \in KindsOfInodes, NEW after, NEW w, DiskOK(disk, kinds),
           Ordered(w, kinds, after), NEW D \in Interrupted(w)
    PROVE  DiskOK(D, kinds)
<1>1. CASE \E k \in 0 .. Len(w) : D = Written(w, k)
  BY <1>1, WrittenDisk
<1>2. ASSUME NEW k \in 1 .. Len(w), Tears(w[k]),
             D = [Written(w, k - 1) EXCEPT ![w[k][1]] = Torn]
      PROVE  DiskOK(D, kinds)
  <2> DEFINE C == Written(w, k - 1)
  <2>1. Len(w) \in Nat /\ w[k] \in Files \X AllContents
    BY DEF Ordered
  <2>2. k - 1 \in 0 .. Len(w) /\ k - 1 < Len(w) /\ (k - 1) + 1 = k
    BY <2>1
  <2>3. DiskOK(C, kinds) /\ (w[k] \in Stores(Limit(C), kinds, after) \/ w[k][1] = Superblock)
    BY <2>2, WrittenDisk
  <2> HIDE DEF C
  <2>4. DiskOK([C EXCEPT ![w[k][1]] = Torn], kinds)
    BY <1>2, <2>1, <2>3, TornDisk
  <2> QED
    BY <1>2, <2>4 DEF C
<1> QED
  BY <1>1, <1>2 DEF Interrupted

---------------------------------------------------------------------------
(* A request that runs to its end.                                         *)

(* No file is truncated, and an inode has both its files or neither.       *)
Whole(D) ==
    /\ \A f \in Files : D[f] # Torn
    /\ \A i \in Inos : D[InodeFile(i)] = Absent <=> D[ContentFile(i)] = Absent

(* The writes remove both files of an inode at last, or neither, and write *)
(* to an inode that exists or create both its files.                       *)
FilesOf(i) == {InodeFile(i), ContentFile(i)}
Removes(w, i) ==
    \A f \in FilesOf(i) : \E j \in 1 .. Len(w) :
        w[j] = <<f, Absent>> /\ \A h \in j + 1 .. Len(w) : w[h][1] # f
Retains(w, i) ==
    /\ \A j \in 1 .. Len(w) : w[j][1] \in FilesOf(i) => w[j][2] # Absent
    /\ \/ inode(i) # Absent
       \/ \A j \in 1 .. Len(w) : w[j][1] \notin FilesOf(i)
       \/ \A f \in FilesOf(i) : \E j \in 1 .. Len(w) : w[j][1] = f
Balanced(w) == \A i \in Inos : Removes(w, i) \/ Retains(w, i)

LEMMA WholeWritten ==
    ASSUME NEW w \in Seq(Files \X AllContents), Whole(disk), Balanced(w)
    PROVE  Whole(Written(w, Len(w)))
<1> DEFINE k == Len(w)
           D == Written(w, k)
<1>1. k \in Nat /\ \A j \in 1 .. k : w[j] \in Files \X AllContents
  OBVIOUS
<1>2. Torn \notin AllContents
  BY ContentsAssumption DEF AllContents
<1>3. ASSUME NEW f \in Files PROVE D[f] # Torn
  <2>1. CASE D[f] = disk[f]
    BY <2>1 DEF Whole
  <2>2. CASE \E j \in 1 .. k : w[j][1] = f /\ D[f] = w[j][2]
    BY <1>1, <1>2, <2>2
  <2> QED
    BY <1>1, <2>1, <2>2, WrittenFrom
<1>4. ASSUME NEW i \in Inos PROVE D[InodeFile(i)] = Absent <=> D[ContentFile(i)] = Absent
  <2>1. InodeFile(i) \in Files /\ ContentFile(i) \in Files
    BY FilesDistinct
  <2>2. CASE Removes(w, i)
    <3>1. ASSUME NEW f \in FilesOf(i) PROVE D[f] = Absent
      <4>1. PICK j \in 1 .. k : w[j] = <<f, Absent>> /\ \A h \in j + 1 .. k : w[h][1] # f
        BY <2>2, <3>1 DEF Removes
      <4>2. f \in Files /\ w[j][1] = f /\ w[j][2] = Absent
        BY <2>1, <3>1, <4>1 DEF FilesOf
      <4>3. Written(w, k)[f] = w[j][2]
        BY <1>1, <4>1, <4>2, WrittenLast
      <4> QED
        BY <4>2, <4>3
    <3> QED
      BY <3>1 DEF FilesOf
  <2>3. CASE Retains(w, i)
    <3>1. ASSUME NEW f \in FilesOf(i)
          PROVE  \/ D[f] = disk[f] /\ \A j \in 1 .. k : w[j][1] # f
                 \/ D[f] # Absent /\ \E j \in 1 .. k : w[j][1] = f
      <4>1. f \in Files
        BY <2>1, <3>1 DEF FilesOf
      <4>2. CASE D[f] = disk[f] /\ \A j \in 1 .. k : w[j][1] # f
        BY <4>2
      <4>3. CASE \E j \in 1 .. k : w[j][1] = f /\ D[f] = w[j][2]
        BY <2>3, <3>1, <4>3 DEF Retains
      <4> QED
        BY <1>1, <4>1, <4>2, <4>3, WrittenFrom
    <3>2. /\ \/ D[InodeFile(i)] = disk[InodeFile(i)] /\ \A j \in 1 .. k : w[j][1] # InodeFile(i)
             \/ D[InodeFile(i)] # Absent /\ \E j \in 1 .. k : w[j][1] = InodeFile(i)
          /\ \/ D[ContentFile(i)] = disk[ContentFile(i)] /\ \A j \in 1 .. k : w[j][1] # ContentFile(i)
             \/ D[ContentFile(i)] # Absent /\ \E j \in 1 .. k : w[j][1] = ContentFile(i)
      BY <3>1 DEF FilesOf
    <3>3. disk[InodeFile(i)] = Absent <=> disk[ContentFile(i)] = Absent
      BY DEF Whole
    <3>4. \/ disk[InodeFile(i)] # Absent
          \/ \A j \in 1 .. k : w[j][1] # InodeFile(i) /\ w[j][1] # ContentFile(i)
          \/ (\E j \in 1 .. k : w[j][1] = InodeFile(i)) /\ (\E j \in 1 .. k : w[j][1] = ContentFile(i))
      BY <2>3 DEF Retains, FilesOf, inode
    <3> HIDE DEF D, k
    <3> QED
      BY <3>2, <3>3, <3>4
  <2> QED
    BY <2>2, <2>3 DEF Balanced
<1> QED
  BY <1>3, <1>4 DEF Whole

(* What holds between requests.                                            *)
Inv ==
    /\ \E kinds \in KindsOfInodes : DiskOK(disk, kinds)
    /\ handles \in [Inos -> Nat]
    /\ OpenFilesPinned
    /\ clean => Whole(disk)
    /\ NoPanic

(* What an error may have done to the names.                               *)
NamesKept ==
    /\ reply' = "refused" => Namespace' = Namespace
    /\ reply' = "EIO" => Namespace' = Namespace \/ LosesOneName

(* Writes that take at most one name, and the content of what it named if  *)
(* there were no names in it.                                              *)
Unlists(w) ==
    \E e \in Inos, m \in Names, h \in Inos :
        \A j \in 1 .. Len(w), i \in Inos : w[j][1] = ContentFile(i) =>
            \/ /\ i = e /\ w[j][2] = Remove(content(e), m)
               /\ IsDirectoryContent(content(e)) /\ IsDirectoryContent(Remove(content(e), m))
            \/ i = h /\ w[j][2] = Absent /\ \A n \in Names : Bound(h, n) = {}

(* What a handler's answer and writes have to be for that.                 *)
Fits(outcome, after) ==
    /\ outcome.reply \in Errors \cup {"ok", "panic", "EIO"}
    /\ clean => outcome.reply # "panic"
    /\ \E kinds \in KindsOfInodes : DiskOK(disk, kinds) /\ Ordered(outcome.writes, kinds, after)
    /\ outcome.reply # "panic" => Balanced(outcome.writes)
    /\ outcome.reply = "ok" => \A i \in Inos :
          after[i] <= handles[i] \/ \E j \in 1 .. Len(outcome.writes) : outcome.writes[j][1] = InodeFile(i)
    /\ outcome.reply = "EIO" => after = handles /\ Unlists(outcome.writes)
    /\ outcome.reply \in Errors =>
          /\ outcome.writes = <<>> \/ after = handles
          /\ \A j \in 1 .. Len(outcome.writes), i \in Inos : outcome.writes[j][1] # ContentFile(i)

(* Stores keep the handles they were asked to.                             *)
LEMMA PinsWritten ==
    ASSUME NEW kinds, NEW after \in [Inos -> Nat], NEW w, DiskOK(disk, kinds),
           Ordered(w, kinds, after), handles \in [Inos -> Nat], OpenFilesPinned, NEW i \in Inos, after[i] > 0,
           after[i] <= handles[i] \/ \E j \in 1 .. Len(w) : w[j][1] = InodeFile(i)
    PROVE  LET v == Written(w, Len(w))[InodeFile(i)]
           IN  v = Torn \/ (v # Absent /\ v.open_file_handles >= after[i])
<1> DEFINE v == Written(w, Len(w))[InodeFile(i)]
<1>1. Len(w) \in Nat /\ InodeFile(i) \in Files /\ InodeFile(i) # Superblock
  BY FilesDistinct DEF Ordered
<1>2. CASE v = disk[InodeFile(i)] /\ \A j \in 1 .. Len(w) : w[j][1] # InodeFile(i)
  <2>1. after[i] \in Nat /\ handles[i] \in Nat /\ after[i] <= handles[i] /\ handles[i] > 0
    BY <1>2
  <2>2. disk[InodeFile(i)] = Torn \/ (disk[InodeFile(i)] # Absent /\ disk[InodeFile(i)].open_file_handles >= handles[i])
    BY <2>1 DEF OpenFilesPinned, inode
  <2>3. disk[InodeFile(i)] \in {Absent, Torn} \/ disk[InodeFile(i)].open_file_handles >= after[i]
    <3>1. disk[InodeFile(i)] \in {Absent, Torn} \cup RecordsOf(kinds[i])
      BY DEF DiskOK, Kept
    <3>2. disk[InodeFile(i)] \in InodeRecords => disk[InodeFile(i)].open_file_handles \in Nat
      BY DEF InodeRecords
    <3> QED
      BY <2>1, <2>2, <3>1, <3>2 DEF RecordsOf
  <2> QED
    BY <1>2, <2>2, <2>3
<1>3. CASE \E j \in 1 .. Len(w) : w[j][1] = InodeFile(i) /\ v = w[j][2]
  <2>1. PICK j \in 1 .. Len(w) : w[j][1] = InodeFile(i) /\ v = w[j][2]
    BY <1>3
  <2>2. \E last : w[j] \in Stores(last, kinds, after)
    BY <1>1, <2>1 DEF Ordered
  <2>3. ~(after[i] = 0)
    OBVIOUS
  <2>4. w[j][2] \in RecordsOf(kinds[i]) /\ w[j][2].open_file_handles >= after[i]
    BY <2>1, <2>2, <2>3, StoresWhat
  <2>5. w[j][2] # Absent
    BY <2>4, ContentsAssumption DEF RecordsOf
  <2> QED
    BY <2>1, <2>4, <2>5
<1> QED
  BY <1>1, <1>2, <1>3, WrittenFrom

(* Names are kept in the contents.                                         *)
LEMMA NamespaceOfContents ==
    ASSUME \A i \in Inos : disk'[ContentFile(i)] = disk[ContentFile(i)]
    PROVE  Namespace' = Namespace
<1>1. ASSUME NEW i \in Inos, NEW n \in Names PROVE Bound(i, n)' = Bound(i, n)
  BY DEF Bound, content
<1>2. Slots' = Slots
  BY <1>1 DEF Slots
<1>3. \A s \in Slots : Bound(s[1], s[2])' = Bound(s[1], s[2])
  BY <1>1 DEF Slots
<1> QED
  BY <1>2, <1>3 DEF Namespace

(* One name fewer.                                                         *)
LEMMA NamespaceLoses ==
    ASSUME NEW e \in Inos, NEW m \in Names,
           \A i \in Inos, n \in Names : i # e \/ n # m => Bound(i, n)' = Bound(i, n),
           Bound(e, m)' \in {{}, Bound(e, m)}
    PROVE  Namespace' = Namespace \/ LosesOneName
<1>1. CASE Bound(e, m)' = Bound(e, m)
  <2>1. \A i \in Inos, n \in Names : Bound(i, n)' = Bound(i, n)
    BY <1>1
  <2>2. Slots' = Slots
    BY <2>1 DEF Slots
  <2>3. \A s \in Slots : Bound(s[1], s[2])' = Bound(s[1], s[2])
    BY <2>1 DEF Slots
  <2> QED
    BY <2>2, <2>3 DEF Namespace
<1>2. CASE Bound(e, m)' # Bound(e, m)
  <2> DEFINE t == <<e, m>>
  <2>1. t \in Inos \X Names /\ Bound(t[1], t[2])' = {} /\ Bound(t[1], t[2]) # {}
    BY <1>2
  <2>2. \A s \in Inos \X Names : s # t => Bound(s[1], s[2])' = Bound(s[1], s[2])
    OBVIOUS
  <2> HIDE DEF t
  <2>3. t \in Slots /\ Slots' = Slots \ {t}
    BY <2>1, <2>2 DEF Slots
  <2>4. \A s \in Slots \ {t} : Bound(s[1], s[2])' = Bound(s[1], s[2])
    BY <2>2 DEF Slots
  <2>5. Namespace' = [s \in Slots \ {t} |-> Namespace[s]]
    BY <2>3, <2>4 DEF Namespace
  <2> QED
    BY <2>3, <2>5 DEF LosesOneName
<1> QED
  BY <1>1, <1>2

LEMMA NamespaceUnlisted ==
    ASSUME NEW w, Len(w) \in Nat, Unlists(w), disk' = Written(w, Len(w))
    PROVE  Namespace' = Namespace \/ LosesOneName
<1>1. PICK e \in Inos, m \in Names, h \in Inos :
        \A j \in 1 .. Len(w), i \in Inos : w[j][1] = ContentFile(i) =>
            \/ /\ i = e /\ w[j][2] = Remove(content(e), m)
               /\ IsDirectoryContent(content(e)) /\ IsDirectoryContent(Remove(content(e), m))
            \/ i = h /\ w[j][2] = Absent /\ \A n \in Names : Bound(h, n) = {}
  BY DEF Unlists
<1>2. ASSUME NEW i \in Inos, NEW n \in Names
      PROVE  \/ Bound(i, n)' = Bound(i, n)
             \/ i = e /\ n = m /\ Bound(i, n)' = {}
  <2>1. CASE content(i)' = content(i)
    BY <2>1 DEF Bound
  <2>2. CASE \E j \in 1 .. Len(w) : w[j][1] = ContentFile(i) /\ content(i)' = w[j][2]
    <3>1. PICK j \in 1 .. Len(w) : w[j][1] = ContentFile(i) /\ content(i)' = w[j][2]
      BY <2>2
    <3>2. CASE /\ i = e /\ content(i)' = Remove(content(e), m)
               /\ IsDirectoryContent(content(e)) /\ IsDirectoryContent(Remove(content(e), m))
      <4>1. IsDirectoryContent(content(i)) /\ IsDirectoryContent(content(i)')
        BY <3>2
      <4>2. DOMAIN content(i)' = DOMAIN content(i) \ {m} /\ \A x \in DOMAIN content(i)' : content(i)'[x] = content(i)[x]
        BY <3>2 DEF Remove
      <4>3. Bound(i, n)' = IF n \in DOMAIN content(i)' THEN {content(i)'[n][1]} ELSE {}
        BY <4>1 DEF Bound
      <4>4. Bound(i, n) = IF n \in DOMAIN content(i) THEN {content(i)[n][1]} ELSE {}
        BY <4>1 DEF Bound
      <4> QED
        BY <3>2, <4>2, <4>3, <4>4
    <3>3. CASE i = h /\ content(i)' = Absent /\ \A x \in Names : Bound(h, x) = {}
      <4>1. Bound(i, n)' = {}
        BY <3>3 DEF Bound, IsDirectoryContent, Exists
      <4> QED
        BY <3>3, <4>1
    <3> QED
      BY <1>1, <3>1, <3>2, <3>3
  <2> QED
    BY <2>1, <2>2, WrittenFrom, FilesDistinct DEF content
<1> QED
  BY <1>2, NamespaceLoses

LEMMA NoHandlesPinned ==
    ASSUME handles' = NoHandles
    PROVE  OpenFilesPinned' /\ handles' \in [Inos -> Nat]
  BY DEF NoHandles, OpenFilesPinned

(* A kill leaves the disk in order and no handles.                         *)
LEMMA KilledKeeps ==
    ASSUME NEW kinds \in KindsOfInodes, NEW after, NEW w, DiskOK(disk, kinds),
           Ordered(w, kinds, after), disk' \in Interrupted(w), Killed
    PROVE  Inv' /\ reply' \notin {"refused", "EIO"}
<1>1. DiskOK(disk', kinds)
  BY InterruptedDisk
<1>2. OpenFilesPinned' /\ handles' \in [Inos -> Nat]
  BY NoHandlesPinned DEF Killed
<1>3. clean' = FALSE /\ reply' = "killed"
  BY DEF Killed
<1> QED
  BY <1>1, <1>2, <1>3 DEF Inv, NoPanic

LEMMA CompletedKeeps ==
    ASSUME Inv, NEW outcome, NEW after \in [Inos -> Nat], Fits(outcome, after),
           disk' = Written(outcome.writes, Len(outcome.writes)), reply' = Answer(outcome),
           handles' = CASE outcome.reply = "ok" -> after
                        [] outcome.reply = "panic" -> NoHandles
                        [] OTHER -> handles,
           clean' = clean
    PROVE  Inv' /\ NamesKept
<1> DEFINE w == outcome.writes
<1>1. PICK kinds \in KindsOfInodes : DiskOK(disk, kinds) /\ Ordered(w, kinds, after)
  BY DEF Fits
<1>2. w \in Seq(Files \X AllContents) /\ Len(w) \in Nat
  BY <1>1 DEF Ordered
<1>3. /\ disk' = Written(w, Len(w)) /\ reply' = Answer(outcome)
      /\ handles' = CASE outcome.reply = "ok" -> after
                      [] outcome.reply = "panic" -> NoHandles
                      [] OTHER -> handles
      /\ clean' = clean
  OBVIOUS
<1> QED
  <2>1. DiskOK(disk', kinds)
    <3>1. Len(w) \in 0 .. Len(w)
      BY <1>2
    <3> QED
      BY <1>1, <1>3, <3>1, WrittenDisk
  <2>2. clean' => Whole(disk')
    <3> SUFFICES ASSUME clean PROVE Whole(disk')
      BY <1>3
    <3>1. Whole(disk) /\ Balanced(w)
      BY DEF Inv, Fits
    <3>2. Whole(Written(w, Len(w)))
      BY <1>2, <3>1, WholeWritten
    <3> QED
      BY <1>3, <3>2
  <2>3. NoPanic'
    <3>1. clean => outcome.reply # "panic"
      BY DEF Fits
    <3> QED
      BY <1>3, <3>1 DEF NoPanic, Answer
  <2>4. CASE outcome.reply = "ok"
    <3>1. handles' = after /\ reply' = "ok"
      BY <1>3, <2>4 DEF Answer, Errors
    <3>2. OpenFilesPinned'
      <4> SUFFICES ASSUME NEW i \in Inos, after[i] > 0
                   PROVE  disk'[InodeFile(i)] = Torn \/ (disk'[InodeFile(i)] # Absent /\ disk'[InodeFile(i)].open_file_handles >= after[i])
        BY <3>1 DEF OpenFilesPinned, inode
      <4>1. after[i] <= handles[i] \/ \E j \in 1 .. Len(w) : w[j][1] = InodeFile(i)
        BY <2>4 DEF Fits
      <4>2. handles \in [Inos -> Nat] /\ OpenFilesPinned
        BY DEF Inv
      <4> HIDE DEF w
      <4>3. LET v == Written(w, Len(w))[InodeFile(i)]
            IN  v = Torn \/ (v # Absent /\ v.open_file_handles >= after[i])
        BY <1>1, <4>1, <4>2, PinsWritten
      <4> QED
        BY <1>3, <4>3
    <3> QED
      BY <2>1, <2>2, <2>3, <3>1, <3>2 DEF Inv, NamesKept
  <2>5. CASE outcome.reply = "panic"
    <3>1. handles' = NoHandles /\ reply' = "panic"
      BY <1>3, <2>5 DEF Answer, Errors
    <3>2. OpenFilesPinned' /\ handles' \in [Inos -> Nat]
      BY <3>1, NoHandlesPinned
    <3> QED
      BY <2>1, <2>2, <2>3, <3>1, <3>2 DEF Inv, NamesKept
  <2>7. CASE outcome.reply = "EIO"
    <3>1. handles' = handles /\ handles \in [Inos -> Nat] /\ OpenFilesPinned /\ reply' = "EIO"
      BY <1>3, <2>7 DEF Errors, Answer, Inv
    <3>2. after = handles /\ Unlists(w)
      BY <2>7 DEF Fits
    <3>3. OpenFilesPinned'
      <4> SUFFICES ASSUME NEW i \in Inos, handles[i] > 0
                   PROVE  disk'[InodeFile(i)] = Torn \/ (disk'[InodeFile(i)] # Absent /\ disk'[InodeFile(i)].open_file_handles >= handles[i])
        BY <3>1 DEF OpenFilesPinned, inode
      <4>1. after[i] <= handles[i] /\ after[i] > 0
        BY <3>2
      <4> HIDE DEF w
      <4>2. LET v == Written(w, Len(w))[InodeFile(i)]
            IN  v = Torn \/ (v # Absent /\ v.open_file_handles >= after[i])
        BY <1>1, <3>1, <4>1, PinsWritten
      <4> QED
        BY <1>3, <3>2, <4>2
    <3>4. Namespace' = Namespace \/ LosesOneName
      <4> HIDE DEF w
      <4> QED
        BY <1>2, <1>3, <3>2, NamespaceUnlisted
    <3> QED
      BY <2>1, <2>2, <2>3, <3>1, <3>3, <3>4 DEF Inv, NamesKept
  <2>6. CASE outcome.reply \in Errors
    <3>1. handles' = handles /\ handles \in [Inos -> Nat] /\ OpenFilesPinned
      BY <1>3, <2>6 DEF Errors, Inv
    <3>2. w = <<>> \/ after = handles
      BY <2>6 DEF Fits
    <3>3. OpenFilesPinned'
      <4>1. CASE w = <<>>
        <5>1. \A i \in Inos : disk'[InodeFile(i)] = disk[InodeFile(i)]
          <6>1. Len(w) = 0 /\ \A j \in 1 .. 0 : FALSE
            BY <4>1
          <6> HIDE DEF w
          <6> QED
            BY <1>3, <6>1, WrittenFrom, FilesDistinct
        <5> QED
          BY <3>1, <5>1 DEF OpenFilesPinned, inode
      <4>2. CASE after = handles
        <5> SUFFICES ASSUME NEW i \in Inos, handles[i] > 0
                     PROVE  disk'[InodeFile(i)] = Torn \/ (disk'[InodeFile(i)] # Absent /\ disk'[InodeFile(i)].open_file_handles >= handles[i])
          BY <3>1 DEF OpenFilesPinned, inode
        <5>1. after[i] <= handles[i] /\ after[i] > 0
          BY <4>2
        <5> HIDE DEF w
        <5>2. LET v == Written(w, Len(w))[InodeFile(i)]
              IN  v = Torn \/ (v # Absent /\ v.open_file_handles >= after[i])
          BY <1>1, <3>1, <5>1, PinsWritten
        <5> QED
          BY <1>3, <4>2, <5>2
      <4> QED
        BY <3>2, <4>1, <4>2
    <3>4. Namespace' = Namespace
      <4>1. \A j \in 1 .. Len(w), i \in Inos : w[j][1] # ContentFile(i)
        BY <2>6 DEF Fits
      <4> HIDE DEF w
      <4>2. ASSUME NEW i \in Inos PROVE disk'[ContentFile(i)] = disk[ContentFile(i)]
        <5>1. ContentFile(i) \in Files /\ \A j \in 1 .. Len(w) : w[j][1] # ContentFile(i)
          BY <4>1, FilesDistinct
        <5>2. Written(w, Len(w))[ContentFile(i)] = disk[ContentFile(i)]
          BY <1>2, <5>1, WrittenFrom
        <5> QED
          BY <1>3, <5>2
      <4> QED
        BY <4>2, NamespaceOfContents
    <3>5. reply' # "EIO"
      BY <1>3, <2>6 DEF Answer
    <3> QED
      BY <2>1, <2>2, <2>3, <3>1, <3>3, <3>4, <3>5 DEF Inv, NamesKept
  <2> QED
    BY <2>4, <2>5, <2>6, <2>7 DEF Fits

LEMMA RunKeeps ==
    ASSUME Inv, NEW outcome, NEW after \in [Inos -> Nat], Fits(outcome, after),
           Run(outcome, after)
    PROVE  Inv' /\ NamesKept
<1>1. PICK kinds \in KindsOfInodes : DiskOK(disk, kinds) /\ Ordered(outcome.writes, kinds, after)
  BY DEF Fits
<1>2. CASE disk' \in Interrupted(outcome.writes) /\ Killed
  <2>1. Inv' /\ reply' \notin {"refused", "EIO"}
    BY <1>1, <1>2, KilledKeeps
  <2> QED
    BY <2>1 DEF NamesKept
<1>3. CASE ~(disk' \in Interrupted(outcome.writes) /\ Killed)
  BY <1>3, CompletedKeeps DEF Run
<1> QED
  BY <1>2, <1>3

(* A request that meets a truncated file ends there.                       *)
LEMMA NothingWritten ==
    ASSUME NEW kinds, NEW after
    PROVE  Ordered(<<>>, kinds, after) /\ Balanced(<<>>)
  BY DEF Ordered, Balanced, Retains, Removes

LEMMA RefuseFits ==
    ASSUME Inv, NEW error \in Errors, NEW after
    PROVE  Fits(Refuse(error), after)
<1>1. error \notin {"ok", "panic", "EIO"}
  BY DEF Errors
<1> QED
  BY <1>1, NothingWritten DEF Fits, Inv, Refuse

LEMMA PanicFits ==
    ASSUME Inv, ~clean, NEW after
    PROVE  Fits(Panic(<<>>), after)
<1>1. "panic" \notin Errors
  BY DEF Errors
<1> QED
  BY <1>1, NothingWritten DEF Fits, Inv, Panic

LEMMA ServeKeeps ==
    ASSUME Inv, NEW torn, NEW outcome, NEW after \in [Inos -> Nat],
           clean => ~torn, ~torn => Fits(outcome, after), Serve(torn, outcome, after)
    PROVE  Inv' /\ NamesKept
<1>1. CASE torn
  <2>1. handles \in [Inos -> Nat] /\ Fits(Panic(<<>>), handles)
    BY <1>1, PanicFits DEF Inv
  <2>2. Run(Panic(<<>>), handles)
    BY <1>1 DEF Serve
  <2> QED
    BY <2>1, <2>2, RunKeeps
<1>2. CASE ~torn
  <2>1. Run(outcome, after)
    BY <1>2 DEF Serve
  <2> QED
    BY <1>2, <2>1, RunKeeps
<1> QED
  BY <1>1, <1>2

---------------------------------------------------------------------------
(* What a request reads.                                                   *)

LEMMA InodeRead ==
    ASSUME Inv, NEW kinds, DiskOK(disk, kinds), NEW i \in Inos, Exists(inode(i))
    PROVE  /\ inode(i) \in InodeRecords /\ inode(i).kind = kinds[i] /\ i <= Limit(disk)
           /\ inode(i).open_file_handles \in Nat /\ inode(i).open_file_handles >= handles[i]
<1>1. inode(i) \in RecordsOf(kinds[i]) /\ ~(i > Limit(disk))
  BY DEF DiskOK, Kept, Exists, inode
<1>2. i <= Limit(disk)
  BY <1>1, LimitIsIno, BoundsAssumption DEF Inos, ROOT
<1>3. inode(i) \in InodeRecords /\ inode(i).kind = kinds[i] /\ inode(i).open_file_handles \in Nat
  BY <1>1 DEF RecordsOf, InodeRecords
<1>4. handles[i] \in Nat /\ (handles[i] > 0 => inode(i).open_file_handles >= handles[i])
  BY DEF Inv, OpenFilesPinned, Exists
<1> QED
  BY <1>2, <1>3, <1>4

LEMMA ContentRead ==
    ASSUME NEW kinds, DiskOK(disk, kinds), NEW i \in Inos, Exists(content(i)), kinds[i] \in Kinds
    PROVE  /\ i <= Limit(disk)
           /\ kinds[i] = "File" => content(i) = Data
           /\ kinds[i] = "Directory" => IsDirectoryContent(content(i)) /\ content(i) \in EntriesOf(i, Limit(disk))
<1>1. content(i) \in ContentsOf(i, kinds[i], Limit(disk)) /\ ~(i > Limit(disk))
  BY DEF DiskOK, Kept, Exists, content
<1>2. Limit(disk) \in Nat /\ MaxIno \in Nat /\ Limit(disk) <= MaxIno
  BY LimitIsIno, BoundsAssumption DEF Inos, ROOT
<1>3. Data \notin EntriesTo(Limit(disk))
  BY <1>2, EntriesGrow, ContentsAssumption
<1>4. i <= Limit(disk)
  BY <1>1, <1>2 DEF Inos, ROOT
<1>5. kinds[i] = "Directory" => content(i) \in EntriesOf(i, Limit(disk)) /\ content(i) # Data
  BY <1>1, <1>3 DEF ContentsOf, EntriesOf
<1> QED
  BY <1>1, <1>4, <1>5 DEF ContentsOf, IsDirectoryContent

LEMMA BoundRead ==
    ASSUME NEW kinds \in KindsOfInodes, DiskOK(disk, kinds), NEW d \in Inos, NEW n \in Names,
           NEW i \in Bound(d, n)
    PROVE  /\ i \in Inos /\ i <= Limit(disk) /\ i # d
           /\ Exists(content(d)) /\ kinds[d] = "Directory" /\ n \in DOMAIN content(d)
           /\ i = content(d)[n][1]
<1>1. /\ IsDirectoryContent(content(d)) /\ n \in DOMAIN content(d) /\ i = content(d)[n][1]
      /\ kinds[d] \in Kinds
  BY DEF Bound, KindsOfInodes
<1>2. kinds[d] = "Directory" /\ content(d) \in EntriesOf(d, Limit(disk))
  BY <1>1, ContentRead DEF IsDirectoryContent, Kinds
<1>3. content(d)[n] \in (1 .. Limit(disk)) \X Kinds /\ content(d)[n][1] # d
  BY <1>1, <1>2 DEF EntriesOf, EntriesTo
<1>4. i \in Inos /\ i <= Limit(disk)
  BY <1>1, <1>3, LimitIsIno, BoundsAssumption DEF Inos, ROOT
<1> QED
  BY <1>1, <1>2, <1>3, <1>4 DEF IsDirectoryContent

LEMMA BelowRoot == Below(ROOT) \subseteq Inos /\ \A i : i \in Below(i)
<1>1. ROOT \in Inos
  BY BoundsAssumption DEF ROOT, Inos
<1>2. \A i : i \in Below(i)
  BY DEF Below
<1>3. Below(ROOT) \subseteq {ROOT} \cup Inos
  BY DEF Below
<1> QED
  BY <1>1, <1>2, <1>3

LEMMA DirectoryRead ==
    ASSUME Inv, NEW kinds, DiskOK(disk, kinds), NEW d \in Directories
    PROVE  /\ d \in Inos /\ Exists(inode(d)) /\ inode(d) \in InodeRecords
           /\ inode(d).kind = "Directory" /\ kinds[d] = "Directory" /\ d <= Limit(disk)
           /\ inode(d).open_file_handles >= handles[d]
<1>1. d \in Inos /\ Exists(inode(d)) /\ inode(d).kind = "Directory"
  BY BelowRoot DEF Directories
<1> QED
  BY <1>1, InodeRead

(* An entry that a request adds, changes or removes.                       *)
LEMMA InsertEntries ==
    ASSUME NEW last, NEW d, NEW entries \in EntriesOf(d, last), NEW n \in Names \cup {".", ".."},
           NEW i \in 1 .. last, NEW kind \in Kinds, n \in Names => i # d
    PROVE  Insert(entries, n, i, kind) \in EntriesOf(d, last)
<1> DEFINE V == (1 .. last) \X Kinds
           new == Insert(entries, n, i, kind)
<1>1. PICK D \in SUBSET (Names \cup {".", ".."}) : entries \in [D -> V]
  BY DEF EntriesOf, EntriesTo
<1>2. <<i, kind>> \in V
  OBVIOUS
<1>3. new \in [D \cup {n} -> V]
  BY <1>1, <1>2 DEF Insert
<1>4. D \cup {n} \in SUBSET (Names \cup {".", ".."})
  BY <1>1
<1>5. new \in EntriesTo(last)
  BY <1>3, <1>4 DEF EntriesTo
<1>6. ASSUME NEW m \in Names \cap DOMAIN new PROVE new[m][1] # d
  <2>1. CASE m = n
    BY <2>1 DEF Insert
  <2>2. CASE m # n
    <3>1. m \in DOMAIN entries /\ new[m] = entries[m]
      BY <1>6, <2>2 DEF Insert
    <3> QED
      BY <3>1 DEF EntriesOf
  <2> QED
    BY <2>1, <2>2
<1>7. Dotted(d, DOMAIN new)
  <2>1. Dotted(d, DOMAIN entries)
    BY DEF EntriesOf
  <2>2. DOMAIN entries \subseteq DOMAIN new
    BY DEF Insert
  <2> HIDE DEF new
  <2> QED
    BY <2>1, <2>2 DEF Dotted
<1> QED
  BY <1>5, <1>6, <1>7 DEF EntriesOf

LEMMA RemoveEntries ==
    ASSUME NEW last, NEW d, NEW entries \in EntriesOf(d, last), NEW n \in Names
    PROVE  Remove(entries, n) \in EntriesOf(d, last)
<1> DEFINE V == (1 .. last) \X Kinds
           new == Remove(entries, n)
<1>1. PICK D \in SUBSET (Names \cup {".", ".."}) : entries \in [D -> V]
  BY DEF EntriesOf, EntriesTo
<1>2. new \in [D \ {n} -> V]
  BY <1>1 DEF Remove
<1>3. D \ {n} \in SUBSET (Names \cup {".", ".."})
  BY <1>1
<1>4. new \in EntriesTo(last)
  BY <1>2, <1>3 DEF EntriesTo
<1>5. ASSUME NEW m \in Names \cap DOMAIN new PROVE new[m][1] # d
  <2>1. m \in DOMAIN entries /\ new[m] = entries[m]
    BY <1>5 DEF Remove
  <2> QED
    BY <2>1 DEF EntriesOf
<1>6. Dotted(d, DOMAIN new)
  <2>1. Dotted(d, DOMAIN entries)
    BY DEF EntriesOf
  <2>2. DOMAIN new = DOMAIN entries \ {n} /\ n # "." /\ n # ".."
    BY NamesAssumption DEF Remove
  <2> HIDE DEF new
  <2> QED
    BY <2>1, <2>2 DEF Dotted
<1> QED
  BY <1>4, <1>5, <1>6 DEF EntriesOf

---------------------------------------------------------------------------
(* Sequences of writes, put together.                                      *)

(* Stores to inodes that exist, and those that may follow the superblock.  *)
OldStores(kinds, after) ==
    {write \in Stores(Limit(disk), kinds, after) :
        write[2] # Absent /\ \E i \in Inos : write[1] \in FilesOf(i) /\ inode(i) # Absent}
NewStores(kinds, after) ==
    {write \in Stores(NextInode, kinds, after) :
        write[2] # Absent /\ \E i \in Inos : write[1] \in FilesOf(i) /\ (inode(i) # Absent \/ i = NextInode)}

Untouched(w, i) == \A j \in 1 .. Len(w) : w[j][1] \notin FilesOf(i)

LEMMA FilesOfOne == \A i, h : i # h => FilesOf(i) \cap FilesOf(h) = {}
  BY FilesDistinct DEF FilesOf

LEMMA ConcatAt ==
    ASSUME NEW S, NEW u \in Seq(S), NEW v \in Seq(S)
    PROVE  /\ u \o v \in Seq(S) /\ Len(u \o v) = Len(u) + Len(v) /\ Len(u) \in Nat /\ Len(v) \in Nat
           /\ \A j \in 1 .. Len(u) : (u \o v)[j] = u[j]
           /\ \A j \in 1 .. Len(v) : Len(u) + j \in 1 .. Len(u \o v) /\ (u \o v)[Len(u) + j] = v[j]
           /\ \A j \in 1 .. Len(u \o v) : j \notin 1 .. Len(u) =>
                 j - Len(u) \in 1 .. Len(v) /\ (u \o v)[j] = v[j - Len(u)]
  OBVIOUS

LEMMA ConcatNothing == ASSUME NEW S, NEW u \in Seq(S) PROVE u \o <<>> = u /\ <<>> \o u = u
  OBVIOUS

LEMMA GivesOutStays ==
    ASSUME NEW u, NEW w, NEW k \in Nat, NEW l \in Nat, k <= l,
           \A j \in 1 .. k : w[j] = u[j], GivesOut(u, k)
    PROVE  GivesOut(w, l)
<1>1. PICK m \in 1 .. k : u[m] = <<Superblock, NextInode>>
  BY DEF GivesOut
<1>2. m \in 1 .. l /\ w[m] = <<Superblock, NextInode>>
  BY <1>1
<1> QED
  BY <1>2 DEF GivesOut

LEMMA OrderedConcat ==
    ASSUME NEW kinds, NEW after, NEW u, NEW v, Ordered(u, kinds, after), Ordered(v, kinds, after)
    PROVE  Ordered(u \o v, kinds, after)
<1> DEFINE w == u \o v
           OK(x, given) == \/ x \in Stores(Limit(disk), kinds, after)
                           \/ /\ disk[Superblock] # Torn /\ NextInode \in Inos
                              /\ \/ x = <<Superblock, NextInode>>
                                 \/ x \in Stores(NextInode, kinds, after) /\ given
<1>1. u \in Seq(Files \X AllContents) /\ v \in Seq(Files \X AllContents)
  BY DEF Ordered
<1>2. /\ \A j \in 1 .. Len(u) : OK(u[j], GivesOut(u, j - 1))
      /\ \A j \in 1 .. Len(v) : OK(v[j], GivesOut(v, j - 1))
  BY DEF Ordered
<1>3. /\ w \in Seq(Files \X AllContents) /\ Len(u) \in Nat /\ Len(v) \in Nat /\ Len(w) = Len(u) + Len(v)
      /\ \A j \in 1 .. Len(u) : w[j] = u[j]
      /\ \A j \in 1 .. Len(v) : Len(u) + j \in 1 .. Len(w) /\ w[Len(u) + j] = v[j]
      /\ \A j \in 1 .. Len(w) : j \notin 1 .. Len(u) => j - Len(u) \in 1 .. Len(v) /\ w[j] = v[j - Len(u)]
  BY <1>1, ConcatAt
<1> HIDE DEF OK, w
<1>4. ASSUME NEW j \in 1 .. Len(w) PROVE OK(w[j], GivesOut(w, j - 1))
  <2>1. CASE j \in 1 .. Len(u)
    <3>1. j - 1 \in Nat /\ \A h \in 1 .. j - 1 : w[h] = u[h]
      <4>1. Len(u) \in Nat
        BY <1>3
      <4>2. j - 1 \in Nat /\ \A h \in 1 .. j - 1 : h \in 1 .. Len(u)
        BY <2>1, <4>1
      <4>3. \A h \in 1 .. Len(u) : w[h] = u[h]
        BY <1>3
      <4> QED
        BY <4>2, <4>3
    <3>2. GivesOut(u, j - 1) => GivesOut(w, j - 1)
      BY <3>1, GivesOutStays
    <3> QED
      BY <1>2, <1>3, <2>1, <3>2 DEF OK
  <2>2. CASE j \notin 1 .. Len(u)
    <3> DEFINE h == j - Len(u)
    <3>1. h \in 1 .. Len(v) /\ w[j] = v[h]
      BY <1>3, <2>2
    <3>2. ASSUME GivesOut(v, h - 1) PROVE GivesOut(w, j - 1)
      <4>1. PICK m \in 1 .. h - 1 : v[m] = <<Superblock, NextInode>>
        BY <3>2 DEF GivesOut
      <4>2. m \in 1 .. Len(v) /\ Len(u) + m \in 1 .. j - 1
        BY <1>3, <3>1, <4>1
      <4>3. w[Len(u) + m] = v[m]
        BY <1>3, <4>2
      <4> QED
        BY <4>1, <4>2, <4>3 DEF GivesOut
    <3> HIDE DEF h
    <3> QED
      BY <1>2, <3>1, <3>2 DEF OK
  <2> QED
    BY <2>1, <2>2
<1>5. Ordered(w, kinds, after)
  BY <1>3, <1>4 DEF Ordered, OK
<1> QED
  BY <1>5 DEF w

(* Once the number is given out, stores to the new inode may follow.       *)
LEMMA OrderedAfter ==
    ASSUME NEW kinds, NEW after, NEW u, Ordered(u, kinds, after), GivesOut(u, Len(u)),
           disk[Superblock] # Torn, NextInode \in Inos, NEW v \in Seq(NewStores(kinds, after))
    PROVE  Ordered(u \o v, kinds, after) /\ GivesOut(u \o v, Len(u \o v))
<1> DEFINE w == u \o v
<1>1. u \in Seq(Files \X AllContents)
  BY DEF Ordered
<1>2. v \in Seq(Files \X AllContents) /\ \A j \in 1 .. Len(v) : v[j] \in Stores(NextInode, kinds, after)
  <2>1. NewStores(kinds, after) \subseteq Files \X AllContents
    BY StoresWhat DEF NewStores
  <2>2. \A j \in 1 .. Len(v) : v[j] \in NewStores(kinds, after)
    OBVIOUS
  <2> QED
    BY <2>1, <2>2 DEF NewStores
<1>3. /\ w \in Seq(Files \X AllContents) /\ Len(u) \in Nat /\ Len(v) \in Nat /\ Len(w) = Len(u) + Len(v)
      /\ \A j \in 1 .. Len(u) : w[j] = u[j]
      /\ \A j \in 1 .. Len(w) : j \notin 1 .. Len(u) => j - Len(u) \in 1 .. Len(v) /\ w[j] = v[j - Len(u)]
  BY <1>1, <1>2, ConcatAt
<1> HIDE DEF w
<1>5. \A k \in Nat : k >= Len(u) => GivesOut(w, k)
  BY <1>3, GivesOutStays
<1>6. ASSUME NEW j \in 1 .. Len(w)
      PROVE  \/ w[j] \in Stores(Limit(disk), kinds, after)
             \/ w[j] = <<Superblock, NextInode>>
             \/ w[j] \in Stores(NextInode, kinds, after) /\ GivesOut(w, j - 1)
  <2>1. CASE j \in 1 .. Len(u)
    <3>1. j - 1 \in Nat /\ \A h \in 1 .. j - 1 : w[h] = u[h]
      <4>1. Len(u) \in Nat
        BY <1>3
      <4>2. j - 1 \in Nat /\ \A h \in 1 .. j - 1 : h \in 1 .. Len(u)
        BY <2>1, <4>1
      <4>3. \A h \in 1 .. Len(u) : w[h] = u[h]
        BY <1>3
      <4> QED
        BY <4>2, <4>3
    <3>2. GivesOut(u, j - 1) => GivesOut(w, j - 1)
      BY <3>1, GivesOutStays
    <3> QED
      BY <1>3, <2>1, <3>2 DEF Ordered
  <2>2. CASE j \notin 1 .. Len(u)
    <3>1. j - 1 \in Nat /\ j - 1 >= Len(u)
      BY <1>3, <2>2
    <3> QED
      BY <1>2, <1>3, <1>5, <2>2, <3>1
  <2> QED
    BY <2>1, <2>2
<1>7. Ordered(w, kinds, after)
  BY <1>3, <1>6 DEF Ordered
<1>8. GivesOut(w, Len(w))
  BY <1>3, <1>5
<1> QED
  BY <1>7, <1>8 DEF w

LEMMA RetainsConcat ==
    ASSUME NEW S, NEW u \in Seq(S), NEW v \in Seq(S), NEW i, Retains(u, i), Retains(v, i)
    PROVE  Retains(u \o v, i)
<1> DEFINE w == u \o v
<1>1. /\ Len(u) \in Nat /\ Len(v) \in Nat /\ Len(w) = Len(u) + Len(v)
      /\ \A j \in 1 .. Len(u) : j \in 1 .. Len(w) /\ w[j] = u[j]
      /\ \A j \in 1 .. Len(v) : Len(u) + j \in 1 .. Len(w) /\ w[Len(u) + j] = v[j]
      /\ \A j \in 1 .. Len(w) : j \notin 1 .. Len(u) => j - Len(u) \in 1 .. Len(v) /\ w[j] = v[j - Len(u)]
  BY ConcatAt
<1> HIDE DEF w
<1>2. \A j \in 1 .. Len(w) : w[j][1] \in FilesOf(i) => w[j][2] # Absent
  BY <1>1 DEF Retains
<1>3. CASE inode(i) # Absent
  BY <1>2, <1>3 DEF Retains, w
<1>4. CASE (\A j \in 1 .. Len(u) : u[j][1] \notin FilesOf(i)) /\ \A j \in 1 .. Len(v) : v[j][1] \notin FilesOf(i)
  <2>1. \A j \in 1 .. Len(w) : w[j][1] \notin FilesOf(i)
    BY <1>1, <1>4
  <2> QED
    BY <1>2, <2>1 DEF Retains, w
<1>5. CASE \/ \A f \in FilesOf(i) : \E j \in 1 .. Len(u) : u[j][1] = f
           \/ \A f \in FilesOf(i) : \E j \in 1 .. Len(v) : v[j][1] = f
  <2>1. \A f \in FilesOf(i) : \E j \in 1 .. Len(w) : w[j][1] = f
    <3>1. \A f : (\E j \in 1 .. Len(u) : u[j][1] = f) => \E j \in 1 .. Len(w) : w[j][1] = f
      BY <1>1
    <3>2. \A f : (\E j \in 1 .. Len(v) : v[j][1] = f) => \E j \in 1 .. Len(w) : w[j][1] = f
      BY <1>1
    <3> QED
      BY <1>5, <3>1, <3>2
  <2> QED
    BY <1>2, <2>1 DEF Retains, w
<1> QED
  BY <1>3, <1>4, <1>5 DEF Retains

LEMMA RemovesFirst ==
    ASSUME NEW S, NEW u \in Seq(S), NEW v \in Seq(S), NEW i, Removes(u, i), Untouched(v, i)
    PROVE  Removes(u \o v, i)
<1> DEFINE w == u \o v
<1>1. /\ Len(u) \in Nat /\ Len(v) \in Nat /\ Len(w) = Len(u) + Len(v)
      /\ \A j \in 1 .. Len(u) : j \in 1 .. Len(w) /\ w[j] = u[j]
      /\ \A j \in 1 .. Len(w) : j \notin 1 .. Len(u) => j - Len(u) \in 1 .. Len(v) /\ w[j] = v[j - Len(u)]
  BY ConcatAt
<1> HIDE DEF w
<1>2. ASSUME NEW f \in FilesOf(i)
      PROVE  \E j \in 1 .. Len(w) : w[j] = <<f, Absent>> /\ \A h \in j + 1 .. Len(w) : w[h][1] # f
  <2>1. PICK j \in 1 .. Len(u) : u[j] = <<f, Absent>> /\ \A h \in j + 1 .. Len(u) : u[h][1] # f
    BY DEF Removes
  <2>2. ASSUME NEW h \in j + 1 .. Len(w) PROVE w[h][1] # f
    <3>1. CASE h \in 1 .. Len(u)
      BY <1>1, <2>1, <2>2, <3>1
    <3>2. CASE h \notin 1 .. Len(u)
      BY <1>1, <2>1, <2>2, <3>2 DEF Untouched
    <3> QED
      BY <3>1, <3>2
  <2> QED
    BY <1>1, <2>1, <2>2
<1> QED
  BY <1>2 DEF Removes, w

LEMMA RemovesLast ==
    ASSUME NEW S, NEW u \in Seq(S), NEW v \in Seq(S), NEW i, Removes(v, i)
    PROVE  Removes(u \o v, i)
<1> DEFINE w == u \o v
<1>1. /\ Len(u) \in Nat /\ Len(v) \in Nat /\ Len(w) = Len(u) + Len(v)
      /\ \A j \in 1 .. Len(v) : Len(u) + j \in 1 .. Len(w) /\ w[Len(u) + j] = v[j]
  BY ConcatAt
<1> HIDE DEF w
<1>2. ASSUME NEW f \in FilesOf(i)
      PROVE  \E j \in 1 .. Len(w) : w[j] = <<f, Absent>> /\ \A h \in j + 1 .. Len(w) : w[h][1] # f
  <2>1. PICK j \in 1 .. Len(v) : v[j] = <<f, Absent>> /\ \A h \in j + 1 .. Len(v) : v[h][1] # f
    BY DEF Removes
  <2>2. ASSUME NEW h \in Len(u) + j + 1 .. Len(w) PROVE w[h][1] # f
    <3>1. h - Len(u) \in j + 1 .. Len(v) /\ h - Len(u) \in 1 .. Len(v) /\ Len(u) + (h - Len(u)) = h
      BY <1>1
    <3> QED
      BY <1>1, <2>1, <3>1
  <2> QED
    BY <1>1, <2>1, <2>2
<1> QED
  BY <1>2 DEF Removes, w

LEMMA OldOrdered ==
    ASSUME NEW kinds, NEW after, NEW v \in Seq(OldStores(kinds, after))
    PROVE  /\ Ordered(v, kinds, after) /\ v \in Seq(Files \X AllContents)
           /\ \A i \in Inos : Retains(v, i) /\ (inode(i) = Absent => Untouched(v, i))
<1>1. \A j \in 1 .. Len(v) : v[j] \in OldStores(kinds, after)
  OBVIOUS
<1>2. OldStores(kinds, after) \subseteq Files \X AllContents
  BY StoresWhat DEF OldStores
<1>3. v \in Seq(Files \X AllContents) /\ \A j \in 1 .. Len(v) : v[j] \in Stores(Limit(disk), kinds, after)
  BY <1>1, <1>2 DEF OldStores
<1>4. ASSUME NEW i \in Inos, inode(i) = Absent, NEW j \in 1 .. Len(v) PROVE v[j][1] \notin FilesOf(i)
  BY <1>1, <1>4, FilesOfOne DEF OldStores
<1>5. \A j \in 1 .. Len(v) : v[j][2] # Absent
  BY <1>1 DEF OldStores
<1>6. ASSUME NEW i \in Inos PROVE Retains(v, i) /\ (inode(i) = Absent => Untouched(v, i))
  BY <1>4, <1>5 DEF Retains, Untouched
<1> QED
  BY <1>3, <1>6 DEF Ordered

LEMMA NewRetains ==
    ASSUME NEW kinds, NEW after, NEW v \in Seq(NewStores(kinds, after))
    PROVE  /\ v \in Seq(Files \X AllContents)
           /\ \A i \in Inos : i # NextInode => Retains(v, i) /\ (inode(i) = Absent => Untouched(v, i))
           /\ (\A f \in FilesOf(NextInode) : \E j \in 1 .. Len(v) : v[j][1] = f) => Retains(v, NextInode)
<1>1. \A j \in 1 .. Len(v) : v[j] \in NewStores(kinds, after)
  OBVIOUS
<1>2. NewStores(kinds, after) \subseteq Files \X AllContents
  BY StoresWhat DEF NewStores
<1>3. v \in Seq(Files \X AllContents)
  BY <1>1, <1>2
<1>4. ASSUME NEW i \in Inos, i # NextInode, inode(i) = Absent, NEW j \in 1 .. Len(v)
      PROVE  v[j][1] \notin FilesOf(i)
  BY <1>1, <1>4, FilesOfOne DEF NewStores
<1>5. \A j \in 1 .. Len(v) : v[j][2] # Absent
  BY <1>1 DEF NewStores
<1>6. ASSUME NEW i \in Inos, i # NextInode PROVE Retains(v, i) /\ (inode(i) = Absent => Untouched(v, i))
  BY <1>4, <1>5, <1>6 DEF Retains, Untouched
<1>7. (\A f \in FilesOf(NextInode) : \E j \in 1 .. Len(v) : v[j][1] = f) => Retains(v, NextInode)
  BY <1>5 DEF Retains
<1> QED
  BY <1>3, <1>6, <1>7

(* A store to an inode that exists, by what it puts there.                 *)
LEMMA OldInode ==
    ASSUME Inv, NEW kinds, NEW after, DiskOK(disk, kinds), NEW i \in Inos, Exists(inode(i)),
           NEW r \in InodeRecords, r.kind = inode(i).kind, r.open_file_handles >= after[i]
    PROVE  <<InodeFile(i), r>> \in OldStores(kinds, after)
<1>1. i <= Limit(disk) /\ r.kind = kinds[i]
  BY InodeRead
<1>2. <<InodeFile(i), r>> \in Stores(Limit(disk), kinds, after)
  BY <1>1, StoresInode
<1>3. r # Absent /\ inode(i) # Absent
  BY ContentsAssumption DEF Exists
<1> QED
  BY <1>2, <1>3 DEF OldStores, FilesOf

LEMMA OldEntries ==
    ASSUME Inv, NEW kinds, NEW after, DiskOK(disk, kinds), NEW i \in Inos, Exists(inode(i)),
           kinds[i] = "Directory", NEW e \in EntriesOf(i, Limit(disk))
    PROVE  <<ContentFile(i), e>> \in OldStores(kinds, after)
<1>1. i <= Limit(disk) /\ Limit(disk) \in Inos
  BY InodeRead, LimitIsIno
<1>2. <<ContentFile(i), e>> \in Stores(Limit(disk), kinds, after)
  BY <1>1, StoresEntries
<1>3. e # Absent /\ inode(i) # Absent
  <2>1. Limit(disk) \in Nat /\ MaxIno \in Nat /\ Limit(disk) <= MaxIno
    BY <1>1, BoundsAssumption DEF Inos, ROOT
  <2>2. e \in EntriesTo(MaxIno)
    BY <2>1, EntriesGrow DEF EntriesOf
  <2> QED
    BY <2>2, ContentsAssumption DEF Exists
<1> QED
  BY <1>2, <1>3 DEF OldStores, FilesOf

(* gc_inode removes both files, of an inode without handles.               *)
LEMMA DropFits ==
    ASSUME Inv, NEW kinds, NEW after, DiskOK(disk, kinds), NEW i \in Inos, Exists(inode(i)),
           NEW r \in InodeRecords, r.kind = inode(i).kind, r.open_file_handles >= after[i],
           after[i] \in Nat
    PROVE  /\ Ordered(Drop(i, r), kinds, after) /\ Drop(i, r) \in Seq(Files \X AllContents)
           /\ Removes(Drop(i, r), i) \/ Retains(Drop(i, r), i)
           /\ \A h \in Inos : h # i => Untouched(Drop(i, r), h) /\ Retains(Drop(i, r), h)
           /\ \E j \in 1 .. Len(Drop(i, r)) : Drop(i, r)[j][1] = InodeFile(i)
           /\ \A j \in 1 .. Len(Drop(i, r)) : Drop(i, r)[j][1] \in FilesOf(i)
<1> DEFINE a == <<InodeFile(i), r>>
           b == <<InodeFile(i), Absent>>
           c == <<ContentFile(i), Absent>>
           w == Drop(i, r)
<1>1. a \in OldStores(kinds, after)
  BY OldInode
<1>2. a \in Stores(Limit(disk), kinds, after) /\ a \in Files \X AllContents
  BY <1>1, StoresWhat DEF OldStores
<1>3. CASE ~(r.hardlinks = 0 /\ r.open_file_handles = 0)
  <2>1. w = <<a>>
    <3>1. GcInode(i, r) = <<>> /\ <<a>> \in Seq({a})
      BY <1>3 DEF GcInode
    <3> HIDE DEF a
    <3>2. <<a>> \o <<>> = <<a>>
      BY <3>1, ConcatNothing
    <3> QED
      BY <3>1, <3>2 DEF Drop, a
  <2>2. Len(w) = 1 /\ w[1] = a
    BY <2>1
  <2>3. w \in Seq(OldStores(kinds, after))
    BY <1>1, <2>1
  <2> HIDE DEF w
  <2>4. /\ Ordered(w, kinds, after) /\ w \in Seq(Files \X AllContents)
        /\ \A h \in Inos : Retains(w, h)
    BY <2>3, OldOrdered
  <2>5. \A j \in 1 .. Len(w) : w[j][1] = InodeFile(i)
    BY <2>2
  <2>6. \A h \in Inos : h # i => Untouched(w, h)
    BY <2>5, FilesOfOne DEF Untouched, FilesOf
  <2>7. \E j \in 1 .. Len(w) : w[j][1] = InodeFile(i)
    BY <2>2, <2>5
  <2>8. \A j \in 1 .. Len(w) : w[j][1] \in FilesOf(i)
    BY <2>5 DEF FilesOf
  <2> QED
    BY <2>4, <2>6, <2>7, <2>8 DEF w
<1>4. CASE r.hardlinks = 0 /\ r.open_file_handles = 0
  <2>1. w = <<a>> \o <<b, c>>
    BY <1>4 DEF Drop, GcInode
  <2>2. Len(w) = 3 /\ w[1] = a /\ w[2] = b /\ w[3] = c
    BY <2>1
  <2>3. after[i] = 0
    BY <1>4
  <2>4. b \in Stores(Limit(disk), kinds, after) /\ c \in Stores(Limit(disk), kinds, after)
    BY <2>3, StoresAbsent
  <2>5. b \in Files \X AllContents /\ c \in Files \X AllContents
    BY <2>4, StoresWhat
  <2>6. w \in Seq(Files \X AllContents)
    BY <1>2, <2>1, <2>5
  <2>7. \A j \in 1 .. Len(w) : j = 1 \/ j = 2 \/ j = 3
    BY <2>2
  <2>8. \A j \in 1 .. Len(w) : w[j] \in Stores(Limit(disk), kinds, after)
    BY <1>2, <2>2, <2>4, <2>7
  <2>9. \A j \in 1 .. Len(w) : w[j][1] \in FilesOf(i)
    BY <2>2, <2>7 DEF FilesOf
  <2>10. Removes(w, i)
    <3>1. w[2] = <<InodeFile(i), Absent>> /\ \A h \in 3 .. 3 : w[h][1] # InodeFile(i)
      BY <2>2, FilesDistinct
    <3>2. w[3] = <<ContentFile(i), Absent>> /\ \A h \in 4 .. 3 : w[h][1] # ContentFile(i)
      BY <2>2
    <3> HIDE DEF w
    <3> QED
      BY <2>2, <3>1, <3>2 DEF Removes, FilesOf
  <2> HIDE DEF w
  <2>11. Ordered(w, kinds, after)
    BY <2>6, <2>8 DEF Ordered
  <2>12. \A h \in Inos : h # i => Untouched(w, h) /\ Retains(w, h)
    BY <2>9, FilesOfOne DEF Untouched, Retains
  <2>13. \E j \in 1 .. Len(w) : w[j][1] = InodeFile(i)
    BY <2>2
  <2> QED
    BY <2>6, <2>9, <2>10, <2>11, <2>12, <2>13 DEF w
<1> QED
  BY <1>3, <1>4

(* The next inode number, and stores to the inode that gets it.            *)
LEMMA FreshNumber ==
    ASSUME Inv, disk[Superblock] # Torn, NextInode \in Inos, NEW kind \in Kinds
    PROVE  /\ \E kinds \in KindsOfInodes : DiskOK(disk, kinds) /\ kinds[NextInode] = kind
           /\ inode(NextInode) = Absent /\ content(NextInode) = Absent /\ handles[NextInode] = 0
           /\ NextInode = Limit(disk) + 1 /\ Limit(disk) \in Inos
           /\ Limit(disk) < NextInode /\ NextInode \in Nat
<1>1. PICK kinds \in KindsOfInodes : DiskOK(disk, kinds)
  BY DEF Inv
<1>2. /\ NextInode = Limit(disk) + 1 /\ Limit(disk) \in Inos
      /\ Limit(disk) < NextInode /\ NextInode > Limit(disk) /\ NextInode \in Nat /\ NextInode # ROOT
  BY <1>1, LimitIsIno, LimitIsLast, BoundsAssumption DEF Inos, ROOT
<1>3. inode(NextInode) = Absent /\ content(NextInode) = Absent
  BY <1>1, <1>2 DEF DiskOK, Kept, inode, content
<1>4. handles[NextInode] = 0
  <2>1. handles[NextInode] \in Nat /\ ~(handles[NextInode] > 0)
    BY <1>3, ContentsAssumption DEF Inv, OpenFilesPinned
  <2> QED
    BY <2>1
<1> DEFINE new == [kinds EXCEPT ![NextInode] = kind]
<1>5. new \in KindsOfInodes /\ new[NextInode] = kind /\ \A i \in Inos : i # NextInode => new[i] = kinds[i]
  <2>1. kinds \in [Inos -> Kinds] /\ kinds[ROOT] = "Directory"
    BY DEF KindsOfInodes
  <2>2. new \in [Inos -> Kinds] /\ new[NextInode] = kind /\ \A i \in Inos : i # NextInode => new[i] = kinds[i]
    BY <2>1
  <2>3. ROOT \in Inos
    BY BoundsAssumption DEF Inos, ROOT
  <2> QED
    BY <1>2, <2>1, <2>2, <2>3 DEF KindsOfInodes
<1> HIDE DEF new
<1>6. Kept(disk, Limit(disk), new)
  <2> SUFFICES ASSUME NEW i \in Inos
               PROVE  /\ disk[InodeFile(i)] \in {Absent, Torn} \cup RecordsOf(new[i])
                      /\ disk[ContentFile(i)] \in {Absent, Torn} \cup ContentsOf(i, new[i], Limit(disk))
                      /\ i > Limit(disk) => disk[InodeFile(i)] = Absent /\ disk[ContentFile(i)] = Absent
    BY DEF Kept
  <2>1. Kept(disk, Limit(disk), kinds)
    BY <1>1 DEF DiskOK
  <2>2. CASE i = NextInode
    BY <1>3, <2>2 DEF inode, content
  <2>3. CASE i # NextInode
    BY <1>5, <2>1, <2>3 DEF Kept
  <2> QED
    BY <2>2, <2>3
<1>7. DiskOK(disk, new)
  BY <1>1, <1>6 DEF DiskOK
<1> QED
  BY <1>2, <1>3, <1>4, <1>5, <1>7

LEMMA NewInode ==
    ASSUME NEW kinds, NEW after, NextInode \in Inos, NEW r \in InodeRecords,
           r.kind = kinds[NextInode], r.open_file_handles >= after[NextInode]
    PROVE  <<InodeFile(NextInode), r>> \in NewStores(kinds, after)
<1>1. NextInode <= NextInode
  BY BoundsAssumption DEF Inos, ROOT
<1>2. <<InodeFile(NextInode), r>> \in Stores(NextInode, kinds, after)
  BY <1>1, StoresInode
<1>3. r # Absent
  BY ContentsAssumption
<1> QED
  BY <1>2, <1>3 DEF NewStores, FilesOf

LEMMA NewData ==
    ASSUME NEW kinds, NEW after, NextInode \in Inos, kinds[NextInode] = "File"
    PROVE  <<ContentFile(NextInode), Data>> \in NewStores(kinds, after)
<1>1. NextInode <= NextInode
  BY BoundsAssumption DEF Inos, ROOT
<1>2. <<ContentFile(NextInode), Data>> \in Stores(NextInode, kinds, after)
  BY <1>1, StoresData
<1> QED
  BY <1>2, ContentsAssumption DEF NewStores, FilesOf

LEMMA NewEntries ==
    ASSUME NEW kinds, NEW after, NextInode \in Inos, NEW i \in Inos, i <= NextInode,
           inode(i) # Absent \/ i = NextInode,
           kinds[i] = "Directory", NEW e \in EntriesOf(i, NextInode)
    PROVE  <<ContentFile(i), e>> \in NewStores(kinds, after)
<1>1. <<ContentFile(i), e>> \in Stores(NextInode, kinds, after)
  BY StoresEntries
<1>2. e # Absent
  <2>1. NextInode \in Nat /\ MaxIno \in Nat /\ NextInode <= MaxIno
    BY BoundsAssumption DEF Inos, ROOT
  <2>2. e \in EntriesTo(MaxIno)
    BY <2>1, EntriesGrow DEF EntriesOf
  <2> QED
    BY <2>2, ContentsAssumption
<1> QED
  BY <1>1, <1>2 DEF NewStores, FilesOf

LEMMA OldIsNew ==
    ASSUME NEW kinds, NEW after, Limit(disk) \in Nat, NextInode \in Nat, Limit(disk) < NextInode
    PROVE  OldStores(kinds, after) \subseteq NewStores(kinds, after)
  BY StoresGrow DEF OldStores, NewStores

(* Some writes, the superblock, and writes that may use the new number.    *)
Allocating(u, v) == (u \o <<<<Superblock, NextInode>>>>) \o v

LEMMA AllocFits ==
    ASSUME NEW kinds, NEW after, disk[Superblock] # Torn, NextInode \in Inos,
           NEW u, Ordered(u, kinds, after), NEW v \in Seq(NewStores(kinds, after))
    PROVE  /\ Ordered(Allocating(u, v), kinds, after) /\ Allocating(u, v) \in Seq(Files \X AllContents)
           /\ GivesOut(Allocating(u, v), Len(Allocating(u, v)))
           /\ \A i \in Inos : Retains(u, i) /\ Retains(v, i) => Retains(Allocating(u, v), i)
           /\ \A i \in Inos : Removes(u, i) /\ Untouched(v, i) => Removes(Allocating(u, v), i)
<1> DEFINE w == Allocating(u, v)
           sb == <<Superblock, NextInode>>
           t == u \o <<sb>>
           F == Files \X AllContents
<1>1. sb \in F /\ <<sb>> \in Seq(F)
  BY FilesDistinct, BoundsAssumption DEF AllContents, Inos, ROOT
<1>2. u \in Seq(F) /\ v \in Seq(F)
  BY NewRetains DEF Ordered
<1>3. Len(<<sb>>) = 1 /\ <<sb>>[1] = sb
  OBVIOUS
<1>4. \A i \in Inos : Untouched(<<sb>>, i) /\ Retains(<<sb>>, i)
  <2>1. sb[1] = Superblock /\ \A i \in Inos : Superblock \notin FilesOf(i)
    BY FilesDistinct DEF FilesOf
  <2>2. \A j \in 1 .. Len(<<sb>>) : <<sb>>[j] = sb
    BY <1>3
  <2> HIDE DEF sb
  <2> QED
    BY <2>1, <2>2 DEF Untouched, Retains
<1>5. Ordered(<<sb>>, kinds, after)
  <2>1. \A j \in 1 .. Len(<<sb>>) : <<sb>>[j] = sb
    BY <1>3
  <2> QED
    BY <1>1, <2>1 DEF Ordered
<1>6. t \in Seq(F) /\ Ordered(t, kinds, after)
  BY <1>1, <1>2, <1>5, OrderedConcat
<1>7. GivesOut(t, Len(t))
  <2>1. Len(t) \in 1 .. Len(t) /\ t[Len(t)] = sb
    BY <1>1, <1>2
  <2> HIDE DEF t
  <2> QED
    BY <2>1 DEF GivesOut
<1> HIDE DEF sb, F
<1>8. \A i \in Inos : (Retains(u, i) => Retains(t, i)) /\ (Removes(u, i) => Removes(t, i))
  BY <1>1, <1>2, <1>4, RetainsConcat, RemovesFirst
<1> HIDE DEF t
<1>9. w = t \o v
  BY DEF t, sb, Allocating
<1> HIDE DEF w
<1>10. Ordered(w, kinds, after) /\ GivesOut(w, Len(w)) /\ w \in Seq(F)
  <2>1. Ordered(t \o v, kinds, after) /\ GivesOut(t \o v, Len(t \o v))
    BY <1>6, <1>7, OrderedAfter
  <2>2. t \o v \in Seq(F)
    BY <1>2, <1>6, ConcatAt
  <2> QED
    BY <1>9, <2>1, <2>2
<1>11. \A i \in Inos : Retains(u, i) /\ Retains(v, i) => Retains(w, i)
  BY <1>2, <1>6, <1>8, <1>9, RetainsConcat
<1>12. \A i \in Inos : Removes(u, i) /\ Untouched(v, i) => Removes(w, i)
  BY <1>2, <1>6, <1>8, <1>9, RemovesFirst
<1> QED
  BY <1>10, <1>11, <1>12 DEF F, w

---------------------------------------------------------------------------
(* The handlers, one by one.                                               *)

LEMMA DoneFits ==
    ASSUME NEW kinds \in KindsOfInodes, NEW after, DiskOK(disk, kinds), NEW w,
           Ordered(w, kinds, after), Balanced(w),
           \A i \in Inos : after[i] <= handles[i] \/ \E j \in 1 .. Len(w) : w[j][1] = InodeFile(i)
    PROVE  Fits(Done(w), after)
<1>1. "ok" \notin Errors
  BY DEF Errors
<1> QED
  BY <1>1 DEF Fits, Done

LEMMA PanicsFits ==
    ASSUME NEW kinds \in KindsOfInodes, NEW after, DiskOK(disk, kinds), NEW w,
           Ordered(w, kinds, after), ~clean
    PROVE  Fits(Panic(w), after)
<1>1. "panic" \notin Errors
  BY DEF Errors
<1> QED
  BY <1>1 DEF Fits, Panic

LEMMA OldFits ==
    ASSUME NEW kinds \in KindsOfInodes, NEW after, DiskOK(disk, kinds),
           NEW w \in Seq(OldStores(kinds, after)),
           \A i \in Inos : after[i] <= handles[i] \/ \E j \in 1 .. Len(w) : w[j][1] = InodeFile(i)
    PROVE  Fits(Done(w), after)
<1>1. Ordered(w, kinds, after) /\ Balanced(w)
  BY OldOrdered DEF Balanced
<1> QED
  BY <1>1, DoneFits

LEMMA HandlesKept == ASSUME Inv PROVE \A i \in Inos : handles[i] \in Nat /\ handles[i] <= handles[i]
  BY DEF Inv

LEMMA RecordUpdates ==
    ASSUME NEW r \in InodeRecords, NEW k \in Nat
    PROVE  /\ [r EXCEPT !.open_file_handles = k] \in InodeRecords
           /\ [r EXCEPT !.open_file_handles = k].kind = r.kind
           /\ [r EXCEPT !.open_file_handles = k].open_file_handles = k
           /\ [r EXCEPT !.open_file_handles = k].hardlinks = r.hardlinks
           /\ [r EXCEPT !.hardlinks = k] \in InodeRecords
           /\ [r EXCEPT !.hardlinks = k].kind = r.kind
           /\ [r EXCEPT !.hardlinks = k].open_file_handles = r.open_file_handles
           /\ [r EXCEPT !.hardlinks = k].hardlinks = k
           /\ r.open_file_handles \in Nat /\ r.hardlinks \in Nat
  BY DEF InodeRecords

LEMMA LinkUpdates ==
    ASSUME NEW r \in InodeRecords
    PROVE  /\ DecrementLinks(r) \in InodeRecords /\ DecrementLinks(r).kind = r.kind
           /\ DecrementLinks(r).open_file_handles = r.open_file_handles
           /\ IncrementLinks(r) \in InodeRecords /\ IncrementLinks(r).kind = r.kind
           /\ IncrementLinks(r).open_file_handles = r.open_file_handles
<1>1. r.hardlinks \in Nat
  BY DEF InodeRecords
<1> DEFINE dec == IF r.hardlinks = 0 THEN U32Max ELSE r.hardlinks - 1
           inc == (r.hardlinks + 1) % (U32Max + 1)
<1>2. dec \in Nat /\ inc \in Nat
  BY <1>1, BoundsAssumption
<1>3. DecrementLinks(r) = [r EXCEPT !.hardlinks = dec]
  BY DEF DecrementLinks
<1>4. IncrementLinks(r) = [r EXCEPT !.hardlinks = inc]
  BY DEF IncrementLinks
<1> HIDE DEF dec, inc
<1>5. \A k \in Nat : /\ [r EXCEPT !.hardlinks = k] \in InodeRecords
                      /\ [r EXCEPT !.hardlinks = k].kind = r.kind
                      /\ [r EXCEPT !.hardlinks = k].open_file_handles = r.open_file_handles
  BY RecordUpdates
<1> QED
  BY <1>2, <1>3, <1>4, <1>5

(* Without a kill nothing is truncated, and an inode has its content.      *)
LEMMA CleanReads ==
    ASSUME Inv, clean
    PROVE  /\ \A i \in Inos : inode(i) # Torn /\ content(i) # Torn
           /\ \A i \in Inos : inode(i) = Absent <=> content(i) = Absent
           /\ disk[Superblock] # Torn
           /\ \A d \in Inos, n \in Names : ~ReadsTorn(d, n)
<1>1. /\ \A i \in Inos : inode(i) # Torn /\ content(i) # Torn
      /\ \A i \in Inos : inode(i) = Absent <=> content(i) = Absent
      /\ disk[Superblock] # Torn
  BY FilesDistinct DEF Inv, Whole, inode, content
<1>2. PICK kinds \in KindsOfInodes : DiskOK(disk, kinds)
  BY DEF Inv
<1>3. ASSUME NEW d \in Inos, NEW n \in Names PROVE ~ReadsTorn(d, n)
  <2>1. \A i \in Bound(d, n) : i \in Inos
    BY <1>2, BoundRead
  <2> QED
    BY <1>1, <2>1 DEF ReadsTorn
<1> QED
  BY <1>1, <1>3

LEMMA OpenKeeps == ASSUME Inv, Open PROVE Inv' /\ NamesKept
<1>1. PICK i \in Below(ROOT) : inode(i) # Absent /\ Serve(inode(i) = Torn, open(i), Opened(i))
  BY DEF Open
<1>2. PICK kinds \in KindsOfInodes : DiskOK(disk, kinds)
  BY DEF Inv
<1>3. i \in Inos /\ handles \in [Inos -> Nat]
  BY BelowRoot DEF Inv
<1>4. /\ Opened(i) \in [Inos -> Nat] /\ Opened(i)[i] = handles[i] + 1
      /\ \A h \in Inos : h # i => Opened(i)[h] = handles[h]
  BY <1>3 DEF Opened
<1>5. clean => ~(inode(i) = Torn)
  BY <1>3, CleanReads
<1>6. ASSUME ~(inode(i) = Torn) PROVE Fits(open(i), Opened(i))
  <2> DEFINE k == inode(i).open_file_handles + 1
             r == [inode(i) EXCEPT !.open_file_handles = k]
             w == <<<<InodeFile(i), r>>>>
  <2>1. Exists(inode(i))
    BY <1>1, <1>6 DEF Exists
  <2>2. /\ inode(i) \in InodeRecords /\ inode(i).open_file_handles \in Nat
        /\ inode(i).open_file_handles >= handles[i] /\ handles[i] \in Nat
    BY <1>2, <1>3, <2>1, InodeRead
  <2>3. k \in Nat /\ k >= Opened(i)[i]
    BY <1>4, <2>2
  <2> HIDE DEF k
  <2>4. r \in InodeRecords /\ r.kind = inode(i).kind /\ r.open_file_handles >= Opened(i)[i]
    BY <2>2, <2>3, RecordUpdates
  <2> HIDE DEF r
  <2>5. <<InodeFile(i), r>> \in OldStores(kinds, Opened(i))
    BY <1>2, <1>3, <2>1, <2>4, OldInode
  <2>6. w \in Seq(OldStores(kinds, Opened(i))) /\ Len(w) = 1 /\ w[1][1] = InodeFile(i)
    BY <2>5
  <2>7. open(i) = Done(w)
    BY DEF open, r, k
  <2> HIDE DEF w
  <2>8. \A h \in Inos : Opened(i)[h] <= handles[h] \/ \E j \in 1 .. Len(w) : w[j][1] = InodeFile(h)
    BY <1>3, <1>4, <2>6
  <2>9. Fits(Done(w), Opened(i))
    BY <1>2, <2>6, <2>8, OldFits
  <2> QED
    BY <2>7, <2>9
<1> QED
  BY <1>1, <1>4, <1>5, <1>6, ServeKeeps

LEMMA RewriteKeeps == ASSUME Inv, Rewrite PROVE Inv' /\ NamesKept
<1>1. PICK i \in Inos : inode(i) # Absent /\ Serve(inode(i) = Torn, Done(<<<<InodeFile(i), inode(i)>>>>), handles)
  BY DEF Rewrite
<1>2. PICK kinds \in KindsOfInodes : DiskOK(disk, kinds)
  BY DEF Inv
<1>3. handles \in [Inos -> Nat] /\ (clean => ~(inode(i) = Torn))
  BY CleanReads DEF Inv
<1>4. ASSUME ~(inode(i) = Torn) PROVE Fits(Done(<<<<InodeFile(i), inode(i)>>>>), handles)
  <2>1. Exists(inode(i))
    BY <1>1, <1>4 DEF Exists
  <2>2. inode(i) \in InodeRecords /\ inode(i).open_file_handles >= handles[i]
    BY <1>2, <2>1, InodeRead
  <2>3. <<InodeFile(i), inode(i)>> \in OldStores(kinds, handles)
    BY <1>2, <2>1, <2>2, OldInode
  <2>4. <<<<InodeFile(i), inode(i)>>>> \in Seq(OldStores(kinds, handles))
    BY <2>3
  <2> QED
    BY <1>2, <2>4, OldFits, HandlesKept
<1> QED
  BY <1>1, <1>3, <1>4, ServeKeeps

LEMMA ReleaseKeeps == ASSUME Inv, Release PROVE Inv' /\ NamesKept
<1>1. PICK i \in Inos : handles[i] > 0 /\ Serve(inode(i) = Torn, release(i), [handles EXCEPT ![i] = @ - 1])
  BY DEF Release
<1> DEFINE after == [handles EXCEPT ![i] = @ - 1]
<1>2. PICK kinds \in KindsOfInodes : DiskOK(disk, kinds)
  BY DEF Inv
<1>3. handles \in [Inos -> Nat] /\ (clean => ~(inode(i) = Torn))
  BY CleanReads DEF Inv
<1>4. /\ after \in [Inos -> Nat] /\ after[i] = handles[i] - 1 /\ \A h \in Inos : after[h] <= handles[h]
      /\ after[i] \in Nat
  BY <1>1, <1>3
<1> HIDE DEF after
<1>5. ASSUME ~(inode(i) = Torn) PROVE Fits(release(i), after)
  <2>1. CASE inode(i) = Absent
    <3>1. release(i) = Done(<<>>)
      BY <2>1 DEF release
    <3> QED
      BY <1>2, <1>4, <3>1, NothingWritten, DoneFits
  <2>2. CASE inode(i) # Absent
    <3> DEFINE k == IF inode(i).open_file_handles = 0 THEN 0 ELSE inode(i).open_file_handles - 1
               r == [inode(i) EXCEPT !.open_file_handles = k]
    <3>1. Exists(inode(i))
      BY <1>5, <2>2 DEF Exists
    <3>2. /\ inode(i) \in InodeRecords /\ inode(i).open_file_handles \in Nat
          /\ inode(i).open_file_handles >= handles[i] /\ handles[i] \in Nat
      BY <1>2, <1>3, <3>1, InodeRead
    <3>3. k \in Nat /\ k >= after[i]
      BY <1>1, <1>4, <3>2
    <3> HIDE DEF k
    <3>4. r \in InodeRecords /\ r.kind = inode(i).kind /\ r.open_file_handles >= after[i]
      BY <3>2, <3>3, RecordUpdates
    <3>5. release(i) = IF GcPanics(i, r) THEN Panic(Drop(i, r)) ELSE Done(Drop(i, r))
      BY <2>2 DEF release, r, k
    <3> HIDE DEF r
    <3>6. /\ Ordered(Drop(i, r), kinds, after)
          /\ Removes(Drop(i, r), i) \/ Retains(Drop(i, r), i)
          /\ \A h \in Inos : h # i => Retains(Drop(i, r), h)
      BY <1>2, <1>4, <3>1, <3>4, DropFits
    <3>7. Balanced(Drop(i, r))
      BY <3>6 DEF Balanced
    <3>8. Fits(Done(Drop(i, r)), after)
      BY <1>2, <1>4, <3>6, <3>7, DoneFits
    <3>9. GcPanics(i, r) => Fits(Panic(Drop(i, r)), after)
      <4>1. GcPanics(i, r) => ~clean
        BY <2>2, CleanReads DEF GcPanics
      <4> QED
        BY <1>2, <3>6, <4>1, PanicsFits
    <3> QED
      BY <3>5, <3>8, <3>9
  <2> QED
    BY <2>1, <2>2
<1>6. Serve(inode(i) = Torn, release(i), after)
  BY <1>1 DEF after
<1> QED
  BY <1>3, <1>4, <1>5, <1>6, ServeKeeps

LEMMA AppendIsConcat ==
    ASSUME NEW S, NEW u \in Seq(S), NEW x \in S
    PROVE  Append(u, x) = u \o <<x>> /\ <<x>> \in Seq(S) /\ Len(<<x>>) = 1 /\ <<x>>[1] = x
  OBVIOUS

(* The directory of a request that found no truncated file.                *)
LEMMA ParentRead ==
    ASSUME Inv, NEW kinds \in KindsOfInodes, DiskOK(disk, kinds), NEW d \in Directories, NEW n,
           ~ReadsTorn(d, n), NEW after, after[d] = handles[d]
    PROVE  /\ content(d) = Absent => ~clean
           /\ content(d) # Absent => content(d) \in EntriesOf(d, Limit(disk))
           /\ <<InodeFile(d), inode(d)>> \in OldStores(kinds, after)
           /\ \A entries \in EntriesOf(d, Limit(disk)) :
                 <<ContentFile(d), entries>> \in OldStores(kinds, after)
<1>1. /\ d \in Inos /\ Exists(inode(d)) /\ inode(d) \in InodeRecords
      /\ kinds[d] = "Directory" /\ d <= Limit(disk) /\ inode(d).open_file_handles >= after[d]
  BY DirectoryRead
<1>2. content(d) # Torn
  BY DEF ReadsTorn
<1>3. content(d) = Absent => ~clean
  BY <1>1, CleanReads DEF Exists
<1>4. content(d) # Absent => content(d) \in EntriesOf(d, Limit(disk))
  BY <1>1, <1>2, ContentRead DEF Exists, Kinds
<1>5. <<InodeFile(d), inode(d)>> \in OldStores(kinds, after)
  BY <1>1, OldInode
<1>6. \A entries \in EntriesOf(d, Limit(disk)) :
         <<ContentFile(d), entries>> \in OldStores(kinds, after)
  BY <1>1, OldEntries
<1> QED
  BY <1>3, <1>4, <1>5, <1>6

LEMMA LinkKeeps == ASSUME Inv, Link PROVE Inv' /\ NamesKept
<1>1. PICK i \in Inos, d \in Directories, n \in Names :
         /\ Exists(inode(i)) /\ inode(i).kind # "Directory"
         /\ Serve(ReadsTorn(d, n), link(i, d, n), handles)
  BY DEF Link
<1>2. PICK kinds \in KindsOfInodes : DiskOK(disk, kinds)
  BY DEF Inv
<1>3. handles \in [Inos -> Nat] /\ d \in Inos /\ kinds[d] = "Directory"
  BY <1>2, DirectoryRead DEF Inv
<1>4. clean => ~ReadsTorn(d, n)
  BY <1>3, CleanReads
<1>5. ASSUME ~ReadsTorn(d, n) PROVE Fits(link(i, d, n), handles)
  <2>1. /\ content(d) = Absent => ~clean
        /\ content(d) # Absent => content(d) \in EntriesOf(d, Limit(disk))
        /\ <<InodeFile(d), inode(d)>> \in OldStores(kinds, handles)
        /\ \A entries \in EntriesOf(d, Limit(disk)) :
              <<ContentFile(d), entries>> \in OldStores(kinds, handles)
    BY <1>2, <1>5, ParentRead
  <2>2. CASE LookupName(d, n) # {}
    <3>1. link(i, d, n) = Refuse("EEXIST") /\ "EEXIST" \in Errors
      BY <2>2 DEF link, Errors
    <3> QED
      BY <3>1, RefuseFits
  <2>3. CASE LookupName(d, n) = {} /\ content(d) = Absent
    <3> DEFINE w == <<<<InodeFile(d), inode(d)>>>>
    <3>1. link(i, d, n) = Panic(w) /\ w \in Seq(OldStores(kinds, handles))
      BY <2>1, <2>3 DEF link
    <3> HIDE DEF w
    <3>2. Ordered(w, kinds, handles)
      BY <3>1, OldOrdered
    <3> QED
      BY <1>2, <2>1, <2>3, <3>1, <3>2, PanicsFits
  <2>4. CASE LookupName(d, n) = {} /\ content(d) # Absent
    <3> DEFINE a == <<InodeFile(d), inode(d)>>
               b == <<ContentFile(d), Insert(content(d), n, i, inode(i).kind)>>
               c == <<InodeFile(i), IncrementLinks(inode(i))>>
               w == <<a, b, c>>
    <3>1. /\ inode(i) \in InodeRecords /\ inode(i).kind = kinds[i] /\ i <= Limit(disk)
          /\ inode(i).open_file_handles >= handles[i]
      BY <1>1, <1>2, InodeRead
    <3>2. i \in 1 .. Limit(disk) /\ inode(i).kind \in Kinds /\ i # d
      <4>1. i # d
        BY <1>1, <1>3, <3>1
      <4>2. inode(i).kind \in Kinds
        BY <3>1 DEF InodeRecords
      <4> QED
        BY <1>2, <3>1, <4>1, <4>2, LimitIsIno, BoundsAssumption DEF Inos, ROOT
    <3>3. Insert(content(d), n, i, inode(i).kind) \in EntriesOf(d, Limit(disk))
      BY <2>1, <2>4, <3>2, InsertEntries
    <3>4. b \in OldStores(kinds, handles)
      BY <2>1, <3>3
    <3>5. c \in OldStores(kinds, handles)
      <4>1. /\ IncrementLinks(inode(i)) \in InodeRecords /\ IncrementLinks(inode(i)).kind = inode(i).kind
            /\ IncrementLinks(inode(i)).open_file_handles >= handles[i]
        BY <3>1, LinkUpdates
      <4> QED
        BY <1>1, <1>2, <4>1, OldInode
    <3>6. link(i, d, n) = Done(w)
      BY <2>4 DEF link
    <3>7. a \in OldStores(kinds, handles)
      BY <2>1
    <3> HIDE DEF a, b, c
    <3>8. w \in Seq(OldStores(kinds, handles))
      BY <3>4, <3>5, <3>7
    <3> HIDE DEF w
    <3> QED
      BY <1>2, <3>6, <3>8, OldFits, HandlesKept
  <2> QED
    BY <2>2, <2>3, <2>4
<1> QED
  BY <1>1, <1>3, <1>4, <1>5, ServeKeeps

(* unlink and rmdir: the inode that goes is not the directory it leaves.   *)
LEMMA UnnameFits ==
    ASSUME Inv, NEW d \in Directories, NEW n \in Names, NEW i \in LookupName(d, n),
           ~ReadsTorn(d, n), NEW r \in InodeRecords, r.kind = inode(i).kind,
           r.open_file_handles = inode(i).open_file_handles
    PROVE  Fits(Unname(d, n, i, r), handles)
<1>1. PICK kinds \in KindsOfInodes : DiskOK(disk, kinds)
  BY DEF Inv
<1>2. d \in Inos /\ Exists(inode(d)) /\ kinds[d] = "Directory" /\ handles \in [Inos -> Nat]
  BY <1>1, DirectoryRead DEF Inv
<1>3. i \in Inos /\ Exists(inode(i)) /\ i # d /\ Exists(content(d))
  BY <1>1, <1>2, BoundRead DEF LookupName
<1>4. inode(i).open_file_handles >= handles[i] /\ handles[i] \in Nat
  BY <1>1, <1>2, <1>3, InodeRead
<1>5. /\ content(d) # Absent => content(d) \in EntriesOf(d, Limit(disk))
      /\ <<InodeFile(d), inode(d)>> \in OldStores(kinds, handles)
      /\ \A entries \in EntriesOf(d, Limit(disk)) :
            <<ContentFile(d), entries>> \in OldStores(kinds, handles)
  BY <1>1, ParentRead
<1> DEFINE F == Files \X AllContents
           a == <<InodeFile(d), inode(d)>>
           drop == Drop(i, r)
           x == <<ContentFile(d), Remove(content(d), n)>>
           u == <<a>> \o drop
           w == u \o <<x>>
<1>6. a \in OldStores(kinds, handles) /\ x \in OldStores(kinds, handles) /\ x[1] = ContentFile(d)
  BY <1>3, <1>5, RemoveEntries DEF Exists
<1>7. /\ Ordered(drop, kinds, handles) /\ drop \in Seq(F)
      /\ Removes(drop, i) \/ Retains(drop, i)
      /\ \A h \in Inos : h # i => Retains(drop, h)
  BY <1>1, <1>3, <1>4, DropFits
<1>8. Unname(d, n, i, r) = IF GcPanics(i, r) THEN Panic(u) ELSE Done(Append(u, x))
  BY <1>3 DEF Unname, Entering, Exists
<1> HIDE DEF a, x, drop
<1>9. <<a>> \in Seq(OldStores(kinds, handles)) /\ <<x>> \in Seq(OldStores(kinds, handles))
  BY <1>6
<1>10. /\ Ordered(<<a>>, kinds, handles) /\ <<a>> \in Seq(F) /\ \A h \in Inos : Retains(<<a>>, h)
       /\ Ordered(<<x>>, kinds, handles) /\ <<x>> \in Seq(F) /\ \A h \in Inos : Retains(<<x>>, h)
  BY <1>9, OldOrdered
<1>11. Untouched(<<x>>, i)
  BY <1>3, <1>6, FilesDistinct DEF Untouched, FilesOf
<1> HIDE DEF F
<1>12. u \in Seq(F) /\ Ordered(u, kinds, handles)
  BY <1>7, <1>10, OrderedConcat, ConcatAt
<1>13. /\ Removes(u, i) \/ Retains(u, i)
       /\ \A h \in Inos : h # i => Retains(u, h)
  BY <1>3, <1>7, <1>10, RetainsConcat, RemovesLast
<1> HIDE DEF u
<1>14. Append(u, x) = w
  <2>1. x \in F
    BY <1>6, StoresWhat DEF OldStores, F
  <2> QED
    BY <1>12, <2>1, AppendIsConcat
<1>15. Ordered(w, kinds, handles)
  BY <1>10, <1>12, OrderedConcat
<1>16. Balanced(w)
  <2>1. \A h \in Inos : Retains(u, h) => Retains(w, h)
    BY <1>10, <1>12, RetainsConcat
  <2>2. Removes(u, i) => Removes(w, i)
    BY <1>10, <1>11, <1>12, RemovesFirst
  <2> HIDE DEF w
  <2> QED
    BY <1>3, <1>13, <2>1, <2>2 DEF Balanced
<1> HIDE DEF w
<1>17. Fits(Done(w), handles)
  BY <1>1, <1>15, <1>16, DoneFits, HandlesKept
<1>18. GcPanics(i, r) => ~clean
  BY <1>3, CleanReads DEF GcPanics, Exists
<1>19. GcPanics(i, r) => Fits(Panic(u), handles)
  BY <1>1, <1>12, <1>18, PanicsFits
<1> QED
  BY <1>8, <1>14, <1>17, <1>19

LEMMA UnlinkKeeps == ASSUME Inv, Unlink PROVE Inv' /\ NamesKept
<1>0. PICK d \in Directories, n \in Names : \E i \in LookupName(d, n) :
         Serve(ReadsTorn(d, n), unlink(d, n, i), handles)
  BY DEF Unlink
<1>1. PICK i \in LookupName(d, n) : Serve(ReadsTorn(d, n), unlink(d, n, i), handles)
  BY <1>0
<1>2. PICK kinds \in KindsOfInodes : DiskOK(disk, kinds)
  BY DEF Inv
<1>3. handles \in [Inos -> Nat] /\ d \in Inos
  BY <1>2, DirectoryRead DEF Inv
<1>4. clean => ~ReadsTorn(d, n)
  BY <1>3, CleanReads
<1>5. inode(i) \in InodeRecords
  BY <1>2, <1>3, BoundRead, InodeRead DEF LookupName
<1>6. ASSUME ~ReadsTorn(d, n) PROVE Fits(unlink(d, n, i), handles)
  BY <1>5, <1>6, LinkUpdates, UnnameFits DEF unlink
<1> QED
  BY <1>1, <1>3, <1>4, <1>6, ServeKeeps

LEMMA RmdirKeeps == ASSUME Inv, Rmdir PROVE Inv' /\ NamesKept
<1>0. PICK d \in Directories, n \in Names : \E i \in LookupName(d, n) :
         inode(i).kind = "Directory" /\ Serve(ReadsTorn(d, n), rmdir(d, n, i), handles)
  BY DEF Rmdir
<1>1. PICK i \in LookupName(d, n) : inode(i).kind = "Directory" /\ Serve(ReadsTorn(d, n), rmdir(d, n, i), handles)
  BY <1>0
<1>2. PICK kinds \in KindsOfInodes : DiskOK(disk, kinds)
  BY DEF Inv
<1>3. handles \in [Inos -> Nat] /\ d \in Inos
  BY <1>2, DirectoryRead DEF Inv
<1>4. clean => ~ReadsTorn(d, n)
  BY <1>3, CleanReads
<1>5. i \in Inos /\ Exists(inode(i))
  BY <1>2, <1>3, BoundRead DEF LookupName
<1>6. inode(i) \in InodeRecords /\ kinds[i] = "Directory"
  BY <1>1, <1>2, <1>5, InodeRead
<1>7. ASSUME ~ReadsTorn(d, n) PROVE Fits(rmdir(d, n, i), handles)
  <2>1. CASE ~IsDirectoryContent(content(i))
    <3>1. rmdir(d, n, i) = Panic(<<>>)
      BY <2>1 DEF rmdir
    <3>2. ASSUME clean PROVE FALSE
      <4>1. Exists(content(i))
        BY <1>5, <3>2, CleanReads DEF Exists
      <4> QED
        BY <1>2, <1>5, <1>6, <2>1, <4>1, ContentRead DEF Kinds
    <3> QED
      BY <3>1, <3>2, PanicFits
  <2>2. CASE IsDirectoryContent(content(i)) /\ Cardinality(DOMAIN content(i)) > 2
    <3>1. rmdir(d, n, i) = Refuse("ENOTEMPTY") /\ "ENOTEMPTY" \in Errors
      BY <2>2 DEF rmdir, Errors
    <3> QED
      BY <3>1, RefuseFits
  <2>3. CASE IsDirectoryContent(content(i)) /\ ~(Cardinality(DOMAIN content(i)) > 2)
    <3> DEFINE r == [inode(i) EXCEPT !.hardlinks = 0]
    <3>1. rmdir(d, n, i) = Unname(d, n, i, r)
      BY <2>3 DEF rmdir
    <3>2. r \in InodeRecords /\ r.kind = inode(i).kind /\ r.open_file_handles = inode(i).open_file_handles
      BY <1>6, RecordUpdates
    <3> HIDE DEF r
    <3> QED
      BY <1>7, <3>1, <3>2, UnnameFits
  <2> QED
    BY <2>1, <2>2, <2>3
<1> QED
  BY <1>1, <1>3, <1>4, <1>7, ServeKeeps

(* Writes to inodes that exist, the superblock, and the files of the new   *)
(* inode, both or neither, among others.                                   *)
LEMMA NodeOrdered ==
    ASSUME NEW kinds, NEW after, disk[Superblock] # Torn, NextInode \in Inos,
           NEW u \in Seq(OldStores(kinds, after)), NEW v \in Seq(NewStores(kinds, after)),
           \/ Untouched(v, NextInode)
           \/ \A f \in FilesOf(NextInode) : \E j \in 1 .. Len(v) : v[j][1] = f
    PROVE  Ordered(Allocating(u, v), kinds, after) /\ Balanced(Allocating(u, v))
<1>1. Ordered(u, kinds, after) /\ \A i \in Inos : Retains(u, i)
  BY OldOrdered
<1>2. ASSUME NEW i \in Inos PROVE Retains(v, i)
  <2>1. CASE i # NextInode
    BY <2>1, NewRetains
  <2>2. CASE i = NextInode /\ Untouched(v, NextInode)
    BY <2>2 DEF Untouched, Retains
  <2>3. CASE i = NextInode /\ \A f \in FilesOf(NextInode) : \E j \in 1 .. Len(v) : v[j][1] = f
    BY <2>3, NewRetains
  <2> QED
    BY <2>1, <2>2, <2>3
<1>3. /\ Ordered(Allocating(u, v), kinds, after)
      /\ \A i \in Inos : Retains(u, i) /\ Retains(v, i) => Retains(Allocating(u, v), i)
  BY <1>1, AllocFits
<1> QED
  BY <1>1, <1>2, <1>3 DEF Balanced

(* mknod, create and mkdir.                                                *)
LEMMA EnterNodeFits ==
    ASSUME Inv, NEW d \in Directories, NEW n \in Names, ~AllocatesTorn(d, n), NextInode \in Inos,
           NEW kind \in Kinds, NEW r \in InodeRecords, r.kind = kind,
           NEW after, r.open_file_handles >= after[NextInode],
           \A h \in Inos : h # NextInode => after[h] = handles[h],
           NEW c, \/ kind = "File" /\ c = Data
                  \/ kind = "Directory" /\ c \in EntriesOf(NextInode, NextInode)
    PROVE  Fits(Entering(d,
                  <<<<InodeFile(d), inode(d)>>, <<Superblock, NextInode>>,
                    <<InodeFile(NextInode), r>>, <<ContentFile(NextInode), c>>>>,
                  Insert(content(d), n, NextInode, kind)), after)
<1>1. disk[Superblock] # Torn /\ ~ReadsTorn(d, n)
  BY DEF AllocatesTorn
<1>2. PICK kinds \in KindsOfInodes : DiskOK(disk, kinds) /\ kinds[NextInode] = kind
  BY <1>1, FreshNumber
<1>3. /\ Limit(disk) < NextInode /\ NextInode \in Nat /\ Limit(disk) \in Nat
      /\ NextInode <= NextInode /\ NextInode \in 1 .. NextInode
  BY <1>1, FreshNumber, BoundsAssumption DEF Inos, ROOT
<1>4. d \in Inos /\ d <= Limit(disk) /\ kinds[d] = "Directory" /\ Exists(inode(d))
  BY <1>2, DirectoryRead
<1>5. d # NextInode /\ d <= NextInode /\ inode(d) # Absent
  BY <1>3, <1>4, BoundsAssumption DEF Inos, ROOT, Exists
<1>6. after[d] = handles[d]
  BY <1>4, <1>5
<1>7. /\ content(d) = Absent => ~clean
      /\ content(d) # Absent => content(d) \in EntriesOf(d, Limit(disk))
      /\ <<InodeFile(d), inode(d)>> \in OldStores(kinds, after)
  BY <1>1, <1>2, <1>6, ParentRead
<1> DEFINE a == <<InodeFile(d), inode(d)>>
           sb == <<Superblock, NextInode>>
           b == <<InodeFile(NextInode), r>>
           e == <<ContentFile(NextInode), c>>
           x == <<ContentFile(d), Insert(content(d), n, NextInode, kind)>>
<1>8. b \in NewStores(kinds, after)
  BY <1>2, NewInode
<1>9. e \in NewStores(kinds, after)
  BY <1>2, <1>3, NewData, NewEntries
<1>10. ASSUME content(d) # Absent PROVE x \in NewStores(kinds, after)
  <2>1. content(d) \in EntriesOf(d, NextInode)
    BY <1>3, <1>7, <1>10, EntriesGrow
  <2>2. Insert(content(d), n, NextInode, kind) \in EntriesOf(d, NextInode)
    BY <1>3, <1>5, <2>1, InsertEntries
  <2> QED
    BY <1>4, <1>5, <2>2, NewEntries
<1>11. Entering(d, <<a, sb, b, e>>, Insert(content(d), n, NextInode, kind))
         = IF content(d) = Absent THEN Panic(<<a, sb, b, e>>) ELSE Done(Append(<<a, sb, b, e>>, x))
  BY DEF Entering
<1>12. b[1] = InodeFile(NextInode) /\ e[1] = ContentFile(NextInode) /\ a \in OldStores(kinds, after)
  BY <1>7
<1> HIDE DEF a, b, e, x, sb
<1>13. <<a>> \in Seq(OldStores(kinds, after))
  BY <1>12
<1>14. ASSUME content(d) = Absent PROVE Fits(Panic(<<a, sb, b, e>>), after)
  <2> DEFINE v == <<b, e>>
  <2>1. v \in Seq(NewStores(kinds, after)) /\ Len(v) = 2 /\ v[1] = b /\ v[2] = e
    BY <1>8, <1>9
  <2> HIDE DEF v
  <2>2. \A f \in FilesOf(NextInode) : \E j \in 1 .. Len(v) : v[j][1] = f
    BY <1>12, <2>1 DEF FilesOf
  <2>3. Ordered(Allocating(<<a>>, v), kinds, after)
    BY <1>1, <1>13, <2>1, <2>2, NodeOrdered
  <2>4. <<a, sb, b, e>> = Allocating(<<a>>, v)
    <3>1. <<a, sb, b, e>> = (<<a>> \o <<sb>>) \o <<b, e>>
      OBVIOUS
    <3>2. Allocating(<<a>>, v) = (<<a>> \o <<sb>>) \o <<b, e>>
      BY DEF Allocating, v, sb
    <3> QED
      BY <3>1, <3>2
  <2>5. Ordered(<<a, sb, b, e>>, kinds, after)
    BY <2>3, <2>4
  <2> QED
    BY <1>2, <1>7, <1>14, <2>5, PanicsFits
<1>15. ASSUME content(d) # Absent PROVE Fits(Done(Append(<<a, sb, b, e>>, x)), after)
  <2> DEFINE v == <<b, e, x>>
  <2>1. v \in Seq(NewStores(kinds, after)) /\ Len(v) = 3 /\ v[1] = b /\ v[2] = e
    BY <1>8, <1>9, <1>10, <1>15
  <2> HIDE DEF v
  <2>2. \A f \in FilesOf(NextInode) : \E j \in 1 .. Len(v) : v[j][1] = f
    BY <1>12, <2>1 DEF FilesOf
  <2> DEFINE w == Append(<<a, sb, b, e>>, x)
  <2>3. Ordered(Allocating(<<a>>, v), kinds, after) /\ Balanced(Allocating(<<a>>, v))
    BY <1>1, <1>13, <2>1, <2>2, NodeOrdered
  <2>4. w = Allocating(<<a>>, v)
    <3>1. Append(<<a, sb, b, e>>, x) = (<<a>> \o <<sb>>) \o <<b, e, x>>
      OBVIOUS
    <3>2. Allocating(<<a>>, v) = (<<a>> \o <<sb>>) \o <<b, e, x>>
      BY DEF Allocating, v, sb
    <3> QED
      BY <3>1, <3>2
  <2>5. Len(w) = 5 /\ w[3] = b
    OBVIOUS
  <2> HIDE DEF w
  <2>6. Ordered(w, kinds, after) /\ Balanced(w) /\ 3 \in 1 .. Len(w)
    BY <2>3, <2>4, <2>5
  <2>7. ASSUME NEW h \in Inos
        PROVE  after[h] <= handles[h] \/ \E j \in 1 .. Len(w) : w[j][1] = InodeFile(h)
    <3>1. CASE h = NextInode
      BY <1>12, <2>5, <2>6, <3>1
    <3>2. CASE h # NextInode
      BY <3>2, HandlesKept
    <3> QED
      BY <3>1, <3>2
  <2>8. kinds \in KindsOfInodes /\ DiskOK(disk, kinds)
    BY <1>2
  <2>9. Fits(Done(w), after)
    BY <2>6, <2>7, <2>8, DoneFits
  <2> QED
    BY <2>9 DEF w
<1>16. Fits(Entering(d, <<a, sb, b, e>>, Insert(content(d), n, NextInode, kind)), after)
  BY <1>11, <1>14, <1>15
<1> QED
  BY <1>16 DEF a, b, e, sb

LEMMA AllocatedIno == ASSUME Inv, CanAllocate, disk[Superblock] # Torn PROVE NextInode \in Inos
<1>1. PICK kinds \in KindsOfInodes : DiskOK(disk, kinds)
  BY DEF Inv
<1>2. NextInode = Limit(disk) + 1 /\ Limit(disk) \in Inos
  BY <1>1, LimitIsIno, LimitIsLast
<1>3. NextInode <= MaxIno
  <2>1. NextInode <= IF clean THEN MaxIno ELSE KillIno
    BY DEF CanAllocate
  <2>2. NextInode \in Nat /\ MaxIno \in Nat /\ KillIno \in Nat /\ KillIno <= MaxIno
    BY <1>2, BoundsAssumption DEF Inos, ROOT
  <2> QED
    BY <2>1, <2>2
<1> QED
  BY <1>2, <1>3, BoundsAssumption DEF Inos, ROOT

LEMMA AllocatorReads ==
    ASSUME Inv, NEW d \in Directories, NEW n \in Names
    PROVE  clean => ~AllocatesTorn(d, n)
<1>1. PICK kinds \in KindsOfInodes : DiskOK(disk, kinds)
  BY DEF Inv
<1>2. d \in Inos
  BY <1>1, DirectoryRead
<1> QED
  BY <1>2, CleanReads DEF AllocatesTorn

LEMMA OpenedHandles ==
    ASSUME Inv, NEW i
    PROVE  /\ handles \in [Inos -> Nat] /\ Opened(i) \in [Inos -> Nat]
           /\ \A h \in Inos : h # i => Opened(i)[h] = handles[h]
           /\ i \in Inos => Opened(i)[i] = handles[i] + 1
<1>1. handles \in [Inos -> Nat]
  BY DEF Inv
<1>2. i \in Inos => handles[i] + 1 \in Nat
  BY <1>1
<1> QED
  BY <1>1, <1>2 DEF Opened

LEMMA NewAttrs ==
    ASSUME NEW kind \in Kinds, NEW links \in Nat, NEW count \in Nat
    PROVE  /\ Attrs(kind, links, count) \in InodeRecords
           /\ Attrs(kind, links, count).kind = kind
           /\ Attrs(kind, links, count).open_file_handles = count
  BY DEF Attrs, InodeRecords

LEMMA MakeNodeFits ==
    ASSUME Inv, NEW d \in Directories, NEW n \in Names, ~AllocatesTorn(d, n), NextInode \in Inos,
           NEW count \in Nat, NEW after, after[NextInode] = count,
           \A h \in Inos : h # NextInode => after[h] = handles[h]
    PROVE  Fits(MakeNode(d, n, count), after)
<1>1. CASE LookupName(d, n) # {}
  <2>1. MakeNode(d, n, count) = Refuse("EEXIST") /\ "EEXIST" \in Errors
    BY <1>1 DEF MakeNode, Errors
  <2> QED
    BY <2>1, RefuseFits
<1>2. CASE LookupName(d, n) = {}
  <2> DEFINE r == Attrs("File", 1, count)
  <2>1. "File" \in Kinds /\ r \in InodeRecords /\ r.kind = "File" /\ r.open_file_handles >= after[NextInode]
    BY NewAttrs DEF Kinds
  <2>2. MakeNode(d, n, count) =
          Entering(d, <<<<InodeFile(d), inode(d)>>, <<Superblock, NextInode>>,
                        <<InodeFile(NextInode), r>>, <<ContentFile(NextInode), Data>>>>,
                   Insert(content(d), n, NextInode, "File"))
    BY <1>2 DEF MakeNode
  <2> HIDE DEF r
  <2>3. Fits(Entering(d, <<<<InodeFile(d), inode(d)>>, <<Superblock, NextInode>>,
                           <<InodeFile(NextInode), r>>, <<ContentFile(NextInode), Data>>>>,
                      Insert(content(d), n, NextInode, "File")), after)
    BY <2>1, EnterNodeFits
  <2> QED
    BY <2>2, <2>3
<1> QED
  BY <1>1, <1>2

LEMMA MknodKeeps == ASSUME Inv, Mknod PROVE Inv' /\ NamesKept
<1>1. PICK d \in Directories, n \in Names :
         CanAllocate /\ Serve(AllocatesTorn(d, n), mknod(d, n), handles)
  BY DEF Mknod
<1>2. handles \in [Inos -> Nat] /\ (clean => ~AllocatesTorn(d, n))
  BY AllocatorReads DEF Inv
<1>3. ASSUME ~AllocatesTorn(d, n) PROVE Fits(mknod(d, n), handles)
  <2>1. disk[Superblock] # Torn
    BY <1>3 DEF AllocatesTorn
  <2>2. NextInode \in Inos
    BY <1>1, <2>1, AllocatedIno
  <2>3. handles[NextInode] = 0
    BY <2>1, <2>2, FreshNumber DEF Kinds
  <2> QED
    BY <1>3, <2>2, <2>3, MakeNodeFits DEF mknod
<1> QED
  BY <1>1, <1>2, <1>3, ServeKeeps

LEMMA CreateKeeps == ASSUME Inv, Create PROVE Inv' /\ NamesKept
<1>1. PICK d \in Directories, n \in Names :
         CanAllocate /\ Serve(AllocatesTorn(d, n), create(d, n), Opened(NextInode))
  BY DEF Create
<1>2. Opened(NextInode) \in [Inos -> Nat] /\ (clean => ~AllocatesTorn(d, n))
  BY AllocatorReads, OpenedHandles
<1>3. ASSUME ~AllocatesTorn(d, n) PROVE Fits(create(d, n), Opened(NextInode))
  <2>1. disk[Superblock] # Torn
    BY <1>3 DEF AllocatesTorn
  <2>2. NextInode \in Inos
    BY <1>1, <2>1, AllocatedIno
  <2>3. handles[NextInode] = 0
    BY <2>1, <2>2, FreshNumber DEF Kinds
  <2>4. /\ Opened(NextInode)[NextInode] = 1
        /\ \A h \in Inos : h # NextInode => Opened(NextInode)[h] = handles[h]
    BY <2>2, <2>3, OpenedHandles
  <2> QED
    BY <1>3, <2>2, <2>4, MakeNodeFits DEF create
<1> QED
  BY <1>1, <1>2, <1>3, ServeKeeps

LEMMA MkdirKeeps == ASSUME Inv, Mkdir PROVE Inv' /\ NamesKept
<1>1. PICK d \in Directories, n \in Names :
         CanAllocate /\ Serve(AllocatesTorn(d, n), mkdir(d, n), handles)
  BY DEF Mkdir
<1>2. handles \in [Inos -> Nat] /\ (clean => ~AllocatesTorn(d, n))
  BY AllocatorReads DEF Inv
<1>3. ASSUME ~AllocatesTorn(d, n) PROVE Fits(mkdir(d, n), handles)
  <2>1. disk[Superblock] # Torn
    BY <1>3 DEF AllocatesTorn
  <2>2. NextInode \in Inos
    BY <1>1, <2>1, AllocatedIno
  <2>3. handles[NextInode] = 0 /\ Limit(disk) < NextInode /\ NextInode \in Nat
    BY <2>1, <2>2, FreshNumber DEF Kinds
  <2>4. CASE LookupName(d, n) # {}
    <3>1. mkdir(d, n) = Refuse("EEXIST") /\ "EEXIST" \in Errors
      BY <2>4 DEF mkdir, Errors
    <3> QED
      BY <3>1, RefuseFits
  <2>5. CASE LookupName(d, n) = {}
    <3> DEFINE r == Attrs("Directory", 2, 0)
               c == [m \in {".", ".."} |-> <<IF m = "." THEN NextInode ELSE d, "Directory">>]
    <3>1. PICK kinds \in KindsOfInodes : DiskOK(disk, kinds)
      BY DEF Inv
    <3>2. d \in 1 .. NextInode /\ NextInode \in 1 .. NextInode
      BY <2>2, <2>3, <3>1, DirectoryRead, LimitIsIno, BoundsAssumption DEF Inos, ROOT
    <3>3. c \in EntriesOf(NextInode, NextInode)
      <4>1. c \in [{".", ".."} -> (1 .. NextInode) \X Kinds]
        BY <3>2 DEF Kinds
      <4>2. {".", ".."} \in SUBSET (Names \cup {".", ".."}) /\ Names \cap {".", ".."} = {}
        BY NamesAssumption
      <4>3. c \in EntriesTo(NextInode)
        BY <4>1, <4>2 DEF EntriesTo
      <4>4. Names \cap DOMAIN c = {} /\ Dotted(NextInode, DOMAIN c)
        BY <4>1, <4>2 DEF Dotted
      <4> HIDE DEF c
      <4> QED
        BY <4>3, <4>4 DEF EntriesOf
    <3>4. "Directory" \in Kinds /\ r \in InodeRecords /\ r.kind = "Directory" /\ r.open_file_handles >= handles[NextInode]
      BY <2>3, NewAttrs DEF Kinds
    <3>5. mkdir(d, n) =
            Entering(d, <<<<InodeFile(d), inode(d)>>, <<Superblock, NextInode>>,
                          <<InodeFile(NextInode), r>>, <<ContentFile(NextInode), c>>>>,
                     Insert(content(d), n, NextInode, "Directory"))
      BY <2>5 DEF mkdir
    <3> HIDE DEF r, c
    <3>6. Fits(Entering(d, <<<<InodeFile(d), inode(d)>>, <<Superblock, NextInode>>,
                             <<InodeFile(NextInode), r>>, <<ContentFile(NextInode), c>>>>,
                        Insert(content(d), n, NextInode, "Directory")), handles)
      BY <1>3, <2>2, <3>3, <3>4, EnterNodeFits
    <3> QED
      BY <3>5, <3>6
  <2> QED
    BY <2>4, <2>5
<1> QED
  BY <1>1, <1>2, <1>3, ServeKeeps

LEMMA SymlinkFits ==
    ASSUME Inv, NEW d \in Directories, NEW n \in Names, ~AllocatesTorn(d, n), NextInode \in Inos
    PROVE  Fits(symlink(d, n), handles)
<1>1. disk[Superblock] # Torn /\ ~ReadsTorn(d, n) /\ "File" \in Kinds
  BY DEF AllocatesTorn, Kinds
<1>2. PICK kinds \in KindsOfInodes : DiskOK(disk, kinds) /\ kinds[NextInode] = "File"
  BY <1>1, FreshNumber
<1>3. /\ Limit(disk) < NextInode /\ NextInode \in Nat /\ Limit(disk) \in Nat
      /\ NextInode \in 1 .. NextInode /\ handles[NextInode] = 0
  BY <1>1, FreshNumber, BoundsAssumption DEF Inos, ROOT
<1>4. d \in Inos /\ d <= Limit(disk) /\ kinds[d] = "Directory" /\ Exists(inode(d))
  BY <1>2, DirectoryRead
<1>5. d # NextInode /\ d <= NextInode /\ inode(d) # Absent
  BY <1>3, <1>4, BoundsAssumption DEF Inos, ROOT, Exists
<1>6. /\ content(d) = Absent => ~clean
      /\ content(d) # Absent => content(d) \in EntriesOf(d, Limit(disk))
      /\ <<InodeFile(d), inode(d)>> \in OldStores(kinds, handles)
  BY <1>1, <1>2, ParentRead
<1> DEFINE a == <<InodeFile(d), inode(d)>>
           sb == <<Superblock, NextInode>>
           x == <<ContentFile(d), Insert(content(d), n, NextInode, "File")>>
           b == <<InodeFile(NextInode), Attrs("File", 1, 0)>>
           e == <<ContentFile(NextInode), Data>>
<1>7. b \in NewStores(kinds, handles)
  <2>1. /\ Attrs("File", 1, 0) \in InodeRecords /\ Attrs("File", 1, 0).kind = kinds[NextInode]
        /\ Attrs("File", 1, 0).open_file_handles >= handles[NextInode]
    BY <1>1, <1>2, <1>3, NewAttrs
  <2> QED
    BY <2>1, NewInode
<1>8. e \in NewStores(kinds, handles)
  BY <1>2, NewData
<1>9. ASSUME content(d) # Absent PROVE x \in NewStores(kinds, handles)
  <2>1. content(d) \in EntriesOf(d, NextInode)
    BY <1>3, <1>6, <1>9, EntriesGrow
  <2>2. Insert(content(d), n, NextInode, "File") \in EntriesOf(d, NextInode)
    BY <1>1, <1>3, <1>5, <2>1, InsertEntries
  <2> QED
    BY <1>4, <1>5, <2>2, NewEntries
<1>10. /\ LookupName(d, n) # {} => symlink(d, n) = [reply |-> "EEXIST", writes |-> <<a, sb>>]
       /\ LookupName(d, n) = {} /\ content(d) = Absent => symlink(d, n) = Panic(<<a, sb>>)
       /\ LookupName(d, n) = {} /\ content(d) # Absent => symlink(d, n) = Done(<<a, sb>> \o <<x, b, e>>)
  BY DEF symlink
<1>11. /\ b[1] = InodeFile(NextInode) /\ e[1] = ContentFile(NextInode) /\ a \in OldStores(kinds, handles)
       /\ a[1] = InodeFile(d) /\ sb[1] = Superblock
  BY <1>6
<1> HIDE DEF a, b, e, x, sb
<1>12. <<a>> \in Seq(OldStores(kinds, handles))
  BY <1>11
<1> DEFINE w == <<a, sb>>
<1>13. Len(w) = 2 /\ w[1] = a /\ w[2] = sb
  OBVIOUS
<1>14. Ordered(w, kinds, handles) /\ Balanced(w)
  <2> DEFINE v == <<>>
  <2>1. v \in Seq(NewStores(kinds, handles)) /\ Len(v) = 0
    OBVIOUS
  <2> HIDE DEF v
  <2>2. Untouched(v, NextInode)
    BY <2>1 DEF Untouched
  <2>3. Ordered(Allocating(<<a>>, v), kinds, handles) /\ Balanced(Allocating(<<a>>, v))
    BY <1>1, <1>12, <2>1, <2>2, NodeOrdered
  <2>4. w = Allocating(<<a>>, v)
    <3> DEFINE t == <<a>> \o <<sb>>
    <3>1. t \in Seq({a, sb}) /\ Len(t) = 2 /\ t[1] = a /\ t[2] = sb
      OBVIOUS
    <3>2. w \in Seq({a, sb})
      OBVIOUS
    <3> HIDE DEF t, w
    <3>3. t = w
      BY <1>13, <3>1, <3>2
    <3>4. t \o <<>> = t
      BY <3>1, ConcatNothing
    <3>5. Allocating(<<a>>, v) = t \o <<>>
      BY DEF Allocating, v, t, sb
    <3> QED
      BY <3>3, <3>4, <3>5
  <2> QED
    BY <2>3, <2>4
<1>15. CASE LookupName(d, n) # {}
  <2> DEFINE outcome == [reply |-> "EEXIST", writes |-> w]
  <2>1. outcome.reply = "EEXIST" /\ outcome.writes = w
    OBVIOUS
  <2> HIDE DEF w
  <2>2. \A j \in 1 .. Len(w), i \in Inos : w[j][1] # ContentFile(i)
    BY <1>11, <1>13, FilesDistinct
  <2>3. "EEXIST" \in Errors
    BY DEF Errors
  <2> HIDE DEF outcome
  <2>4. Fits(outcome, handles)
    BY <1>2, <1>14, <2>1, <2>2, <2>3 DEF Fits
  <2> QED
    BY <1>10, <1>15, <2>4 DEF outcome, w
<1>16. CASE LookupName(d, n) = {} /\ content(d) = Absent
  <2> HIDE DEF w
  <2>1. Fits(Panic(w), handles)
    BY <1>2, <1>6, <1>14, <1>16, PanicsFits
  <2> QED
    BY <1>10, <1>16, <2>1 DEF w
<1>17. CASE LookupName(d, n) = {} /\ content(d) # Absent
  <2> DEFINE v == <<x, b, e>>
             y == <<a, sb>> \o <<x, b, e>>
  <2>1. v \in Seq(NewStores(kinds, handles)) /\ Len(v) = 3 /\ v[2] = b /\ v[3] = e
    BY <1>7, <1>8, <1>9, <1>17
  <2>2. y = Allocating(<<a>>, v)
    <3>1. <<a, sb>> \o <<x, b, e>> = (<<a>> \o <<sb>>) \o <<x, b, e>>
      OBVIOUS
    <3>2. Allocating(<<a>>, v) = (<<a>> \o <<sb>>) \o <<x, b, e>>
      BY DEF Allocating, v, sb
    <3> QED
      BY <3>1, <3>2
  <2> HIDE DEF v
  <2>3. \A f \in FilesOf(NextInode) : \E j \in 1 .. Len(v) : v[j][1] = f
    BY <1>11, <2>1 DEF FilesOf
  <2>4. Ordered(Allocating(<<a>>, v), kinds, handles) /\ Balanced(Allocating(<<a>>, v))
    BY <1>1, <1>12, <2>1, <2>3, NodeOrdered
  <2> HIDE DEF y
  <2>5. Fits(Done(y), handles)
    BY <1>2, <2>2, <2>4, DoneFits, HandlesKept
  <2> QED
    BY <1>10, <1>17, <2>5 DEF y
<1> QED
  BY <1>15, <1>16, <1>17

LEMMA SymlinkKeeps == ASSUME Inv, Symlink PROVE Inv' /\ NamesKept
<1>1. PICK d \in Directories, n \in Names :
         CanAllocate /\ Serve(AllocatesTorn(d, n), symlink(d, n), handles)
  BY DEF Symlink
<1>2. handles \in [Inos -> Nat] /\ (clean => ~AllocatesTorn(d, n))
  BY AllocatorReads DEF Inv
<1>3. ASSUME ~AllocatesTorn(d, n) PROVE Fits(symlink(d, n), handles)
  BY <1>1, <1>3, AllocatedIno, SymlinkFits DEF AllocatesTorn
<1> QED
  BY <1>1, <1>2, <1>3, ServeKeeps

LEMMA TmpfileKeeps == ASSUME Inv, Tmpfile PROVE Inv' /\ NamesKept
<1> DEFINE after == Opened(NextInode)
<1>1. CanAllocate /\ Serve(disk[Superblock] = Torn, tmpfile, after)
  BY DEF Tmpfile
<1>2. after \in [Inos -> Nat] /\ (clean => ~(disk[Superblock] = Torn))
  BY CleanReads, OpenedHandles
<1>3. ASSUME ~(disk[Superblock] = Torn) PROVE Fits(tmpfile, after)
  <2>1. NextInode \in Inos /\ "File" \in Kinds
    BY <1>1, <1>3, AllocatedIno DEF Kinds
  <2>2. PICK kinds \in KindsOfInodes : DiskOK(disk, kinds) /\ kinds[NextInode] = "File"
    BY <1>3, <2>1, FreshNumber
  <2>3. after[NextInode] = 1 /\ \A h \in Inos : h # NextInode => after[h] = handles[h]
    BY <1>3, <2>1, FreshNumber, OpenedHandles
  <2> DEFINE sb == <<Superblock, NextInode>>
             b == <<InodeFile(NextInode), Attrs("File", 0, 1)>>
             e == <<ContentFile(NextInode), Data>>
             v == <<b, e>>
             w == <<sb, b, e>>
  <2> HIDE DEF after
  <2>4. b \in NewStores(kinds, after)
    <3>1. /\ Attrs("File", 0, 1) \in InodeRecords /\ Attrs("File", 0, 1).kind = kinds[NextInode]
          /\ Attrs("File", 0, 1).open_file_handles >= after[NextInode]
      BY <2>1, <2>2, <2>3, NewAttrs
    <3> QED
      BY <2>1, <3>1, NewInode
  <2>5. e \in NewStores(kinds, after)
    BY <2>1, <2>2, NewData
  <2>6. tmpfile = Done(w)
    BY DEF tmpfile
  <2>7. b[1] = InodeFile(NextInode) /\ e[1] = ContentFile(NextInode)
    OBVIOUS
  <2> HIDE DEF b, e, sb
  <2>8. v \in Seq(NewStores(kinds, after)) /\ Len(v) = 2 /\ v[1] = b /\ v[2] = e
    BY <2>4, <2>5
  <2>9. w = Allocating(<<>>, v)
    <3>1. <<sb, b, e>> = (<<>> \o <<sb>>) \o <<b, e>>
      OBVIOUS
    <3>2. Allocating(<<>>, v) = (<<>> \o <<sb>>) \o <<b, e>>
      BY DEF Allocating, v, sb
    <3> QED
      BY <3>1, <3>2
  <2>10. Len(w) = 3 /\ w[2] = b
    OBVIOUS
  <2> HIDE DEF v, w
  <2>11. \A f \in FilesOf(NextInode) : \E j \in 1 .. Len(v) : v[j][1] = f
    BY <2>7, <2>8 DEF FilesOf
  <2>12. <<>> \in Seq(OldStores(kinds, after))
    OBVIOUS
  <2>13. Ordered(w, kinds, after) /\ Balanced(w)
    BY <1>3, <2>1, <2>8, <2>9, <2>11, <2>12, NodeOrdered
  <2>14. ASSUME NEW h \in Inos
         PROVE  after[h] <= handles[h] \/ \E j \in 1 .. Len(w) : w[j][1] = InodeFile(h)
    <3>1. CASE h = NextInode
      BY <2>7, <2>10, <3>1
    <3>2. CASE h # NextInode
      BY <2>3, <3>2, HandlesKept
    <3> QED
      BY <3>1, <3>2
  <2> QED
    BY <2>2, <2>6, <2>13, <2>14, DoneFits
<1> HIDE DEF after
<1> QED
  BY <1>1, <1>2, <1>3, ServeKeeps

(* init: a root is made where there is none.                               *)
LEMMA InitFits == ASSUME Inv, inode(ROOT) # Torn PROVE init.reply = "ok" /\ Fits(init, handles)
<1>1. PICK kinds \in KindsOfInodes : DiskOK(disk, kinds)
  BY DEF Inv
<1>2. ROOT \in Inos /\ kinds[ROOT] = "Directory" /\ handles \in [Inos -> Nat]
  BY BoundsAssumption DEF KindsOfInodes, Inos, ROOT, Inv
<1>3. CASE inode(ROOT) # Absent
  <2>1. init = Done(<<>>)
    BY <1>3 DEF init
  <2>2. Fits(Done(<<>>), handles)
    BY <1>1, NothingWritten, DoneFits, HandlesKept
  <2> QED
    BY <2>1, <2>2 DEF Done
<1>4. CASE inode(ROOT) = Absent
  <2> DEFINE r == Attrs("Directory", 2, 0)
             c == [m \in {"."} |-> <<ROOT, "Directory">>]
             a == <<InodeFile(ROOT), r>>
             b == <<ContentFile(ROOT), c>>
             w == <<a, b>>
  <2>1. init = Done(w)
    BY <1>4, ContentsAssumption DEF init
  <2>2. handles[ROOT] = 0
    <3>1. handles[ROOT] \in Nat /\ ~(handles[ROOT] > 0)
      BY <1>2, <1>4, ContentsAssumption DEF Inv, OpenFilesPinned
    <3> QED
      BY <3>1
  <2>3. Limit(disk) \in Inos /\ ROOT <= Limit(disk) /\ ROOT \in 1 .. Limit(disk)
    BY <1>1, LimitIsIno, BoundsAssumption DEF Inos, ROOT
  <2>4. r \in InodeRecords /\ r.kind = kinds[ROOT] /\ r.open_file_handles >= handles[ROOT]
    BY <1>2, <2>2, NewAttrs DEF Kinds
  <2>5. c \in EntriesOf(ROOT, Limit(disk))
    <3>1. c \in [{"."} -> (1 .. Limit(disk)) \X Kinds]
      BY <2>3 DEF Kinds
    <3>2. {"."} \in SUBSET (Names \cup {".", ".."}) /\ Names \cap {"."} = {}
      BY NamesAssumption
    <3>3. c \in EntriesTo(Limit(disk))
      BY <3>1, <3>2 DEF EntriesTo
    <3>4. Names \cap DOMAIN c = {} /\ Dotted(ROOT, DOMAIN c)
      BY <3>1, <3>2 DEF Dotted
    <3> HIDE DEF c
    <3> QED
      BY <3>3, <3>4 DEF EntriesOf
  <2> HIDE DEF r, c
  <2>6. a \in Stores(Limit(disk), kinds, handles) /\ a[1] = InodeFile(ROOT) /\ a[2] = r
    BY <1>2, <2>3, <2>4, StoresInode
  <2>7. b \in Stores(Limit(disk), kinds, handles) /\ b[1] = ContentFile(ROOT) /\ b[2] = c
    BY <1>2, <2>3, <2>5, StoresEntries
  <2>8. r # Absent /\ c # Absent
    <3>1. Limit(disk) \in Nat /\ MaxIno \in Nat /\ Limit(disk) <= MaxIno
      BY <2>3, BoundsAssumption DEF Inos, ROOT
    <3>2. c \in EntriesTo(MaxIno)
      BY <2>5, <3>1, EntriesGrow DEF EntriesOf
    <3> QED
      BY <2>4, <3>2, ContentsAssumption
  <2> HIDE DEF a, b
  <2>9. a \in Files \X AllContents /\ b \in Files \X AllContents
    BY <2>6, <2>7, StoresWhat
  <2>10. w \in Seq(Files \X AllContents) /\ Len(w) = 2 /\ w[1] = a /\ w[2] = b
    BY <2>9
  <2> HIDE DEF w
  <2>11. \A j \in 1 .. Len(w) : w[j] = a \/ w[j] = b
    BY <2>10
  <2>12. Ordered(w, kinds, handles)
    BY <2>6, <2>7, <2>10, <2>11 DEF Ordered
  <2>13. ASSUME NEW i \in Inos PROVE Retains(w, i)
    <3>1. \A j \in 1 .. Len(w) : w[j][2] # Absent
      BY <2>6, <2>7, <2>8, <2>11
    <3>2. CASE i = ROOT
      <4>1. \A f \in FilesOf(i) : \E j \in 1 .. Len(w) : w[j][1] = f
        BY <2>6, <2>7, <2>10, <3>2 DEF FilesOf
      <4> QED
        BY <3>1, <4>1 DEF Retains
    <3>3. CASE i # ROOT
      <4>1. \A j \in 1 .. Len(w) : w[j][1] \notin FilesOf(i)
        BY <2>6, <2>7, <2>11, <3>3, FilesDistinct DEF FilesOf
      <4> QED
        BY <3>1, <4>1 DEF Retains
    <3> QED
      BY <3>2, <3>3
  <2>14. Balanced(w)
    BY <2>13 DEF Balanced
  <2>15. Fits(Done(w), handles)
    BY <1>1, <2>12, <2>14, DoneFits, HandlesKept
  <2> QED
    BY <2>1, <2>15 DEF Done
<1> QED
  BY <1>3, <1>4

LEMMA MountKeeps == ASSUME Inv, Mount PROVE Inv' /\ NamesKept
<1>1. handles \in [Inos -> Nat]
  BY DEF Inv
<1>2. CASE inode(ROOT) = Torn
  <2>1. init = Panic(<<>>)
    BY <1>2 DEF init
  <2>2. init.reply = "panic" /\ init.writes = <<>> /\ "panic" \notin Errors
    BY <2>1 DEF Panic, Errors
  <2>3. ROOT \in Inos
    BY BoundsAssumption DEF ROOT, Inos
  <2>4. ~clean
    BY <1>2, <2>3, CleanReads
  <2>5. PICK kinds \in KindsOfInodes : DiskOK(disk, kinds)
    BY DEF Inv
  <2>6. Ordered(<<>>, kinds, handles)
    BY NothingWritten
  <2>7. CASE disk' \in Interrupted(init.writes) /\ Killed
    <3>1. disk' \in Interrupted(<<>>) /\ Killed
      BY <2>2, <2>7
    <3>2. Inv' /\ reply' \notin {"refused", "EIO"}
      BY <2>5, <2>6, <3>1, KilledKeeps
    <3> QED
      BY <3>2 DEF NamesKept
  <2>8. CASE /\ disk' = Written(init.writes, Len(init.writes)) /\ reply' = Answer(init)
             /\ handles' = handles /\ clean' = clean
    <3>1. Len(<<>>) = 0 /\ 0 \in 0 .. Len(<<>>) /\ \A j \in 1 .. 0 : FALSE
      OBVIOUS
    <3>2. disk' = Written(<<>>, 0) /\ reply' = "panic"
      BY <2>2, <2>8, <3>1 DEF Answer
    <3>3. DiskOK(disk', kinds)
      BY <2>5, <2>6, <3>1, <3>2, WrittenDisk
    <3>4. \A i \in Inos : disk'[InodeFile(i)] = disk[InodeFile(i)]
      BY <3>1, <3>2, WrittenFrom, FilesDistinct
    <3>5. OpenFilesPinned'
      BY <2>8, <3>4 DEF Inv, OpenFilesPinned, inode
    <3> QED
      BY <1>1, <2>4, <2>8, <3>2, <3>3, <3>5 DEF Inv, NoPanic, NamesKept
  <2> QED
    BY <2>7, <2>8 DEF Mount
<1>3. CASE inode(ROOT) # Torn
  <2>1. init.reply = "ok" /\ Fits(init, handles)
    BY <1>3, InitFits
  <2>2. CASE disk' \in Interrupted(init.writes) /\ Killed
    <3>1. PICK kinds \in KindsOfInodes : DiskOK(disk, kinds) /\ Ordered(init.writes, kinds, handles)
      BY <2>1 DEF Fits
    <3>2. Inv' /\ reply' \notin {"refused", "EIO"}
      BY <2>2, <3>1, KilledKeeps
    <3> QED
      BY <3>2 DEF NamesKept
  <2>3. CASE /\ disk' = Written(init.writes, Len(init.writes)) /\ reply' = Answer(init)
             /\ handles' = handles /\ clean' = clean
    <3>1. handles' = CASE init.reply = "ok" -> handles
                       [] init.reply = "panic" -> NoHandles
                       [] OTHER -> handles
      BY <2>1, <2>3
    <3> QED
      BY <1>1, <2>1, <2>3, <3>1, CompletedKeeps
  <2> QED
    BY <2>2, <2>3 DEF Mount
<1> QED
  BY <1>2, <1>3

(* A step that touches neither files nor handles.                          *)
LEMMA QuietKeeps ==
    ASSUME Inv, UNCHANGED <<disk, handles, clean>>, reply' \in {"ok", "refused"}
    PROVE  Inv' /\ Namespace' = Namespace
<1>1. Namespace' = Namespace
  BY NamespaceOfContents
<1>2. OpenFilesPinned'
  BY DEF Inv, OpenFilesPinned, inode
<1>3. NoPanic'
  BY DEF NoPanic
<1> QED
  BY <1>1, <1>2, <1>3 DEF Inv

---------------------------------------------------------------------------
(* rename.                                                                 *)

LEMMA ReparentReads ==
    ASSUME Inv, NEW kinds \in KindsOfInodes, DiskOK(disk, kinds), NEW i \in Inos, Exists(inode(i))
    PROVE  /\ clean => ~ReparentPanics(i)
           /\ inode(i).kind = "Directory" /\ ~ReparentPanics(i) => content(i) \in EntriesOf(i, Limit(disk))
<1>1. inode(i).kind = kinds[i] /\ kinds[i] \in Kinds
  BY InodeRead DEF KindsOfInodes
<1>2. ASSUME clean PROVE ~ReparentPanics(i)
  <2>1. Exists(content(i))
    BY <1>2, CleanReads DEF Exists
  <2> QED
    BY <1>1, <2>1, ContentRead DEF ReparentPanics
<1>3. ASSUME inode(i).kind = "Directory", ~ReparentPanics(i) PROVE content(i) \in EntriesOf(i, Limit(disk))
  BY <1>1, <1>3, ContentRead DEF ReparentPanics, IsDirectoryContent
<1> QED
  BY <1>2, <1>3

LEMMA ReparentOld ==
    ASSUME Inv, NEW kinds \in KindsOfInodes, DiskOK(disk, kinds), NEW i \in Inos, Exists(inode(i)),
           ~ReparentPanics(i), NEW e \in 1 .. Limit(disk)
    PROVE  Reparent(i, e) \in Seq(OldStores(kinds, handles))
<1>1. CASE inode(i).kind # "Directory"
  BY <1>1 DEF Reparent
<1>2. CASE inode(i).kind = "Directory"
  <2> DEFINE x == <<ContentFile(i), Insert(content(i), "..", e, "Directory")>>
  <2>1. content(i) \in EntriesOf(i, Limit(disk)) /\ ".." \notin Names /\ "Directory" \in Kinds
    BY <1>2, ReparentReads, NamesAssumption DEF Kinds
  <2>2. Insert(content(i), "..", e, "Directory") \in EntriesOf(i, Limit(disk))
    BY <2>1, InsertEntries
  <2>3. kinds[i] = "Directory"
    BY <1>2, InodeRead
  <2>4. x \in OldStores(kinds, handles)
    BY <2>2, <2>3, OldEntries
  <2> HIDE DEF x
  <2>5. <<x>> \in Seq(OldStores(kinds, handles))
    BY <2>4
  <2> QED
    BY <1>2, <2>5 DEF Reparent, x
<1> QED
  BY <1>1, <1>2

LEMMA ExchangeFits ==
    ASSUME Inv, NEW kinds \in KindsOfInodes, DiskOK(disk, kinds),
           NEW d \in Directories, NEW n \in Names, ~ReadsTorn(d, n), NEW i \in LookupName(d, n),
           NEW e \in Directories, NEW m \in Names, ~ReadsTorn(e, m), NEW j \in LookupName(e, m),
           i # e, j # d
    PROVE  Fits(Exchange(d, n, i, e, m, j), handles)
<1> DEFINE L == Limit(disk)
           O == OldStores(kinds, handles)
<1>1. d \in Inos /\ e \in Inos /\ d <= L /\ e <= L
  BY DirectoryRead
<1>2. /\ i \in Inos /\ j \in Inos /\ i <= L /\ j <= L
      /\ Exists(inode(i)) /\ Exists(inode(j)) /\ Exists(content(d)) /\ Exists(content(e))
  BY <1>1, BoundRead DEF LookupName
<1>3. d \in 1 .. L /\ e \in 1 .. L /\ i \in 1 .. L /\ j \in 1 .. L
  BY <1>1, <1>2, LimitIsIno, BoundsAssumption DEF Inos, ROOT
<1>4. /\ inode(i) \in InodeRecords /\ inode(i).kind \in Kinds /\ inode(i).open_file_handles >= handles[i]
      /\ inode(j) \in InodeRecords /\ inode(j).kind \in Kinds /\ inode(j).open_file_handles >= handles[j]
  BY <1>2, InodeRead DEF InodeRecords
<1>5. /\ content(d) \in EntriesOf(d, L) /\ <<InodeFile(d), inode(d)>> \in O
      /\ \A entries \in EntriesOf(d, L) : <<ContentFile(d), entries>> \in O
  BY <1>2, ParentRead DEF Exists
<1>6. /\ content(e) \in EntriesOf(e, L) /\ <<InodeFile(e), inode(e)>> \in O
      /\ \A entries \in EntriesOf(e, L) : <<ContentFile(e), entries>> \in O
  BY <1>2, ParentRead DEF Exists
<1>7. <<InodeFile(i), inode(i)>> \in O /\ <<InodeFile(j), inode(j)>> \in O
  BY <1>2, <1>4, OldInode
<1> DEFINE there == Insert(content(e), m, i, inode(i).kind)
           here == Insert(IF d = e THEN there ELSE content(d), n, j, inode(j).kind)
           swapped == <<<<ContentFile(e), there>>, <<ContentFile(d), here>>,
                        <<InodeFile(d), inode(d)>>, <<InodeFile(e), inode(e)>>,
                        <<InodeFile(i), inode(i)>>, <<InodeFile(j), inode(j)>>>>
<1>8. Exchange(d, n, i, e, m, j) =
        IF ReparentPanics(i) THEN Panic(swapped)
        ELSE IF ReparentPanics(j) THEN Panic(swapped \o Reparent(i, e))
        ELSE Done(swapped \o Reparent(i, e) \o Reparent(j, d))
  BY DEF Exchange
<1>9. there \in EntriesOf(e, L)
  BY <1>3, <1>4, <1>6, InsertEntries
<1> HIDE DEF there
<1>10. here \in EntriesOf(d, L)
  <2> DEFINE base == IF d = e THEN there ELSE content(d)
  <2>1. base \in EntriesOf(d, L)
    BY <1>5, <1>9
  <2> HIDE DEF base
  <2>2. Insert(base, n, j, inode(j).kind) \in EntriesOf(d, L)
    BY <1>3, <1>4, <2>1, InsertEntries
  <2> QED
    BY <2>2 DEF base
<1> HIDE DEF here
<1>11. swapped \in Seq(O)
  <2> DEFINE a == <<ContentFile(e), there>>
             b == <<ContentFile(d), here>>
             f == <<InodeFile(d), inode(d)>>
             g == <<InodeFile(e), inode(e)>>
             p == <<InodeFile(i), inode(i)>>
             q == <<InodeFile(j), inode(j)>>
  <2>1. a \in O /\ b \in O /\ f \in O /\ g \in O /\ p \in O /\ q \in O
    BY <1>5, <1>6, <1>7, <1>9, <1>10
  <2> HIDE DEF a, b, f, g, p, q, O
  <2>2. <<a, b, f, g, p, q>> \in Seq(O)
    BY <2>1
  <2> QED
    BY <2>2 DEF a, b, f, g, p, q
<1> HIDE DEF swapped
<1>12. ASSUME NEW w \in Seq(O) PROVE Ordered(w, kinds, handles) /\ Fits(Done(w), handles)
  BY OldOrdered, OldFits, HandlesKept
<1>13. clean => ~ReparentPanics(i) /\ ~ReparentPanics(j)
  BY <1>2, ReparentReads
<1>14. /\ ~ReparentPanics(i) => Reparent(i, e) \in Seq(O)
       /\ ~ReparentPanics(j) => Reparent(j, d) \in Seq(O)
  BY <1>2, <1>3, ReparentOld
<1> HIDE DEF O, L
<1>15. CASE ReparentPanics(i)
  <2>1. Fits(Panic(swapped), handles)
    BY <1>11, <1>12, <1>13, <1>15, PanicsFits
  <2> QED
    BY <1>8, <1>15, <2>1
<1>16. CASE ~ReparentPanics(i) /\ ReparentPanics(j)
  <2> DEFINE w == swapped \o Reparent(i, e)
  <2>1. w \in Seq(O)
    BY <1>11, <1>14, <1>16
  <2> HIDE DEF w
  <2>2. Ordered(w, kinds, handles) /\ ~clean
    BY <1>12, <1>13, <1>16, <2>1
  <2>3. Fits(Panic(w), handles)
    BY <2>2, PanicsFits
  <2> QED
    BY <1>8, <1>16, <2>3 DEF w
<1>17. CASE ~ReparentPanics(i) /\ ~ReparentPanics(j)
  <2> DEFINE w == swapped \o Reparent(i, e) \o Reparent(j, d)
  <2>1. w \in Seq(O)
    BY <1>11, <1>14, <1>17
  <2> HIDE DEF w
  <2>2. Fits(Done(w), handles)
    BY <1>12, <2>1
  <2> QED
    BY <1>8, <1>17, <2>2 DEF w
<1> QED
  BY <1>15, <1>16, <1>17

(* Stores that follow, to inodes of Z, which all exist.                    *)
Follows(last, kinds, Z) ==
    {write \in Stores(last, kinds, handles) :
        write[2] # Absent /\ \E h \in Z : write[1] \in FilesOf(h)}

LEMMA FollowsKeeps ==
    ASSUME NEW kinds, NEW Z, Z \subseteq Inos, \A h \in Z : inode(h) # Absent,
           NEW last, NEW u, Ordered(u, kinds, handles), NEW v \in Seq(Follows(last, kinds, Z)),
           \/ last = Limit(disk)
           \/ /\ last = NextInode /\ disk[Superblock] # Torn /\ NextInode \in Inos
              /\ GivesOut(u, Len(u))
    PROVE  /\ Ordered(u \o v, kinds, handles)
           /\ GivesOut(u, Len(u)) => GivesOut(u \o v, Len(u \o v))
           /\ \A h \in Inos : Retains(u, h) => Retains(u \o v, h)
           /\ \A h \in Inos \ Z : Removes(u, h) => Removes(u \o v, h)
<1> DEFINE F == Files \X AllContents
<1>1. \A j \in 1 .. Len(v) : v[j] \in Follows(last, kinds, Z)
  OBVIOUS
<1>2. Follows(last, kinds, Z) \subseteq F
  BY StoresWhat DEF Follows
<1>3. v \in Seq(F) /\ u \in Seq(F)
  BY <1>1, <1>2 DEF Ordered
<1>4. ASSUME NEW h \in Inos \ Z PROVE Untouched(v, h)
  BY <1>1, FilesOfOne DEF Untouched, Follows
<1>5. ASSUME NEW h \in Inos PROVE Retains(v, h)
  <2>1. \A j \in 1 .. Len(v) : v[j][2] # Absent
    BY <1>1 DEF Follows
  <2>2. inode(h) # Absent \/ \A j \in 1 .. Len(v) : v[j][1] \notin FilesOf(h)
    BY <1>4 DEF Untouched
  <2> QED
    BY <2>1, <2>2 DEF Retains
<1>6. Ordered(u \o v, kinds, handles)
  <2>1. CASE last = Limit(disk)
    <3>1. Follows(last, kinds, Z) \subseteq OldStores(kinds, handles)
      BY <2>1 DEF Follows, OldStores
    <3>2. v \in Seq(OldStores(kinds, handles))
      BY <1>1, <3>1
    <3>3. Ordered(v, kinds, handles)
      BY <3>2, OldOrdered
    <3> QED
      BY <3>3, OrderedConcat
  <2>2. CASE /\ last = NextInode /\ disk[Superblock] # Torn /\ NextInode \in Inos
             /\ GivesOut(u, Len(u))
    <3>1. Follows(last, kinds, Z) \subseteq NewStores(kinds, handles)
      BY <2>2 DEF Follows, NewStores
    <3>2. v \in Seq(NewStores(kinds, handles))
      BY <1>1, <3>1
    <3> QED
      BY <2>2, <3>2, OrderedAfter
  <2> QED
    BY <2>1, <2>2
<1>7. ASSUME GivesOut(u, Len(u)) PROVE GivesOut(u \o v, Len(u \o v))
  <2> DEFINE w == u \o v
  <2>1. /\ Len(u) \in Nat /\ Len(w) \in Nat /\ Len(u) <= Len(w)
        /\ \A j \in 1 .. Len(u) : w[j] = u[j]
    BY <1>3
  <2> HIDE DEF w
  <2>2. GivesOut(w, Len(w))
    BY <1>7, <2>1, GivesOutStays
  <2> QED
    BY <2>2 DEF w
<1> HIDE DEF F
<1>8. \A h \in Inos : Retains(u, h) => Retains(u \o v, h)
  BY <1>3, <1>5, RetainsConcat
<1>9. \A h \in Inos \ Z : Removes(u, h) => Removes(u \o v, h)
  BY <1>3, <1>4, RemovesFirst
<1> QED
  BY <1>6, <1>7, <1>8, <1>9

(* What a rename replaces, another inode than any it goes on to write.     *)
LEMMA ReplacedFits ==
    ASSUME Inv, NEW kinds \in KindsOfInodes, DiskOK(disk, kinds),
           NEW e \in Directories, NEW m \in Names, ~ReadsTorn(e, m), NEW j \in LookupName(e, m)
    PROVE  /\ Ordered(Replaced(e, m, j), kinds, handles)
           /\ Removes(Replaced(e, m, j), j) \/ Retains(Replaced(e, m, j), j)
           /\ \A h \in Inos : h # j => Retains(Replaced(e, m, j), h)
<1> DEFINE F == Files \X AllContents
           r == IF inode(j).kind = "Directory" THEN [inode(j) EXCEPT !.hardlinks = 0]
                ELSE DecrementLinks(inode(j))
           x == <<ContentFile(e), Remove(content(e), m)>>
           drop == Drop(j, r)
<1>1. e \in Inos /\ handles \in [Inos -> Nat]
  BY DirectoryRead DEF Inv
<1>2. j \in Inos /\ Exists(inode(j)) /\ Exists(content(e))
  BY <1>1, BoundRead DEF LookupName
<1>3. inode(j) \in InodeRecords /\ inode(j).open_file_handles >= handles[j] /\ handles[j] \in Nat
  BY <1>1, <1>2, InodeRead
<1>4. r \in InodeRecords /\ r.kind = inode(j).kind /\ r.open_file_handles >= handles[j]
  BY <1>3, LinkUpdates, RecordUpdates
<1>5. x \in OldStores(kinds, handles)
  BY <1>2, ParentRead, RemoveEntries DEF Exists
<1>6. Replaced(e, m, j) = <<x>> \o drop
  BY DEF Replaced
<1> HIDE DEF r, x
<1>7. /\ Ordered(drop, kinds, handles) /\ drop \in Seq(F)
      /\ Removes(drop, j) \/ Retains(drop, j)
      /\ \A h \in Inos : h # j => Retains(drop, h)
  BY <1>2, <1>3, <1>4, DropFits
<1>8. <<x>> \in Seq(OldStores(kinds, handles))
  BY <1>5
<1>9. Ordered(<<x>>, kinds, handles) /\ <<x>> \in Seq(F) /\ \A h \in Inos : Retains(<<x>>, h)
  BY <1>8, OldOrdered
<1> HIDE DEF F, drop
<1> DEFINE u == <<x>>
<1> HIDE DEF u
<1>10. Ordered(u, kinds, handles) /\ u \in Seq(F) /\ \A h \in Inos : Retains(u, h)
  BY <1>9 DEF u
<1>11. Ordered(u \o drop, kinds, handles)
  BY <1>7, <1>10, OrderedConcat
<1>12. Removes(u \o drop, j) \/ Retains(u \o drop, j)
  BY <1>2, <1>7, <1>10, RetainsConcat, RemovesLast
<1>13. \A h \in Inos : h # j => Retains(u \o drop, h)
  BY <1>7, <1>10, RetainsConcat
<1> QED
  BY <1>6, <1>11, <1>12, <1>13 DEF u

(* A directory that may be replaced has no names in it.                    *)
LEMMA EmptyRead ==
    ASSUME NEW kinds \in KindsOfInodes, DiskOK(disk, kinds), NEW j \in Inos, j # ROOT,
           ~(kinds[j] = "Directory" /\ IsDirectoryContent(content(j))
             /\ Cardinality(DOMAIN content(j)) > 2),
           NEW n \in Names
    PROVE  Bound(j, n) = {}
<1> SUFFICES ASSUME Bound(j, n) # {} PROVE FALSE
  OBVIOUS
<1>1. PICK i \in Bound(j, n) : TRUE
  OBVIOUS
<1>2. Exists(content(j)) /\ kinds[j] = "Directory" /\ n \in DOMAIN content(j)
  BY <1>1, BoundRead
<1>3. IsDirectoryContent(content(j)) /\ content(j) \in EntriesOf(j, Limit(disk))
  BY <1>2, ContentRead DEF Kinds
<1> DEFINE D == DOMAIN content(j)
           dots == {".", ".."}
<1>4. D \subseteq Names \cup dots /\ dots \subseteq D
  <2>1. content(j) \in EntriesTo(Limit(disk)) /\ Dotted(j, D)
    BY <1>3 DEF EntriesOf
  <2>2. D \subseteq Names \cup dots
    BY <2>1 DEF EntriesTo
  <2>3. "." \in D /\ ".." \in D
    BY <2>1 DEF Dotted
  <2> QED
    BY <2>2, <2>3
<1>5. IsFiniteSet(dots) /\ Cardinality(dots) = 2
  <2>1. IsFiniteSet({"."}) /\ Cardinality({"."}) = 1
    BY FS_Singleton
  <2> DEFINE S == {"."}
             x == ".."
  <2>2. dots = S \cup {x} /\ x \notin S
    OBVIOUS
  <2> HIDE DEF dots, S, x
  <2>3. IsFiniteSet(S \cup {x}) /\ Cardinality(S \cup {x}) = Cardinality(S) + 1
    BY <2>1, <2>2, FS_AddElement DEF S
  <2> QED
    BY <2>1, <2>2, <2>3 DEF S
<1>6. IsFiniteSet(Names \cup dots)
  BY <1>5, NamesAssumption, FS_Union
<1>7. IsFiniteSet(D) /\ Cardinality(D) \in Nat
  <2>1. IsFiniteSet(D)
    BY <1>4, <1>6, FS_Subset
  <2> QED
    BY <2>1, FS_CardinalityType
<1>8. ~(Cardinality(D) > 2)
  BY <1>2, <1>3
<1>9. D = dots
  <2> HIDE DEF D, dots
  <2>1. Cardinality(dots) <= Cardinality(D) /\ (Cardinality(D) = Cardinality(dots) => D = dots)
    BY <1>4, <1>7, FS_Subset
  <2> QED
    BY <1>5, <1>7, <1>8, <2>1
<1> QED
  BY <1>2, <1>9, NamesAssumption

LEMMA ReplacedUnlists ==
    ASSUME Inv, NEW kinds \in KindsOfInodes, DiskOK(disk, kinds),
           NEW e \in Directories, NEW m \in Names, NEW j \in LookupName(e, m), j # ROOT,
           ~(inode(j).kind = "Directory" /\ Cardinality(DOMAIN content(j)) > 2)
    PROVE  Unlists(Replaced(e, m, j))
<1> DEFINE r == IF inode(j).kind = "Directory" THEN [inode(j) EXCEPT !.hardlinks = 0]
                ELSE DecrementLinks(inode(j))
           x == <<ContentFile(e), Remove(content(e), m)>>
           w == Replaced(e, m, j)
<1>1. e \in Inos
  BY DirectoryRead
<1>2. j \in Inos /\ Exists(inode(j)) /\ Exists(content(e)) /\ kinds[e] = "Directory"
  BY <1>1, BoundRead DEF LookupName
<1>3. inode(j).kind = kinds[j]
  BY <1>2, InodeRead
<1>4. \A n \in Names : Bound(j, n) = {}
  BY <1>2, <1>3, EmptyRead
<1>5. IsDirectoryContent(content(e)) /\ IsDirectoryContent(Remove(content(e), m))
  <2>1. IsDirectoryContent(content(e)) /\ content(e) \in EntriesOf(e, Limit(disk))
    BY <1>1, <1>2, ContentRead DEF Kinds
  <2>2. Remove(content(e), m) \in EntriesOf(e, Limit(disk))
    BY <2>1, RemoveEntries
  <2>3. Limit(disk) \in Nat /\ MaxIno \in Nat /\ Limit(disk) <= MaxIno
    BY LimitIsIno, BoundsAssumption DEF Inos, ROOT
  <2>4. Remove(content(e), m) \in EntriesTo(MaxIno)
    BY <2>2, <2>3, EntriesGrow DEF EntriesOf
  <2> QED
    BY <2>1, <2>4, ContentsAssumption DEF IsDirectoryContent, Exists
<1> DEFINE a == <<InodeFile(j), r>>
           b == <<InodeFile(j), Absent>>
           c == <<ContentFile(j), Absent>>
           S == {x, a, b, c}
           gc == GcInode(j, r)
<1>6. w = <<x>> \o (<<a>> \o gc) /\ (gc = <<>> \/ gc = <<b, c>>)
  BY DEF Replaced, Drop, GcInode
<1>7. \A k \in 1 .. Len(w) : w[k] \in S
  <2> HIDE DEF x, r, w, a, b, c, gc
  <2>1. <<x>> \in Seq(S) /\ <<a>> \in Seq(S) /\ <<b, c>> \in Seq(S) /\ <<>> \in Seq(S)
    OBVIOUS
  <2>2. gc \in Seq(S)
    BY <1>6, <2>1
  <2> HIDE DEF S
  <2>3. <<a>> \o gc \in Seq(S)
    BY <2>1, <2>2, ConcatAt
  <2>4. w \in Seq(S)
    BY <1>6, <2>1, <2>3, ConcatAt
  <2> QED
    BY <2>4
<1> HIDE DEF w
<1>8. \A k \in 1 .. Len(w), i \in Inos : w[k][1] = ContentFile(i) =>
         \/ i = e /\ w[k][2] = Remove(content(e), m)
         \/ i = j /\ w[k][2] = Absent
  BY <1>7, FilesDistinct
<1>9. Unlists(w)
  BY <1>1, <1>2, <1>4, <1>5, <1>8 DEF Unlists
<1> QED
  BY <1>9 DEF w

(* The whiteout a rename leaves behind.                                    *)
Hole == <<<<Superblock, NextInode>>,
          <<InodeFile(NextInode), Attrs("File", 1, 0)>>,
          <<ContentFile(NextInode), Data>>>>

LEMMA HoleFits ==
    ASSUME Inv, NEW kinds, DiskOK(disk, kinds), kinds[NextInode] = "File",
           disk[Superblock] # Torn, NextInode \in Inos
    PROVE  /\ Ordered(Hole, kinds, handles) /\ GivesOut(Hole, Len(Hole))
           /\ \A h \in Inos : Retains(Hole, h)
           /\ \A h \in Inos : h # NextInode => Untouched(Hole, h)
<1> DEFINE sb == <<Superblock, NextInode>>
           b == <<InodeFile(NextInode), Attrs("File", 1, 0)>>
           e == <<ContentFile(NextInode), Data>>
           v == <<b, e>>
<1>1. handles[NextInode] = 0 /\ "File" \in Kinds
  BY FreshNumber DEF Kinds
<1>2. b \in NewStores(kinds, handles)
  <2>1. /\ Attrs("File", 1, 0) \in InodeRecords /\ Attrs("File", 1, 0).kind = kinds[NextInode]
        /\ Attrs("File", 1, 0).open_file_handles >= handles[NextInode]
    BY <1>1, NewAttrs
  <2> QED
    BY <2>1, NewInode
<1>3. e \in NewStores(kinds, handles)
  BY NewData
<1>4. b[1] = InodeFile(NextInode) /\ e[1] = ContentFile(NextInode) /\ sb[1] = Superblock
  OBVIOUS
<1>5. Hole = <<sb, b, e>>
  BY DEF Hole
<1> HIDE DEF sb, b, e
<1>6. v \in Seq(NewStores(kinds, handles)) /\ Len(v) = 2 /\ v[1] = b /\ v[2] = e
  BY <1>2, <1>3
<1>7. Hole = Allocating(<<>>, v)
  <2>1. <<sb, b, e>> = (<<>> \o <<sb>>) \o <<b, e>>
    OBVIOUS
  <2>2. Allocating(<<>>, v) = (<<>> \o <<sb>>) \o <<b, e>>
    BY DEF Allocating, v, sb
  <2> QED
    BY <1>5, <2>1, <2>2
<1>8. Len(Hole) = 3 /\ Hole[1] = sb /\ Hole[2] = b /\ Hole[3] = e
  BY <1>5
<1> HIDE DEF v
<1>9. \A f \in FilesOf(NextInode) : \E j \in 1 .. Len(v) : v[j][1] = f
  BY <1>4, <1>6 DEF FilesOf
<1>10. Ordered(<<>>, kinds, handles) /\ \A h \in Inos : Retains(<<>>, h)
  BY NothingWritten DEF Retains
<1>11. \A h \in Inos : Retains(v, h)
  BY <1>6, <1>9, NewRetains
<1>12. /\ Ordered(Hole, kinds, handles) /\ GivesOut(Hole, Len(Hole))
       /\ \A h \in Inos : Retains(Hole, h)
  BY <1>6, <1>7, <1>10, <1>11, AllocFits
<1>13. ASSUME NEW h \in Inos, h # NextInode PROVE Untouched(Hole, h)
  BY <1>4, <1>8, <1>13, FilesDistinct DEF Untouched, FilesOf
<1> QED
  BY <1>12, <1>13

LEMMA FollowsInode ==
    ASSUME Inv, NEW kinds, DiskOK(disk, kinds), NEW Z, NEW h \in Inos, h \in Z, Exists(inode(h)),
           NEW last \in Inos, Limit(disk) <= last
    PROVE  <<InodeFile(h), inode(h)>> \in Follows(last, kinds, Z)
<1>1. /\ inode(h) \in InodeRecords /\ inode(h).kind = kinds[h] /\ h <= Limit(disk)
      /\ inode(h).open_file_handles >= handles[h]
  BY InodeRead
<1>2. h <= last
  BY <1>1, LimitIsIno, BoundsAssumption DEF Inos, ROOT
<1>3. <<InodeFile(h), inode(h)>> \in Stores(last, kinds, handles)
  BY <1>1, <1>2, StoresInode
<1> QED
  BY <1>3 DEF Follows, FilesOf, Exists

LEMMA FollowsEntries ==
    ASSUME NEW kinds, NEW Z, NEW h \in Inos, h \in Z, kinds[h] = "Directory",
           NEW last \in Inos, h <= last, NEW entries \in EntriesOf(h, last)
    PROVE  <<ContentFile(h), entries>> \in Follows(last, kinds, Z)
<1>1. <<ContentFile(h), entries>> \in Stores(last, kinds, handles)
  BY StoresEntries
<1>2. entries # Absent
  <2>1. last \in Nat /\ MaxIno \in Nat /\ last <= MaxIno
    BY BoundsAssumption DEF Inos, ROOT
  <2>2. entries \in EntriesTo(MaxIno)
    BY <2>1, EntriesGrow DEF EntriesOf
  <2> QED
    BY <2>2, ContentsAssumption
<1> QED
  BY <1>1, <1>2 DEF Follows, FilesOf

LEMMA MoveFits ==
    ASSUME Inv, NEW d \in Directories, NEW n \in Names, ~ReadsTorn(d, n), NEW i \in LookupName(d, n),
           NEW e \in Directories, NEW m \in Names, ~ReadsTorn(e, m), i # e,
           \A j \in LookupName(e, m) : j # i /\ j # d,
           \A j \in LookupName(e, m) :
              j # ROOT /\ ~(inode(j).kind = "Directory" /\ Cardinality(DOMAIN content(j)) > 2),
           NEW whiteout \in BOOLEAN, whiteout /\ disk[Superblock] # Torn => NextInode \in Inos,
           NEW owned \in BOOLEAN
    PROVE  Fits(Move(d, n, i, e, m, LookupName(e, m), whiteout, owned), handles)
<1> DEFINE target == LookupName(e, m)
           removed == UNION {{Replaced(e, m, j)} : j \in target}
           replaced == IF removed = {} THEN <<>> ELSE CHOOSE w \in removed : TRUE
           gone(x) == IF x = e /\ target # {} THEN Remove(content(x), m) ELSE content(x)
           left == IF whiteout THEN Insert(Remove(gone(d), n), n, NextInode, "File")
                   ELSE Remove(gone(d), n)
           hole == IF whiteout THEN Hole ELSE <<>>
           x1 == <<ContentFile(d), left>>
           x2 == <<ContentFile(e), Insert(IF d = e THEN left ELSE gone(e), m, i, inode(i).kind)>>
           taken == replaced \o hole \o <<x1>>
           moved == taken \o <<x2, <<InodeFile(d), inode(d)>>, <<InodeFile(e), inode(e)>>,
                               <<InodeFile(i), inode(i)>>>>
           panics == \E j \in target : ReplacePanics(j)
           stops == panics \/ (whiteout /\ (~owned \/ disk[Superblock] = Torn))
           L == Limit(disk)
           last == IF whiteout THEN NextInode ELSE L
           Z == {d, e, i}
<1>1. Move(d, n, i, e, m, target, whiteout, owned) =
        IF panics THEN Panic(replaced)
        ELSE IF whiteout /\ ~owned THEN [reply |-> "EIO", writes |-> replaced]
        ELSE IF whiteout /\ disk[Superblock] = Torn THEN Panic(replaced)
        ELSE IF content(e) = Absent THEN Panic(taken)
        ELSE IF ReparentPanics(i) THEN Panic(moved)
        ELSE Done(moved \o Reparent(i, e))
  BY DEF Move, Hole
<1>2. PICK kinds \in KindsOfInodes :
         DiskOK(disk, kinds) /\ (whiteout /\ disk[Superblock] # Torn => kinds[NextInode] = "File")
  BY FreshNumber DEF Inv, Kinds
<1>3. /\ d \in Inos /\ e \in Inos /\ d <= L /\ e <= L /\ kinds[d] = "Directory" /\ kinds[e] = "Directory"
      /\ Exists(inode(d)) /\ Exists(inode(e))
  BY <1>2, DirectoryRead
<1>4. i \in Inos /\ i <= L /\ i # d /\ Exists(inode(i)) /\ Exists(content(d))
  BY <1>2, <1>3, BoundRead DEF LookupName
<1>5. Z \subseteq Inos /\ \A h \in Z : Exists(inode(h)) /\ inode(h) # Absent
  BY <1>3, <1>4 DEF Exists
<1>6. content(d) \in EntriesOf(d, L) /\ (content(e) # Absent => content(e) \in EntriesOf(e, L))
  BY <1>2, <1>4, ParentRead DEF Exists
<1>7. inode(i).kind = kinds[i] /\ inode(i).kind \in Kinds
  BY <1>2, <1>4, InodeRead DEF InodeRecords
<1>8. L \in Inos /\ L \in Nat
  BY <1>2, LimitIsIno, BoundsAssumption DEF Inos, ROOT
(* What is replaced.                                                       *)
<1>9. /\ Ordered(replaced, kinds, handles)
      /\ \A h \in Inos : Retains(replaced, h) \/ (Removes(replaced, h) /\ h \notin Z /\ h <= L)
      /\ Unlists(replaced)
  <2>1. CASE target = {}
    <3>1. replaced = <<>>
      BY <2>1
    <3> HIDE DEF replaced
    <3>2. Unlists(replaced)
      BY <1>3, <3>1 DEF Unlists
    <3> QED
      BY <3>1, <3>2, NothingWritten DEF Retains
  <2>2. CASE target # {}
    <3>1. PICK j \in target : TRUE
      BY <2>2
    <3>2. j \in Inos /\ j <= L /\ j # e /\ j # d /\ j # i
      BY <1>2, <1>3, <3>1, BoundRead DEF LookupName
    <3>3. target = {j}
      BY <3>1 DEF LookupName, Bound
    <3>4. replaced = Replaced(e, m, j)
      <4>1. removed = {Replaced(e, m, j)}
        BY <3>3
      <4> HIDE DEF removed
      <4> QED
        BY <4>1
    <3> HIDE DEF replaced
    <3>5. /\ Ordered(replaced, kinds, handles)
          /\ Removes(replaced, j) \/ Retains(replaced, j)
          /\ \A h \in Inos : h # j => Retains(replaced, h)
      BY <1>2, <3>1, <3>4, ReplacedFits
    <3>6. Unlists(replaced)
      BY <1>2, <3>1, <3>4, ReplacedUnlists
    <3> QED
      BY <3>2, <3>5, <3>6
  <2> QED
    BY <2>1, <2>2
<1> HIDE DEF replaced, removed
<1>10. CASE stops
  <2>1. panics \/ (whiteout /\ disk[Superblock] = Torn) => ~clean
    <3>1. \A j \in target : ReplacePanics(j) => ~clean
      <4>1. \A j \in target : j \in Inos /\ inode(j) # Absent
        BY <1>2, <1>3, BoundRead DEF LookupName, Exists
      <4> QED
        BY <4>1, CleanReads DEF ReplacePanics, GcPanics
    <3> QED
      BY <3>1, CleanReads
  <2>2. ~clean => Fits(Panic(replaced), handles)
    BY <1>2, <1>9, PanicsFits
  <2>3. Fits([reply |-> "EIO", writes |-> replaced], handles)
    <3>1. "EIO" \notin Errors /\ Balanced(replaced)
      BY <1>9 DEF Errors, Balanced
    <3> QED
      BY <1>2, <1>9, <3>1 DEF Fits
  <2> HIDE DEF panics
  <2> QED
    BY <1>1, <1>10, <2>1, <2>2, <2>3
<1>11. CASE ~stops
  <2>1. whiteout => /\ disk[Superblock] # Torn /\ NextInode \in Inos /\ kinds[NextInode] = "File"
                    /\ L < NextInode /\ NextInode \in Nat
    BY <1>2, <1>11, FreshNumber DEF Kinds
  <2>2. last \in Inos /\ last \in Nat /\ L <= last /\ d <= last /\ e <= last /\ i <= last
    BY <1>3, <1>4, <1>8, <2>1, BoundsAssumption DEF Inos, ROOT
  <2>3. whiteout => NextInode \in 1 .. last /\ NextInode # d
    BY <1>3, <2>1, BoundsAssumption DEF Inos, ROOT
  <2>4. i \in 1 .. last /\ e \in 1 .. last
    BY <1>3, <1>4, <2>2, BoundsAssumption DEF Inos, ROOT
  <2> DEFINE u == replaced \o hole
  (* With the whiteout's inode.                                            *)
  <2>5. /\ Ordered(u, kinds, handles) /\ (whiteout => GivesOut(u, Len(u)))
        /\ \A h \in Inos : Retains(u, h) \/ (Removes(u, h) /\ h \notin Z)
    <3>1. replaced \in Seq(Files \X AllContents)
      BY <1>9 DEF Ordered
    <3>2. CASE ~whiteout
      <4>1. hole = <<>>
        BY <3>2
      <4> HIDE DEF hole
      <4>2. u = replaced
        BY <3>1, <4>1, ConcatNothing
      <4> HIDE DEF u, Z
      <4> QED
        BY <1>9, <3>2, <4>2
    <3>3. CASE whiteout
      <4>1. hole = Hole
        BY <3>3
      <4> HIDE DEF hole, last
      <4>2. /\ Ordered(hole, kinds, handles) /\ GivesOut(hole, Len(hole))
            /\ \A h \in Inos : Retains(hole, h)
            /\ \A h \in Inos : h # NextInode => Untouched(hole, h)
        BY <1>2, <2>1, <3>3, <4>1, HoleFits
      <4>3. hole \in Seq(Files \X AllContents)
        BY <4>2 DEF Ordered
      <4>4. Ordered(u, kinds, handles)
        BY <1>9, <4>2, OrderedConcat
      <4>5. GivesOut(u, Len(u))
        <5>1. PICK k \in 1 .. Len(hole) : hole[k] = <<Superblock, NextInode>>
          BY <4>2 DEF GivesOut
        <5>2. Len(replaced) + k \in 1 .. Len(u) /\ u[Len(replaced) + k] = hole[k]
          BY <3>1, <4>3, <5>1, ConcatAt
        <5> HIDE DEF u
        <5> QED
          BY <5>1, <5>2 DEF GivesOut
      <4>6. \A h \in Inos : Retains(replaced, h) => Retains(u, h)
        BY <3>1, <4>2, <4>3, RetainsConcat
      <4>7. \A h \in Inos : Removes(replaced, h) /\ h # NextInode => Removes(u, h)
        BY <3>1, <4>2, <4>3, RemovesFirst
      <4>8. \A h \in Inos : h <= L => h # NextInode
        BY <1>8, <2>1, <3>3, BoundsAssumption DEF Inos, ROOT
      <4> HIDE DEF u, Z
      <4> QED
        BY <1>9, <4>4, <4>5, <4>6, <4>7, <4>8
    <3> QED
      BY <3>2, <3>3
  <2>6. \/ last = L
        \/ last = NextInode /\ disk[Superblock] # Torn /\ NextInode \in Inos /\ GivesOut(u, Len(u))
    BY <2>1, <2>5
  <2>7. whiteout \/ last = L
    OBVIOUS
  <2>8. whiteout => last = NextInode /\ disk[Superblock] # Torn /\ NextInode \in Inos
    BY <2>1
  (* The directory that is left.                                           *)
  <2>9. content(d) \in EntriesOf(d, last) /\ (content(e) # Absent => content(e) \in EntriesOf(e, last))
    BY <1>6, <1>8, <2>2, EntriesGrow
  <2>10. gone(d) \in EntriesOf(d, last) /\ (content(e) # Absent => gone(e) \in EntriesOf(e, last))
    BY <2>9, RemoveEntries
  <2> DEFINE bare == Remove(gone(d), n)
  <2>11. bare \in EntriesOf(d, last)
    BY <2>10, RemoveEntries
  <2>12. left = IF whiteout THEN Insert(bare, n, NextInode, "File") ELSE bare
    OBVIOUS
  <2> HIDE DEF bare, left
  <2>13. left \in EntriesOf(d, last)
    <3>1. CASE whiteout
      <4>1. Insert(bare, n, NextInode, "File") \in EntriesOf(d, last)
        BY <2>3, <2>11, <3>1, InsertEntries DEF Kinds
      <4> QED
        BY <2>12, <3>1, <4>1
    <3>2. CASE ~whiteout
      BY <2>11, <2>12, <3>2
    <3> QED
      BY <3>1, <3>2
  <2>14. x1 \in Follows(last, kinds, Z)
    BY <1>3, <2>2, <2>13, FollowsEntries
  <2> HIDE DEF hole, last, x1, Z, L
  <2> DEFINE v1 == <<x1>>
             t1 == u \o v1
  <2>15. v1 \in Seq(Follows(last, kinds, Z))
    BY <2>14
  <2> HIDE DEF v1, u
  <2>16. /\ Ordered(t1, kinds, handles) /\ (whiteout => GivesOut(t1, Len(t1)))
         /\ \A h \in Inos : Retains(t1, h) \/ (Removes(t1, h) /\ h \notin Z)
    <3>1. /\ Ordered(u \o v1, kinds, handles)
          /\ GivesOut(u, Len(u)) => GivesOut(u \o v1, Len(u \o v1))
          /\ \A h \in Inos : Retains(u, h) => Retains(u \o v1, h)
          /\ \A h \in Inos \ Z : Removes(u, h) => Removes(u \o v1, h)
      BY <1>5, <2>5, <2>6, <2>15, FollowsKeeps DEF L
    <3> QED
      BY <2>5, <3>1
  <2>17. taken = t1
    BY DEF u, v1
  <2> HIDE DEF t1, taken
  <2>18. CASE content(e) = Absent
    <3>1. ~clean
      BY <1>2, <2>18, ParentRead
    <3>2. Fits(Panic(taken), handles)
      BY <1>2, <2>16, <2>17, <3>1, PanicsFits
    <3> QED
      BY <1>1, <1>11, <2>18, <3>2
  <2>19. CASE content(e) # Absent
    <3>1. x2 \in Follows(last, kinds, Z)
      <4> DEFINE base == IF d = e THEN left ELSE gone(e)
      <4>1. base \in EntriesOf(e, last)
        BY <2>10, <2>13, <2>19
      <4> HIDE DEF base
      <4>2. Insert(base, m, i, inode(i).kind) \in EntriesOf(e, last)
        BY <1>7, <2>4, <4>1, InsertEntries
      <4>3. Insert(IF d = e THEN left ELSE gone(e), m, i, inode(i).kind) \in EntriesOf(e, last)
        BY <4>2 DEF base
      <4>4. e \in Z
        BY DEF Z
      <4> QED
        BY <1>3, <2>2, <4>3, <4>4, FollowsEntries
    <3> DEFINE a == <<InodeFile(d), inode(d)>>
               b == <<InodeFile(e), inode(e)>>
               c == <<InodeFile(i), inode(i)>>
               v2 == <<x2, a, b, c>>
               t2 == t1 \o v2
    <3>2. a \in Follows(last, kinds, Z) /\ b \in Follows(last, kinds, Z) /\ c \in Follows(last, kinds, Z)
      <4>1. d \in Z /\ e \in Z /\ i \in Z /\ Limit(disk) <= last
        BY <2>2 DEF Z, L
      <4> QED
        BY <1>2, <1>3, <1>4, <2>2, <4>1, FollowsInode
    <3>3. moved = taken \o <<x2, a, b, c>>
      OBVIOUS
    <3> HIDE DEF a, b, c, x2, moved
    <3>4. v2 \in Seq(Follows(last, kinds, Z))
      BY <3>1, <3>2
    <3> HIDE DEF v2
    <3>5. \/ last = Limit(disk)
          \/ last = NextInode /\ disk[Superblock] # Torn /\ NextInode \in Inos /\ GivesOut(t1, Len(t1))
      BY <2>7, <2>8, <2>16 DEF L
    <3>6. /\ Ordered(t2, kinds, handles) /\ (whiteout => GivesOut(t2, Len(t2)))
          /\ \A h \in Inos : Retains(t2, h) \/ (Removes(t2, h) /\ h \notin Z)
      <4>1. /\ Ordered(t1 \o v2, kinds, handles)
            /\ GivesOut(t1, Len(t1)) => GivesOut(t1 \o v2, Len(t1 \o v2))
            /\ \A h \in Inos : Retains(t1, h) => Retains(t1 \o v2, h)
            /\ \A h \in Inos \ Z : Removes(t1, h) => Removes(t1 \o v2, h)
        BY <1>5, <2>16, <3>4, <3>5, FollowsKeeps
      <4> QED
        BY <2>16, <4>1
    <3>7. moved = t2
      BY <2>17, <3>3 DEF v2
    <3> HIDE DEF t2
    <3>8. clean => ~ReparentPanics(i)
      BY <1>2, <1>4, ReparentReads
    <3>9. CASE ReparentPanics(i)
      <4>1. Fits(Panic(moved), handles)
        BY <1>2, <3>6, <3>7, <3>8, <3>9, PanicsFits
      <4> QED
        BY <1>1, <1>11, <2>19, <3>9, <4>1
    <3>10. CASE ~ReparentPanics(i)
      <4> DEFINE v3 == Reparent(i, e)
                 w == t2 \o v3
      <4>1. v3 \in Seq(Follows(last, kinds, Z))
        <5>1. CASE inode(i).kind # "Directory"
          BY <5>1 DEF Reparent
        <5>2. CASE inode(i).kind = "Directory"
          <6> DEFINE y == <<ContentFile(i), Insert(content(i), "..", e, "Directory")>>
          <6>1. content(i) \in EntriesOf(i, L)
            BY <1>2, <1>4, <3>10, <5>2, ReparentReads DEF L
          <6>2. content(i) \in EntriesOf(i, last) /\ ".." \notin Names /\ "Directory" \in Kinds
            BY <1>8, <2>2, <6>1, EntriesGrow, NamesAssumption DEF Kinds
          <6>3. Insert(content(i), "..", e, "Directory") \in EntriesOf(i, last)
            BY <2>4, <6>2, InsertEntries
          <6>4. i \in Z /\ kinds[i] = "Directory"
            BY <1>7, <5>2 DEF Z
          <6>5. y \in Follows(last, kinds, Z)
            BY <1>4, <2>2, <6>3, <6>4, FollowsEntries
          <6> HIDE DEF y
          <6>6. <<y>> \in Seq(Follows(last, kinds, Z))
            BY <6>5
          <6> QED
            BY <5>2, <6>6 DEF Reparent, y
        <5> QED
          BY <5>1, <5>2
      <4> HIDE DEF v3
      <4>2. \/ last = Limit(disk)
            \/ last = NextInode /\ disk[Superblock] # Torn /\ NextInode \in Inos /\ GivesOut(t2, Len(t2))
        BY <2>7, <2>8, <3>6 DEF L
      <4>3. /\ Ordered(t2 \o v3, kinds, handles)
            /\ \A h \in Inos : Retains(t2, h) => Retains(t2 \o v3, h)
            /\ \A h \in Inos \ Z : Removes(t2, h) => Removes(t2 \o v3, h)
        BY <1>5, <3>6, <4>1, <4>2, FollowsKeeps
      <4>4. Ordered(w, kinds, handles) /\ Balanced(w)
        BY <3>6, <4>3 DEF Balanced
      <4>5. w = moved \o Reparent(i, e)
        BY <3>7 DEF v3
      <4> HIDE DEF w
      <4>6. Fits(Done(w), handles)
        BY <1>2, <4>4, DoneFits, HandlesKept
      <4> QED
        BY <1>1, <1>11, <2>19, <3>10, <4>5, <4>6
    <3> QED
      BY <3>9, <3>10
  <2> QED
    BY <2>18, <2>19
<1> QED
  BY <1>10, <1>11

LEMMA RenameKeeps == ASSUME Inv, Rename PROVE Inv' /\ NamesKept
<1>1. PICK d \in Directories, n \in Names : \E i \in LookupName(d, n) :
         \E e \in Directories \ Below(i), m \in Names :
            /\ \A j \in LookupName(e, m) : j # i /\ d \notin Below(j)
            /\ \E flags \in RenameFlags, owned \in BOOLEAN :
                  /\ "WHITEOUT" \in flags => CanAllocate
                  /\ Serve(ReadsTorn(d, n) \/ ReadsTorn(e, m), rename(d, n, i, e, m, flags, owned), handles)
  BY DEF Rename
<1>2. PICK i \in LookupName(d, n) : \E e \in Directories \ Below(i), m \in Names :
            /\ \A j \in LookupName(e, m) : j # i /\ d \notin Below(j)
            /\ \E flags \in RenameFlags, owned \in BOOLEAN :
                  /\ "WHITEOUT" \in flags => CanAllocate
                  /\ Serve(ReadsTorn(d, n) \/ ReadsTorn(e, m), rename(d, n, i, e, m, flags, owned), handles)
  BY <1>1
<1>3. PICK e \in Directories \ Below(i), m \in Names :
            /\ \A j \in LookupName(e, m) : j # i /\ d \notin Below(j)
            /\ \E flags \in RenameFlags, owned \in BOOLEAN :
                  /\ "WHITEOUT" \in flags => CanAllocate
                  /\ Serve(ReadsTorn(d, n) \/ ReadsTorn(e, m), rename(d, n, i, e, m, flags, owned), handles)
  BY <1>2
<1>4. PICK flags \in RenameFlags, owned \in BOOLEAN :
            /\ "WHITEOUT" \in flags => CanAllocate
            /\ Serve(ReadsTorn(d, n) \/ ReadsTorn(e, m), rename(d, n, i, e, m, flags, owned), handles)
  BY <1>3
<1>5. PICK kinds \in KindsOfInodes : DiskOK(disk, kinds)
  BY DEF Inv
<1>6. handles \in [Inos -> Nat] /\ d \in Inos /\ e \in Inos
  BY <1>5, DirectoryRead DEF Inv
<1>7. e \in Directories /\ i # e /\ \A j \in LookupName(e, m) : j # i /\ j # d /\ j # ROOT
  BY <1>3, BelowRoot DEF Directories
<1>8. clean => ~(ReadsTorn(d, n) \/ ReadsTorn(e, m))
  BY <1>6, CleanReads
<1>9. ASSUME ~(ReadsTorn(d, n) \/ ReadsTorn(e, m)) PROVE Fits(rename(d, n, i, e, m, flags, owned), handles)
  <2> DEFINE target == LookupName(e, m)
             full == \E j \in target : inode(j).kind = "Directory" /\ Cardinality(DOMAIN content(j)) > 2
             panics == \E j \in target : ReparentPanics(j)
             whiteout == "WHITEOUT" \in flags
  <2>1. rename(d, n, i, e, m, flags, owned) =
          IF "EXCHANGE" \in flags /\ flags # {"EXCHANGE"} THEN Refuse("EINVAL")
          ELSE IF "EXCHANGE" \in flags
          THEN IF target = {} THEN Refuse("ENOENT")
               ELSE Exchange(d, n, i, e, m, CHOOSE j \in target : TRUE)
          ELSE IF "NOREPLACE" \in flags /\ target # {} THEN Refuse("EEXIST")
          ELSE IF panics THEN Panic(<<>>)
          ELSE IF full THEN Refuse("ENOTEMPTY")
          ELSE Move(d, n, i, e, m, target, whiteout, owned)
    BY DEF rename
  <2>2. \A error \in {"EINVAL", "ENOENT", "EEXIST", "ENOTEMPTY"} : Fits(Refuse(error), handles)
    BY RefuseFits DEF Errors
  <2>3. ASSUME target # {} PROVE Fits(Exchange(d, n, i, e, m, CHOOSE j \in target : TRUE), handles)
    <3> DEFINE j == CHOOSE k \in target : TRUE
    <3>1. j \in LookupName(e, m)
      BY <2>3
    <3> HIDE DEF j
    <3>2. Fits(Exchange(d, n, i, e, m, j), handles)
      BY <1>5, <1>7, <1>9, <3>1, ExchangeFits
    <3> QED
      BY <3>2 DEF j
  <2>4. panics => Fits(Panic(<<>>), handles)
    <3>1. \A j \in target : j \in Inos /\ Exists(inode(j))
      BY <1>5, <1>6, BoundRead DEF LookupName
    <3>2. panics => ~clean
      BY <1>5, <3>1, ReparentReads
    <3> QED
      BY <3>2, PanicFits
  <2>5. ~full => Fits(Move(d, n, i, e, m, target, whiteout, owned), handles)
    <3>1. whiteout \in BOOLEAN /\ (whiteout /\ disk[Superblock] # Torn => NextInode \in Inos)
      BY <1>4, AllocatedIno
    <3> HIDE DEF whiteout
    <3> QED
      BY <1>7, <1>9, <3>1, MoveFits
  <2> HIDE DEF target, full, panics, whiteout
  <2> QED
    BY <2>1, <2>2, <2>3, <2>4, <2>5
<1> DEFINE torn == ReadsTorn(d, n) \/ ReadsTorn(e, m)
<1>10. (clean => ~torn) /\ (~torn => Fits(rename(d, n, i, e, m, flags, owned), handles))
  BY <1>8, <1>9
<1>11. Serve(torn, rename(d, n, i, e, m, flags, owned), handles)
  BY <1>4
<1> HIDE DEF torn
<1> QED
  BY <1>6, <1>10, <1>11, ServeKeeps

---------------------------------------------------------------------------
(* The theorems.                                                           *)

LEMMA InitialInv == Init => Inv
<1> SUFFICES ASSUME Init PROVE Inv
  OBVIOUS
<1> DEFINE kinds == [i \in Inos |-> "Directory"]
<1>1. ROOT \in Inos
  BY BoundsAssumption DEF ROOT, Inos
<1>2. kinds \in KindsOfInodes
  BY <1>1 DEF KindsOfInodes, Kinds
<1> HIDE DEF kinds
<1>3. disk = [f \in Files |-> Absent] /\ handles = NoHandles /\ reply = "ok"
  BY DEF Init
<1>4. \A f \in Files : disk[f] = Absent
  BY <1>3
<1>5. DiskOK(disk, kinds)
  BY <1>3, <1>4, FilesDistinct DEF DiskOK, Kept
<1>6. Whole(disk)
  BY <1>4, FilesDistinct, ContentsAssumption DEF Whole
<1>7. handles \in [Inos -> Nat] /\ OpenFilesPinned
  BY <1>3 DEF NoHandles, OpenFilesPinned
<1> QED
  BY <1>2, <1>3, <1>5, <1>6, <1>7 DEF Inv, NoPanic

LEMMA StepInv ==
    ASSUME Inv, [Next]_vars
    PROVE  Inv' /\ (NamesKept \/ UNCHANGED vars)
<1>1. CASE Deny
  BY <1>1, QuietKeeps DEF Deny, NamesKept
<1>2. CASE Unmount
  BY <1>2, QuietKeeps DEF Unmount, NamesKept
<1>3. CASE UNCHANGED vars
  <2>1. UNCHANGED <<disk, handles, clean, reply>>
    BY <1>3 DEF vars
  <2>2. OpenFilesPinned' /\ NoPanic'
    BY <2>1 DEF Inv, OpenFilesPinned, inode, NoPanic
  <2> QED
    BY <1>3, <2>1, <2>2 DEF Inv
<1>4. CASE \/ Mknod \/ Create \/ Mkdir \/ Symlink \/ Tmpfile \/ Link
           \/ Unlink \/ Rmdir \/ Rename \/ Open \/ Release \/ Rewrite \/ Mount
  BY <1>4, MknodKeeps, CreateKeeps, MkdirKeeps, SymlinkKeeps, TmpfileKeeps, LinkKeeps,
     UnlinkKeeps, RmdirKeeps, RenameKeeps, OpenKeeps, ReleaseKeeps, RewriteKeeps, MountKeeps
<1> QED
  BY <1>1, <1>2, <1>3, <1>4 DEF Next

(* The disk stays in order through every request, whichever of its writes  *)
(* the process is killed at, and so do the counts of open handles.         *)
THEOREM Invariance == Spec => []Inv
<1>1. Inv /\ [Next]_vars => Inv'
  BY StepInv
<1> QED
  BY <1>1, InitialInv, PTL DEF Spec

(* An open file keeps its storage: no unlink, rename or rmdir collects an  *)
(* inode under a handle, whatever was killed and remounted before.         *)
THEOREM PinnedCorrect == Spec => []OpenFilesPinned
<1>1. Inv => OpenFilesPinned
  BY DEF Inv
<1> QED
  BY <1>1, Invariance, PTL

(* Without a kill no handler panics: every unwrap() finds its file.        *)
THEOREM PanicsCorrect == Spec => []NoPanic
<1>1. Inv => NoPanic
  BY DEF Inv
<1> QED
  BY <1>1, Invariance, PTL

(* The next inode number is in use nowhere: not by a file, a name or a     *)
(* handle, even after a kill between the superblock and the inode.         *)
THEOREM NextInodeCorrect == Spec => []NextInodeUnused
<1>1. ASSUME Inv PROVE NextInodeUnused
  <2> SUFFICES ASSUME disk[Superblock] # Torn, NEW i \in Inos, i >= NextInode
               PROVE  inode(i) = Absent /\ content(i) = Absent /\ Links(i) = {} /\ handles[i] = 0
    BY DEF NextInodeUnused
  <2>1. PICK kinds \in KindsOfInodes : DiskOK(disk, kinds)
    BY <1>1 DEF Inv
  <2>2. NextInode = Limit(disk) + 1 /\ Limit(disk) \in Inos
    BY <2>1, LimitIsIno, LimitIsLast
  <2>3. i > Limit(disk) /\ ~(i <= Limit(disk))
    BY <2>2, BoundsAssumption DEF Inos, ROOT
  <2>4. inode(i) = Absent /\ content(i) = Absent
    BY <2>1, <2>3 DEF DiskOK, Kept, inode, content
  <2>5. Links(i) = {}
    BY <2>1, <2>3, BoundRead DEF Links
  <2>6. handles[i] \in Nat /\ ~(handles[i] > 0)
    BY <1>1, <2>4, ContentsAssumption DEF Inv, OpenFilesPinned
  <2> QED
    BY <2>4, <2>5, <2>6
<1> QED
  BY <1>1, Invariance, PTL

(* A refused request changes no name, and that holds for symlink too,      *)
(* which has spent an inode number by the time it finds the name taken.    *)
(* The one error that comes after a change, EIO for a whiteout without an  *)
(* owner, has taken the name to be replaced and no other.                  *)
THEOREM RefusedCorrect == Spec => RefusedChangesNoName
<1>1. Inv /\ [Next]_vars =>
        [/\ reply' = "refused" => Namespace' = Namespace
         /\ reply' = "EIO" => Namespace' = Namespace \/ LosesOneName]_vars
  BY StepInv DEF NamesKept
<1> QED
  BY <1>1, Invariance, PTL DEF Spec, RefusedChangesNoName

=============================================================================
