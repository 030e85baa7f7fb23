------------------------- MODULE SimpleFSTreeProofs -------------------------
(***************************************************************************)
(* The names, link counts and storage of examples/simple.rs are in step    *)
(* as long as no process is killed, for any names, any number of inodes,   *)
(* handles and mounts.                                                     *)
(*                                                                         *)
(* What a request leaves on disk is one of a few changes: a new inode, a   *)
(* name bound, unbound, moved or exchanged, a handle counted.  Each of     *)
(* them keeps the disk tidy, inode by inode, and a rename is up to three   *)
(* of them in a row.                                                       *)
(***************************************************************************)
EXTENDS SimpleFSProofs

---------------------------------------------------------------------------
(* A tidy disk.                                                            *)

Node(D, i) == D[InodeFile(i)]
Body(D, i) == D[ContentFile(i)]

(* Bound and Links, of any disk.                                           *)
AllSlots == Inos \X Names
Named(D, s) ==
    IF IsDirectoryContent(Body(D, s[1])) /\ s[2] \in DOMAIN Body(D, s[1])
    THEN {Body(D, s[1])[s[2]][1]} ELSE {}
Marked(D, s) == Body(D, s[1])[s[2]][2]
NamesOf(D, i) == {s \in AllSlots : i \in Named(D, s)}

IsDir(D, i) == Node(D, i) # Absent /\ Node(D, i).kind = "Directory"

(* An inode has no files, or those of a file, or those of a directory.     *)
Shaped(D, i) ==
    \/ Node(D, i) = Absent /\ Body(D, i) = Absent /\ i # ROOT
    \/ Node(D, i) \in RecordsOf("File") /\ Body(D, i) = Data /\ i # ROOT
    \/ Node(D, i) \in RecordsOf("Directory") /\ Body(D, i) \in EntriesOf(i, MaxIno)

(* It exists while a name or a handle refers to it.                        *)
Held(D, H, i) ==
    IF Node(D, i) = Absent THEN NamesOf(D, i) = {} /\ H[i] = 0
    ELSE /\ Node(D, i).open_file_handles = H[i]
         /\ i = ROOT \/ NamesOf(D, i) # {} \/ H[i] > 0

(* Its link count is right; a directory without a name is empty.           *)
Counted(D, i) ==
    CASE i = ROOT -> NamesOf(D, i) = {} /\ Node(D, i).hardlinks = 2
      [] i # ROOT /\ IsDir(D, i) ->
            \/ Node(D, i).hardlinks = 2 /\ \E s \in AllSlots : NamesOf(D, i) = {s}
            \/ /\ Node(D, i).hardlinks = 0 /\ NamesOf(D, i) = {}
               /\ \A n \in Names : n \notin DOMAIN Body(D, i)
      [] i # ROOT /\ ~IsDir(D, i) ->
            Node(D, i) # Absent => Node(D, i).hardlinks = Cardinality(NamesOf(D, i))

(* Its names record its kind, and a directory knows itself and its parent. *)
Agrees(D, i) ==
    /\ \A s \in NamesOf(D, i) : Marked(D, s) = Node(D, i).kind
    /\ IsDir(D, i) =>
          /\ "." \in DOMAIN Body(D, i) /\ Body(D, i)["."] = <<i, "Directory">>
          /\ i # ROOT => ".." \in DOMAIN Body(D, i)
          /\ \A s \in NamesOf(D, i) : Body(D, i)[".."] = <<s[1], "Directory">>

Sound(D, H, i) == Shaped(D, i) /\ Held(D, H, i) /\ Counted(D, i) /\ Agrees(D, i)
Tidy(D, H) == \A i \in Inos : Sound(D, H, i)

(* What holds between requests.                                            *)
TreeInv ==
    /\ mounts \in Nat
    /\ mounted => mounts > 0
    /\ clean => IF mounts > 0 THEN Tidy(disk, handles)
                ELSE (\A f \in Files : disk[f] = Absent) /\ handles = NoHandles

---------------------------------------------------------------------------
(* What a sequence of writes leaves on a disk.                             *)

Put(D, f, v) == [g \in Files |-> IF g = f THEN v ELSE D[g]]

After(D, w) ==
    [f \in Files |->
        LET mine == {j \in 1 .. Len(w) : w[j][1] = f}
        IN  IF mine = {} THEN D[f] ELSE w[Max(mine)][2]]

LEMMA WrittenIsAfter == ASSUME NEW w PROVE Written(w, Len(w)) = After(disk, w)
  BY DEF Written, After

LEMMA AfterSkips ==
    ASSUME NEW D, NEW w, NEW f \in Files, \A j \in 1 .. Len(w) : w[j][1] # f
    PROVE  After(D, w)[f] = D[f]
  BY DEF After

LEMMA AfterLast ==
    ASSUME NEW D, NEW w, Len(w) \in Nat, NEW f \in Files, NEW j \in 1 .. Len(w), w[j][1] = f,
           \A h \in j + 1 .. Len(w) : w[h][1] # f
    PROVE  After(D, w)[f] = w[j][2]
<1> DEFINE mine == {h \in 1 .. Len(w) : w[h][1] = f}
<1>1. After(D, w)[f] = IF mine = {} THEN D[f] ELSE w[Max(mine)][2]
  BY DEF After
<1>2. j \in mine /\ \A h \in mine : h <= j
  OBVIOUS
<1>3. Max(mine) = j
  <2>1. Max(mine) \in mine /\ j <= Max(mine)
    BY <1>2, MaxOfIndices
  <2> QED
    BY <1>2, <2>1
<1> QED
  BY <1>1, <1>2, <1>3

(* A file that is written to has a last write.                             *)
LEMMA AfterSome ==
    ASSUME NEW D, NEW w, Len(w) \in Nat, NEW f \in Files
    PROVE  \/ After(D, w)[f] = D[f] /\ \A j \in 1 .. Len(w) : w[j][1] # f
           \/ \E j \in 1 .. Len(w) : /\ w[j][1] = f /\ After(D, w)[f] = w[j][2]
                                      /\ \A h \in j + 1 .. Len(w) : w[h][1] # f
<1> DEFINE mine == {j \in 1 .. Len(w) : w[j][1] = f}
<1>1. After(D, w)[f] = IF mine = {} THEN D[f] ELSE w[Max(mine)][2]
  BY DEF After
<1>2. CASE mine = {}
  BY <1>1, <1>2
<1>3. CASE mine # {}
  <2>1. Max(mine) \in mine /\ \A j \in mine : j <= Max(mine)
    BY <1>3, MaxOfIndices
  <2>2. \A h \in Max(mine) + 1 .. Len(w) : w[h][1] # f
    BY <2>1
  <2> QED
    BY <1>1, <1>3, <2>1, <2>2
<1> QED
  BY <1>2, <1>3

(* One write more.                                                         *)
LEMMA AfterMore ==
    ASSUME NEW D, NEW u, NEW w, Len(u) \in Nat, Len(w) = Len(u) + 1,
           \A j \in 1 .. Len(u) : w[j] = u[j], NEW x, w[Len(w)] = x
    PROVE  After(D, w) = Put(After(D, u), x[1], x[2])
<1> SUFFICES ASSUME NEW f \in Files
             PROVE  After(D, w)[f] = IF f = x[1] THEN x[2] ELSE After(D, u)[f]
  BY DEF After, Put
<1>1. CASE f = x[1]
  <2>1. Len(w) \in 1 .. Len(w) /\ \A h \in Len(w) + 1 .. Len(w) : FALSE
    OBVIOUS
  <2> QED
    BY <1>1, <2>1, AfterLast
<1>2. CASE f # x[1]
  <2>1. CASE After(D, u)[f] = D[f] /\ \A j \in 1 .. Len(u) : u[j][1] # f
    <3>1. \A j \in 1 .. Len(w) : w[j][1] # f
      BY <1>2, <2>1
    <3> QED
      BY <1>2, <2>1, <3>1, AfterSkips
  <2>2. ASSUME NEW j \in 1 .. Len(u), u[j][1] = f, After(D, u)[f] = u[j][2],
               \A h \in j + 1 .. Len(u) : u[h][1] # f
        PROVE  After(D, w)[f] = After(D, u)[f]
    <3>1. j \in 1 .. Len(w) /\ w[j][1] = f /\ w[j] = u[j]
      BY <2>2
    <3>2. \A h \in j + 1 .. Len(w) : w[h][1] # f
      BY <1>2, <2>2
    <3>3. After(D, w)[f] = w[j][2]
      BY <3>1, <3>2, AfterLast
    <3> QED
      BY <2>2, <3>1, <3>3
  <2> QED
    BY <1>2, <2>1, <2>2, AfterSome
<1> QED
  BY <1>1, <1>2

(* One sequence and then another.                                          *)
LEMMA AfterConcat ==
    ASSUME NEW D, NEW S, NEW u \in Seq(S), NEW T, NEW v \in Seq(T)
    PROVE  After(D, u \o v) = After(After(D, u), v)
<1> SUFFICES ASSUME NEW f \in Files
             PROVE  After(D, u \o v)[f] = After(After(D, u), v)[f]
  BY DEF After
<1> DEFINE w == u \o v
<1>1. /\ Len(w) = Len(u) + Len(v) /\ Len(u) \in Nat /\ Len(v) \in Nat /\ Len(w) \in Nat
      /\ \A j \in 1 .. Len(u) : w[j] = u[j]
      /\ \A j \in 1 .. Len(v) : Len(u) + j \in 1 .. Len(w) /\ w[Len(u) + j] = v[j]
      /\ \A j \in 1 .. Len(w) : j \notin 1 .. Len(u) => j - Len(u) \in 1 .. Len(v) /\ w[j] = v[j - Len(u)]
  <2>1. u \in Seq(S \cup T) /\ v \in Seq(S \cup T)
    OBVIOUS
  <2> QED
    BY <2>1, ConcatAt
<1> HIDE DEF w
<1>2. CASE After(After(D, u), v)[f] = After(D, u)[f] /\ \A j \in 1 .. Len(v) : v[j][1] # f
  <2>1. CASE After(D, u)[f] = D[f] /\ \A j \in 1 .. Len(u) : u[j][1] # f
    <3>1. \A j \in 1 .. Len(w) : w[j][1] # f
      BY <1>1, <1>2, <2>1
    <3>2. After(D, w)[f] = D[f]
      BY <3>1, AfterSkips
    <3> QED
      BY <1>2, <2>1, <3>2 DEF w
  <2>2. ASSUME NEW j \in 1 .. Len(u), u[j][1] = f, After(D, u)[f] = u[j][2],
               \A h \in j + 1 .. Len(u) : u[h][1] # f
        PROVE  After(D, w)[f] = After(D, u)[f]
    <3>1. j \in 1 .. Len(w) /\ w[j][1] = f /\ w[j] = u[j]
      BY <1>1, <2>2
    <3>2. \A h \in j + 1 .. Len(w) : w[h][1] # f
      <4> SUFFICES ASSUME NEW h \in j + 1 .. Len(w) PROVE w[h][1] # f
        OBVIOUS
      <4>1. CASE h \in 1 .. Len(u)
        BY <1>1, <2>2, <4>1
      <4>2. CASE h \notin 1 .. Len(u)
        BY <1>1, <1>2, <4>2
      <4> QED
        BY <4>1, <4>2
    <3>3. After(D, w)[f] = w[j][2]
      <4>1. Len(w) \in Nat
        BY <1>1
      <4> HIDE DEF w
      <4> QED
        BY <3>1, <3>2, <4>1, AfterLast
    <3> QED
      BY <2>2, <3>1, <3>3
  <2> QED
    BY <1>1, <1>2, <2>1, <2>2, AfterSome DEF w
<1>3. ASSUME NEW j \in 1 .. Len(v), v[j][1] = f, After(After(D, u), v)[f] = v[j][2],
             \A h \in j + 1 .. Len(v) : v[h][1] # f
      PROVE  After(D, w)[f] = After(After(D, u), v)[f]
  <2> DEFINE l == Len(u) + j
  <2>1. l \in 1 .. Len(w) /\ w[l] = v[j]
    BY <1>1
  <2>2. \A h \in l + 1 .. Len(w) : w[h][1] # f
    <3> SUFFICES ASSUME NEW h \in l + 1 .. Len(w) PROVE w[h][1] # f
      OBVIOUS
    <3>1. h \in 1 .. Len(w) /\ h \notin 1 .. Len(u) /\ h - Len(u) \in j + 1 .. Len(v)
      BY <1>1
    <3> QED
      BY <1>1, <1>3, <3>1
  <2>3. After(D, w)[f] = w[l][2]
    <3> HIDE DEF l
    <3>1. w[l][1] = f /\ Len(w) \in Nat
      BY <1>1, <1>3, <2>1
    <3> QED
      BY <2>1, <2>2, <3>1, AfterLast
  <2> QED
    BY <1>3, <2>1, <2>3
<1> QED
  BY <1>1, <1>2, <1>3, AfterSome DEF w

LEMMA AfterNone == ASSUME NEW D, D = [f \in Files |-> D[f]] PROVE After(D, <<>>) = D
  BY DEF After

LEMMA AfterOne == ASSUME NEW D, D = [f \in Files |-> D[f]], NEW a
    PROVE  After(D, <<a>>) = Put(D, a[1], a[2])
<1> DEFINE u == <<>>
           w == <<a>>
<1>1. Len(u) = 0 /\ Len(w) = 1 /\ w[1] = a /\ \A j \in 1 .. 0 : FALSE
  OBVIOUS
<1>2. After(D, u) = D
  BY AfterNone
<1> HIDE DEF u, w
<1>3. Len(u) \in Nat /\ Len(w) = Len(u) + 1 /\ w[Len(w)] = a /\ \A j \in 1 .. Len(u) : w[j] = u[j]
  BY <1>1
<1>4. After(D, w) = Put(After(D, u), a[1], a[2])
  BY <1>3, AfterMore
<1> QED
  BY <1>2, <1>4 DEF w

LEMMA AfterTwo == ASSUME NEW D, D = [f \in Files |-> D[f]], NEW a, NEW b
    PROVE  After(D, <<a, b>>) = Put(Put(D, a[1], a[2]), b[1], b[2])
<1> DEFINE u == <<a>>
           w == <<a, b>>
<1>1. Len(u) \in Nat /\ Len(w) = Len(u) + 1 /\ w[Len(w)] = b /\ \A j \in 1 .. Len(u) : w[j] = u[j]
  OBVIOUS
<1> HIDE DEF u, w
<1>2. After(D, w) = Put(After(D, u), b[1], b[2])
  BY <1>1, AfterMore
<1> QED
  BY <1>2, AfterOne DEF u, w

LEMMA AfterThree == ASSUME NEW D, D = [f \in Files |-> D[f]], NEW a, NEW b, NEW c
    PROVE  After(D, <<a, b, c>>) = Put(Put(Put(D, a[1], a[2]), b[1], b[2]), c[1], c[2])
<1> DEFINE u == <<a, b>>
           w == <<a, b, c>>
<1>1. Len(u) \in Nat /\ Len(w) = Len(u) + 1 /\ w[Len(w)] = c /\ \A j \in 1 .. Len(u) : w[j] = u[j]
  OBVIOUS
<1> HIDE DEF u, w
<1>2. After(D, w) = Put(After(D, u), c[1], c[2])
  BY <1>1, AfterMore
<1> QED
  BY <1>2, AfterTwo DEF u, w

LEMMA AfterFour == ASSUME NEW D, D = [f \in Files |-> D[f]], NEW a, NEW b, NEW c, NEW d
    PROVE  After(D, <<a, b, c, d>>) =
              Put(Put(Put(Put(D, a[1], a[2]), b[1], b[2]), c[1], c[2]), d[1], d[2])
<1> DEFINE u == <<a, b, c>>
           w == <<a, b, c, d>>
<1>1. Len(u) \in Nat /\ Len(w) = Len(u) + 1 /\ w[Len(w)] = d /\ \A j \in 1 .. Len(u) : w[j] = u[j]
  OBVIOUS
<1> HIDE DEF u, w
<1>2. After(D, w) = Put(After(D, u), d[1], d[2])
  BY <1>1, AfterMore
<1> QED
  BY <1>2, AfterThree DEF u, w

LEMMA AfterFive == ASSUME NEW D, D = [f \in Files |-> D[f]], NEW a, NEW b, NEW c, NEW d, NEW e
    PROVE  After(D, <<a, b, c, d, e>>) =
              Put(Put(Put(Put(Put(D, a[1], a[2]), b[1], b[2]), c[1], c[2]), d[1], d[2]), e[1], e[2])
<1> DEFINE u == <<a, b, c, d>>
           w == <<a, b, c, d, e>>
<1>1. Len(u) \in Nat /\ Len(w) = Len(u) + 1 /\ w[Len(w)] = e /\ \A j \in 1 .. Len(u) : w[j] = u[j]
  OBVIOUS
<1> HIDE DEF u, w
<1>2. After(D, w) = Put(After(D, u), e[1], e[2])
  BY <1>1, AfterMore
<1> QED
  BY <1>2, AfterFour DEF u, w

LEMMA AfterSix == ASSUME NEW D, D = [f \in Files |-> D[f]], NEW a, NEW b, NEW c, NEW d, NEW e, NEW g
    PROVE  After(D, <<a, b, c, d, e, g>>) =
              Put(Put(Put(Put(Put(Put(D, a[1], a[2]), b[1], b[2]), c[1], c[2]), d[1], d[2]), e[1], e[2]), g[1], g[2])
<1> DEFINE u == <<a, b, c, d, e>>
           w == <<a, b, c, d, e, g>>
<1>1. Len(u) \in Nat /\ Len(w) = Len(u) + 1 /\ w[Len(w)] = g /\ \A j \in 1 .. Len(u) : w[j] = u[j]
  OBVIOUS
<1> HIDE DEF u, w
<1>2. After(D, w) = Put(After(D, u), g[1], g[2])
  BY <1>1, AfterMore
<1> QED
  BY <1>2, AfterFive DEF u, w

(* The two files of an inode, after a write.                               *)
LEMMA PutInode ==
    ASSUME NEW D, NEW v, NEW j \in Inos, NEW x \in Inos
    PROVE  /\ x = j => Node(Put(D, InodeFile(j), v), x) = v
           /\ x # j => Node(Put(D, InodeFile(j), v), x) = Node(D, x)
           /\ Body(Put(D, InodeFile(j), v), x) = Body(D, x)
<1>1. \A f, g \in Files : Put(D, f, v)[g] = IF g = f THEN v ELSE D[g]
  BY DEF Put
<1>2. InodeFile(x) \in Files /\ ContentFile(x) \in Files /\ InodeFile(j) \in Files
  BY FilesDistinct
<1>3. (x # j => InodeFile(x) # InodeFile(j)) /\ ContentFile(x) # InodeFile(j)
  BY FilesDistinct
<1> QED
  BY <1>1, <1>2, <1>3 DEF Node, Body

LEMMA PutContent ==
    ASSUME NEW D, NEW v, NEW j \in Inos, NEW x \in Inos
    PROVE  /\ Node(Put(D, ContentFile(j), v), x) = Node(D, x)
           /\ x = j => Body(Put(D, ContentFile(j), v), x) = v
           /\ x # j => Body(Put(D, ContentFile(j), v), x) = Body(D, x)
<1>1. \A f, g \in Files : Put(D, f, v)[g] = IF g = f THEN v ELSE D[g]
  BY DEF Put
<1>2. InodeFile(x) \in Files /\ ContentFile(x) \in Files /\ ContentFile(j) \in Files
  BY FilesDistinct
<1>3. (x # j => ContentFile(x) # ContentFile(j)) /\ InodeFile(x) # ContentFile(j)
  BY FilesDistinct
<1> QED
  BY <1>1, <1>2, <1>3 DEF Node, Body

LEMMA PutSuperblock ==
    ASSUME NEW D, NEW v, NEW x \in Inos
    PROVE  /\ Node(Put(D, Superblock, v), x) = Node(D, x)
           /\ Body(Put(D, Superblock, v), x) = Body(D, x)
<1>1. \A f, g \in Files : Put(D, f, v)[g] = IF g = f THEN v ELSE D[g]
  BY DEF Put
<1>2. InodeFile(x) \in Files /\ ContentFile(x) \in Files /\ Superblock \in Files
  BY FilesDistinct
<1>3. InodeFile(x) # Superblock /\ ContentFile(x) # Superblock
  BY FilesDistinct
<1> QED
  BY <1>1, <1>2, <1>3 DEF Node, Body

LEMMA PutIsDisk == ASSUME NEW D, NEW f, NEW v PROVE Put(D, f, v) = [g \in Files |-> Put(D, f, v)[g]]
  BY DEF Put

---------------------------------------------------------------------------
(* Names, before and after.                                                *)

SameName(D, E, s) ==
    Named(E, s) = Named(D, s) /\ (Named(D, s) # {} => Marked(E, s) = Marked(D, s))
BoundTo(E, s, i, kind) == Named(E, s) = {i} /\ Marked(E, s) = kind

LEMMA EntriesAreContent ==
    ASSUME NEW d, NEW entries \in EntriesOf(d, MaxIno)
    PROVE  IsDirectoryContent(entries) /\ entries # Absent /\ entries # Torn /\ entries # Data
  BY ContentsAssumption DEF EntriesOf, IsDirectoryContent, Exists

LEMMA SlotParts ==
    /\ \A s \in AllSlots : s[1] \in Inos /\ s[2] \in Names /\ s = <<s[1], s[2]>>
    /\ \A d \in Inos, n \in Names : <<d, n>> \in AllSlots /\ <<d, n>>[1] = d /\ <<d, n>>[2] = n
  BY DEF AllSlots

LEMMA SameBody ==
    ASSUME NEW D, NEW E, NEW s, Body(E, s[1]) = Body(D, s[1])
    PROVE  SameName(D, E, s)
  BY DEF SameName, Named, Marked

LEMMA NamelessBody ==
    ASSUME NEW D, NEW s,
           \/ Body(D, s[1]) \in {Absent, Data}
           \/ s[2] \notin DOMAIN Body(D, s[1])
    PROVE  Named(D, s) = {}
  BY DEF Named, IsDirectoryContent, Exists

LEMMA InsertAt ==
    ASSUME NEW entries, NEW n, NEW i, NEW kind
    PROVE  /\ DOMAIN Insert(entries, n, i, kind) = DOMAIN entries \cup {n}
           /\ Insert(entries, n, i, kind)[n] = <<i, kind>>
           /\ \A m \in DOMAIN entries : m # n => Insert(entries, n, i, kind)[m] = entries[m]
  BY DEF Insert

LEMMA RemoveAt ==
    ASSUME NEW entries, NEW n
    PROVE  /\ DOMAIN Remove(entries, n) = DOMAIN entries \ {n}
           /\ \A m \in DOMAIN entries : m # n => Remove(entries, n)[m] = entries[m]
  BY DEF Remove

LEMMA NamedIn ==
    ASSUME NEW D, NEW d, NEW m, IsDirectoryContent(Body(D, d))
    PROVE  /\ Named(D, <<d, m>>) = IF m \in DOMAIN Body(D, d) THEN {Body(D, d)[m][1]} ELSE {}
           /\ Marked(D, <<d, m>>) = Body(D, d)[m][2]
<1>1. <<d, m>>[1] = d /\ <<d, m>>[2] = m
  OBVIOUS
<1> QED
  BY <1>1 DEF Named, Marked

LEMMA InsertName ==
    ASSUME NEW D, NEW E, NEW d \in Inos, NEW n, NEW i, NEW kind,
           Body(D, d) \in EntriesOf(d, MaxIno), Body(E, d) \in EntriesOf(d, MaxIno),
           Body(E, d) = Insert(Body(D, d), n, i, kind)
    PROVE  /\ BoundTo(E, <<d, n>>, i, kind)
           /\ \A m \in Names : m # n => SameName(D, E, <<d, m>>)
<1> DEFINE b == Body(D, d)
           c == Body(E, d)
<1>1. IsDirectoryContent(b) /\ IsDirectoryContent(c)
  BY EntriesAreContent
<1>2. /\ DOMAIN c = DOMAIN b \cup {n} /\ c[n][1] = i /\ c[n][2] = kind
      /\ \A m \in DOMAIN b : m # n => c[m] = b[m]
  <2>1. c = Insert(b, n, i, kind)
    OBVIOUS
  <2> HIDE DEF b, c
  <2>2. DOMAIN c = DOMAIN b \cup {n} /\ c[n] = <<i, kind>>
    BY <2>1 DEF Insert
  <2>3. \A m \in DOMAIN b : m # n => c[m] = b[m]
    BY <2>1 DEF Insert
  <2> QED
    BY <2>2, <2>3
<1>3. \A m : /\ Named(D, <<d, m>>) = IF m \in DOMAIN b THEN {b[m][1]} ELSE {}
             /\ Marked(D, <<d, m>>) = b[m][2]
  BY <1>1, NamedIn
<1>4. \A m : /\ Named(E, <<d, m>>) = IF m \in DOMAIN c THEN {c[m][1]} ELSE {}
             /\ Marked(E, <<d, m>>) = c[m][2]
  BY <1>1, NamedIn
<1> HIDE DEF b, c
<1>5. BoundTo(E, <<d, n>>, i, kind)
  BY <1>2, <1>4 DEF BoundTo
<1>6. ASSUME NEW m \in Names, m # n PROVE SameName(D, E, <<d, m>>)
  BY <1>2, <1>3, <1>4, <1>6 DEF SameName
<1> QED
  BY <1>5, <1>6

LEMMA RemoveName ==
    ASSUME NEW D, NEW E, NEW d \in Inos, NEW n \in Names,
           Body(D, d) \in EntriesOf(d, MaxIno), Body(E, d) \in EntriesOf(d, MaxIno),
           Body(E, d) = Remove(Body(D, d), n)
    PROVE  /\ Named(E, <<d, n>>) = {}
           /\ \A m \in Names : m # n => SameName(D, E, <<d, m>>)
<1> DEFINE b == Body(D, d)
           c == Body(E, d)
<1>1. IsDirectoryContent(b) /\ IsDirectoryContent(c)
  BY EntriesAreContent
<1>2. DOMAIN c = DOMAIN b \ {n} /\ \A m \in DOMAIN b : m # n => c[m] = b[m]
  <2>1. c = Remove(b, n)
    OBVIOUS
  <2> HIDE DEF b, c
  <2> QED
    BY <2>1, RemoveAt
<1>3. \A m : /\ Named(D, <<d, m>>) = IF m \in DOMAIN b THEN {b[m][1]} ELSE {}
             /\ Marked(D, <<d, m>>) = b[m][2]
  BY <1>1, NamedIn
<1>4. \A m : /\ Named(E, <<d, m>>) = IF m \in DOMAIN c THEN {c[m][1]} ELSE {}
             /\ Marked(E, <<d, m>>) = c[m][2]
  BY <1>1, NamedIn
<1> HIDE DEF b, c
<1>5. Named(E, <<d, n>>) = {}
  BY <1>2, <1>4
<1>6. ASSUME NEW m \in Names, m # n PROVE SameName(D, E, <<d, m>>)
  BY <1>2, <1>3, <1>4, <1>6 DEF SameName
<1> QED
  BY <1>5, <1>6

LEMMA NamesOne ==
    ASSUME NEW D, NEW E, NEW p \in AllSlots, \A s \in AllSlots : s # p => SameName(D, E, s), NEW x
    PROVE  /\ x \in Named(E, p) => NamesOf(E, x) = NamesOf(D, x) \cup {p}
           /\ x \notin Named(E, p) => NamesOf(E, x) = NamesOf(D, x) \ {p}
           /\ \A s \in NamesOf(D, x) : s # p => Marked(E, s) = Marked(D, s)
           /\ p \in NamesOf(D, x) <=> x \in Named(D, p)
  BY DEF NamesOf, SameName

LEMMA NamesTwo ==
    ASSUME NEW D, NEW E, NEW p \in AllSlots, NEW q \in AllSlots,
           \A s \in AllSlots : s # p /\ s # q => SameName(D, E, s), NEW x
    PROVE  /\ p \in NamesOf(E, x) <=> x \in Named(E, p)
           /\ q \in NamesOf(E, x) <=> x \in Named(E, q)
           /\ p \in NamesOf(D, x) <=> x \in Named(D, p)
           /\ q \in NamesOf(D, x) <=> x \in Named(D, q)
           /\ \A s : s # p /\ s # q => (s \in NamesOf(E, x) <=> s \in NamesOf(D, x))
           /\ \A s \in NamesOf(D, x) : s # p /\ s # q => Marked(E, s) = Marked(D, s)
  BY DEF NamesOf, SameName

LEMMA NamesNone ==
    ASSUME NEW D, NEW E, \A s \in AllSlots : SameName(D, E, s), NEW x
    PROVE  NamesOf(E, x) = NamesOf(D, x) /\ \A s \in NamesOf(D, x) : Marked(E, s) = Marked(D, s)
  BY DEF NamesOf, SameName

(* How many names there can be: the link counts have room for them.        *)
Room == Cardinality(AllSlots) <= U32Max

LEMMA SlotsFinite ==
    /\ Cardinality(AllSlots) \in Nat
    /\ \A T \in SUBSET AllSlots :
          IsFiniteSet(T) /\ Cardinality(T) \in Nat /\ Cardinality(T) <= Cardinality(AllSlots)
<1>1. IsFiniteSet(Inos)
  BY BoundsAssumption, FS_Interval DEF Inos, ROOT
<1>2. IsFiniteSet(AllSlots)
  BY <1>1, NamesAssumption, FS_Product DEF AllSlots
<1> QED
  BY <1>2, FS_Subset, FS_CardinalityType

LEMMA NameGained ==
    ASSUME NEW N \in SUBSET AllSlots, NEW p \in AllSlots, p \notin N
    PROVE  /\ Cardinality(N \cup {p}) = Cardinality(N) + 1 /\ Cardinality(N) \in Nat
           /\ Room => Cardinality(N) + 1 <= U32Max
<1>1. Cardinality(N \cup {p}) = Cardinality(N) + 1 /\ Cardinality(N) \in Nat
  BY SlotsFinite, FS_AddElement
<1>2. Cardinality(N \cup {p}) <= Cardinality(AllSlots)
  BY SlotsFinite
<1> QED
  BY <1>1, <1>2, SlotsFinite, BoundsAssumption DEF Room

LEMMA NameLost ==
    ASSUME NEW N \in SUBSET AllSlots, NEW p \in N
    PROVE  /\ Cardinality(N \ {p}) = Cardinality(N) - 1
           /\ Cardinality(N) \in Nat /\ Cardinality(N) # 0
           /\ Cardinality(N) = 1 <=> N \ {p} = {}
<1>1. IsFiniteSet(N) /\ IsFiniteSet(N \ {p}) /\ Cardinality(N) \in Nat /\ Cardinality(N \ {p}) \in Nat
  BY SlotsFinite
<1>2. Cardinality(N \ {p}) = Cardinality(N) - 1
  BY <1>1, FS_RemoveElement
<1>3. Cardinality(N \ {p}) = 0 <=> N \ {p} = {}
  BY <1>1, FS_EmptySet
<1> QED
  BY <1>1, <1>2, <1>3

LEMMA NameMoved ==
    ASSUME NEW N \in SUBSET AllSlots, NEW p \in N, NEW q \in AllSlots, q \notin N
    PROVE  Cardinality((N \ {p}) \cup {q}) = Cardinality(N)
<1> DEFINE M == N \ {p}
<1>1. M \in SUBSET AllSlots /\ q \notin M
  OBVIOUS
<1>2. Cardinality(M) = Cardinality(N) - 1 /\ Cardinality(N) \in Nat
  BY NameLost
<1> HIDE DEF M
<1>3. Cardinality(M \cup {q}) = Cardinality(M) + 1
  BY <1>1, NameGained
<1> QED
  BY <1>2, <1>3 DEF M

---------------------------------------------------------------------------
(* An inode stays sound, whichever part a change gives it.                 *)

SameEntry(b, c, n) == (n \in DOMAIN c <=> n \in DOMAIN b) /\ (n \in DOMAIN b => c[n] = b[n])

KeepsDots(D, E, x) ==
    \/ Body(E, x) = Body(D, x)
    \/ /\ IsDir(D, x) /\ (x = ROOT \/ NamesOf(D, x) # {})
       /\ Body(E, x) \in EntriesOf(x, MaxIno)
       /\ SameEntry(Body(D, x), Body(E, x), ".") /\ SameEntry(Body(D, x), Body(E, x), "..")

LEMMA KindsRead ==
    ASSUME NEW D, NEW x, Shaped(D, x)
    PROVE  /\ IsDir(D, x) => Node(D, x) \in RecordsOf("Directory") /\ Body(D, x) \in EntriesOf(x, MaxIno)
           /\ ~IsDir(D, x) /\ Node(D, x) # Absent =>
                 Node(D, x) \in RecordsOf("File") /\ Body(D, x) = Data /\ x # ROOT
           /\ Node(D, x) # Absent =>
                 /\ Node(D, x) \in InodeRecords /\ Node(D, x).hardlinks \in Nat
                 /\ Node(D, x).open_file_handles \in Nat /\ Node(D, x).kind \in Kinds
           /\ Node(D, x) = Absent => Body(D, x) = Absent /\ x # ROOT
           /\ Node(D, x) \in InodeRecords => Node(D, x) # Absent
<1>1. /\ Absent \notin InodeRecords
      /\ RecordsOf("File") \subseteq InodeRecords /\ RecordsOf("Directory") \subseteq InodeRecords
      /\ \A r \in RecordsOf("File") : r.kind = "File"
      /\ \A r \in RecordsOf("Directory") : r.kind = "Directory"
  BY ContentsAssumption DEF RecordsOf
<1>2. \A r \in InodeRecords : r.hardlinks \in Nat /\ r.open_file_handles \in Nat /\ r.kind \in Kinds
  BY DEF InodeRecords
<1>3. "File" # "Directory"
  OBVIOUS
<1> QED
  BY <1>1, <1>2, <1>3 DEF Shaped, IsDir

(* One that is only looked at, or a directory with another entry.          *)
LEMMA OthersSound ==
    ASSUME NEW D, NEW E, NEW H, NEW G, NEW x \in Inos, Sound(D, H, x),
           Node(E, x) = Node(D, x), G[x] = H[x], KeepsDots(D, E, x),
           NamesOf(E, x) = NamesOf(D, x), \A s \in NamesOf(D, x) : Marked(E, s) = Marked(D, s)
    PROVE  Sound(E, G, x)
<1>1. Shaped(D, x) /\ Held(D, H, x) /\ Counted(D, x) /\ Agrees(D, x)
  BY DEF Sound
<1>2. IsDir(E, x) <=> IsDir(D, x)
  BY DEF IsDir
<1>3. Shaped(E, x)
  <2>1. CASE Body(E, x) = Body(D, x)
    BY <1>1, <2>1 DEF Shaped
  <2>2. CASE IsDir(D, x) /\ Body(E, x) \in EntriesOf(x, MaxIno)
    <3>1. Node(E, x) \in RecordsOf("Directory")
      BY <1>1, <2>2, KindsRead
    <3> QED
      BY <2>2, <3>1 DEF Shaped
  <2> QED
    BY <2>1, <2>2 DEF KeepsDots
<1>4. Held(E, G, x)
  BY <1>1 DEF Held
<1>5. Counted(E, x)
  BY <1>1, <1>2 DEF Counted, KeepsDots
<1>6. Agrees(E, x)
  <2>1. \A s \in NamesOf(E, x) : Marked(E, s) = Node(E, x).kind
    BY <1>1 DEF Agrees
  <2>2. ASSUME IsDir(E, x)
        PROVE  /\ "." \in DOMAIN Body(E, x) /\ Body(E, x)["."] = <<x, "Directory">>
               /\ x # ROOT => ".." \in DOMAIN Body(E, x)
               /\ \A s \in NamesOf(E, x) : Body(E, x)[".."] = <<s[1], "Directory">>
    <3>1. /\ "." \in DOMAIN Body(D, x) /\ Body(D, x)["."] = <<x, "Directory">>
          /\ x # ROOT => ".." \in DOMAIN Body(D, x)
          /\ \A s \in NamesOf(D, x) : Body(D, x)[".."] = <<s[1], "Directory">>
      BY <1>1, <1>2, <2>2 DEF Agrees
    <3>2. CASE Body(E, x) = Body(D, x)
      BY <3>1, <3>2
    <3>3. CASE SameEntry(Body(D, x), Body(E, x), ".") /\ SameEntry(Body(D, x), Body(E, x), "..")
      <4>1. NamesOf(D, x) # {} => x # ROOT
        BY <1>1 DEF Counted
      <4> QED
        BY <3>1, <3>3, <4>1 DEF SameEntry
    <3> QED
      BY <3>2, <3>3 DEF KeepsDots
  <2> QED
    BY <2>1, <2>2 DEF Agrees
<1> QED
  BY <1>3, <1>4, <1>5, <1>6 DEF Sound

(* One with one name more.                                                 *)
LEMMA LinkedSound ==
    ASSUME Room, NEW D, NEW E, NEW H, NEW G, NEW x \in Inos, Sound(D, H, x), Node(D, x) # Absent, ~IsDir(D, x),
           NEW p \in AllSlots, p \notin NamesOf(D, x),
           Node(E, x) = IncrementLinks(Node(D, x)), Body(E, x) = Body(D, x), G[x] = H[x],
           NamesOf(E, x) = NamesOf(D, x) \cup {p}, Marked(E, p) = Node(D, x).kind,
           \A s \in NamesOf(D, x) : Marked(E, s) = Marked(D, s)
    PROVE  Sound(E, G, x)
<1> DEFINE r == Node(D, x)
           N == NamesOf(D, x)
<1>1. Shaped(D, x) /\ Held(D, H, x) /\ Counted(D, x) /\ Agrees(D, x)
  BY DEF Sound
<1>2. r \in RecordsOf("File") /\ r \in InodeRecords /\ r.kind = "File" /\ Body(D, x) = Data /\ x # ROOT
  BY <1>1, KindsRead DEF RecordsOf
<1>3. r.hardlinks = Cardinality(N)
  BY <1>1, <1>2 DEF Counted
<1>4. N \in SUBSET AllSlots
  BY DEF NamesOf
<1>5. Cardinality(N \cup {p}) = Cardinality(N) + 1 /\ Cardinality(N) \in Nat /\ Cardinality(N) + 1 <= U32Max
  BY <1>4, NameGained
<1>6. (r.hardlinks + 1) % (U32Max + 1) = r.hardlinks + 1
  <2>1. r.hardlinks \in Nat /\ U32Max \in Nat /\ r.hardlinks + 1 <= U32Max
    BY <1>3, <1>5, BoundsAssumption
  <2> HIDE DEF r
  <2> QED
    BY <2>1
<1>7. /\ Node(E, x) \in InodeRecords /\ Node(E, x).kind = "File"
      /\ Node(E, x).open_file_handles = r.open_file_handles
      /\ Node(E, x).hardlinks = Cardinality(N \cup {p})
  <2>1. IncrementLinks(r) = [r EXCEPT !.hardlinks = r.hardlinks + 1]
    <3> DEFINE inc == (r.hardlinks + 1) % (U32Max + 1)
    <3>1. IncrementLinks(r) = [r EXCEPT !.hardlinks = inc]
      BY DEF IncrementLinks
    <3>2. inc = r.hardlinks + 1
      BY <1>6
    <3> HIDE DEF inc, r
    <3> QED
      BY <3>1, <3>2
  <2>2. r.hardlinks + 1 \in Nat
    BY <1>3, <1>5
  <2> DEFINE k == r.hardlinks + 1
             t == [r EXCEPT !.hardlinks = k]
  <2>3. Node(E, x) = t
    BY <2>1
  <2>4. k = Cardinality(N \cup {p})
    BY <1>3, <1>5
  <2> HIDE DEF r, N, k
  <2>5. t \in InodeRecords /\ t.kind = r.kind /\ t.open_file_handles = r.open_file_handles /\ t.hardlinks = k
    BY <1>2, <2>2, RecordUpdates DEF k
  <2> HIDE DEF t
  <2> QED
    BY <1>2, <2>3, <2>4, <2>5
<1>8. Node(E, x) # Absent /\ ~IsDir(E, x) /\ Node(E, x) \in RecordsOf("File")
  BY <1>7, ContentsAssumption DEF IsDir, RecordsOf
<1>9. Shaped(E, x)
  BY <1>2, <1>8 DEF Shaped
<1>10. Held(E, G, x)
  BY <1>1, <1>7, <1>8 DEF Held
<1>11. Counted(E, x)
  BY <1>2, <1>7, <1>8 DEF Counted
<1>12. Agrees(E, x)
  BY <1>1, <1>2, <1>7, <1>8 DEF Agrees
<1> QED
  BY <1>9, <1>10, <1>11, <1>12 DEF Sound

(* One that is collected.                                                  *)
LEMMA GoneSound ==
    ASSUME NEW E, NEW G, NEW x \in Inos, x # ROOT, Node(E, x) = Absent, Body(E, x) = Absent,
           NamesOf(E, x) = {}, G[x] = 0
    PROVE  Sound(E, G, x)
  BY DEF Sound, Shaped, Held, Counted, Agrees, IsDir

Collects(r) == r.hardlinks = 0 /\ r.open_file_handles = 0

(* One with one name less.                                                 *)
LEMMA UnlinkedSound ==
    ASSUME NEW D, NEW E, NEW H, NEW G, NEW x \in Inos, Sound(D, H, x),
           NEW p \in NamesOf(D, x), NEW r,
           r = IF IsDir(D, x) THEN [Node(D, x) EXCEPT !.hardlinks = 0] ELSE DecrementLinks(Node(D, x)),
           IsDir(D, x) => \A n \in Names : n \notin DOMAIN Body(D, x),
           Collects(r) => Node(E, x) = Absent /\ Body(E, x) = Absent,
           ~Collects(r) => Node(E, x) = r /\ Body(E, x) = Body(D, x),
           G[x] = H[x], NamesOf(E, x) = NamesOf(D, x) \ {p},
           \A s \in NamesOf(D, x) \ {p} : Marked(E, s) = Marked(D, s)
    PROVE  Sound(E, G, x)
<1> DEFINE q == Node(D, x)
           N == NamesOf(D, x)
<1>1. Shaped(D, x) /\ Held(D, H, x) /\ Counted(D, x) /\ Agrees(D, x)
  BY DEF Sound
<1>2. x # ROOT /\ q # Absent
  BY <1>1 DEF Counted, Held
<1>3. q \in InodeRecords /\ q.hardlinks \in Nat /\ q.open_file_handles \in Nat
  BY <1>1, <1>2, KindsRead
<1>4. N \in SUBSET AllSlots
  BY DEF NamesOf
<1>5. q.open_file_handles = H[x]
  BY <1>1, <1>2 DEF Held
<1>6. CASE ~IsDir(D, x)
  <2>1. q \in RecordsOf("File") /\ q.kind = "File" /\ Body(D, x) = Data
    BY <1>1, <1>2, <1>6, KindsRead DEF RecordsOf
  <2>2. q.hardlinks = Cardinality(N)
    BY <1>1, <1>2, <1>6 DEF Counted
  <2>3. /\ Cardinality(N \ {p}) = Cardinality(N) - 1
        /\ Cardinality(N) \in Nat /\ Cardinality(N) # 0
        /\ Cardinality(N) = 1 <=> N \ {p} = {}
    BY <1>4, NameLost
  <2> DEFINE k == q.hardlinks - 1
             t == [q EXCEPT !.hardlinks = k]
  <2>4. k \in Nat /\ k = Cardinality(N \ {p}) /\ (k = 0 <=> N \ {p} = {})
    BY <2>2, <2>3
  <2>5. r = t
    <3> DEFINE dec == IF q.hardlinks = 0 THEN U32Max ELSE q.hardlinks - 1
    <3>1. r = [q EXCEPT !.hardlinks = dec]
      BY <1>6 DEF DecrementLinks
    <3>2. dec = k
      BY <2>2, <2>3
    <3> HIDE DEF dec, k, q
    <3> QED
      BY <3>1, <3>2
  <2> HIDE DEF q, k
  <2>6. t \in InodeRecords /\ t.kind = q.kind /\ t.open_file_handles = q.open_file_handles /\ t.hardlinks = k
    <3>1. k \in Nat /\ q \in InodeRecords
      BY <1>3, <2>4
    <3> QED
      BY <3>1, RecordUpdates
  <2> HIDE DEF t
  <2>7. r \in InodeRecords /\ r.kind = "File" /\ r.open_file_handles = H[x] /\ r.hardlinks = k
    BY <1>5, <2>1, <2>5, <2>6
  <2>8. CASE Collects(r)
    <3>1. N \ {p} = {} /\ H[x] = 0
      BY <2>4, <2>7, <2>8 DEF Collects
    <3> QED
      BY <1>2, <2>8, <3>1, GoneSound DEF N
  <2>9. CASE ~Collects(r)
    <3>1. Node(E, x) = r /\ Body(E, x) = Data /\ r # Absent /\ r \in RecordsOf("File") /\ ~IsDir(E, x)
      BY <2>1, <2>7, <2>9, ContentsAssumption DEF RecordsOf, IsDir
    <3>2. Shaped(E, x)
      BY <1>2, <3>1 DEF Shaped
    <3>3. Held(E, G, x)
      <4>1. N \ {p} # {} \/ H[x] > 0
        BY <1>3, <1>5, <2>4, <2>7, <2>9 DEF Collects
      <4> QED
        BY <2>7, <3>1, <4>1 DEF Held, N
    <3>4. Counted(E, x)
      BY <1>2, <2>4, <2>7, <3>1 DEF Counted, N
    <3>5. Agrees(E, x)
      BY <1>1, <2>1, <2>7, <3>1 DEF Agrees, N, q
    <3> QED
      BY <3>2, <3>3, <3>4, <3>5 DEF Sound
  <2> QED
    BY <2>8, <2>9
<1>7. CASE IsDir(D, x)
  <2>1. q \in RecordsOf("Directory") /\ q.kind = "Directory" /\ Body(D, x) \in EntriesOf(x, MaxIno)
    BY <1>1, <1>7, KindsRead DEF RecordsOf
  <2>2. N \ {p} = {}
    BY <1>1, <1>2, <1>7 DEF Counted
  <2> DEFINE t == [q EXCEPT !.hardlinks = 0]
  <2>3. r = t
    BY <1>7
  <2> HIDE DEF q
  <2>4. t \in InodeRecords /\ t.kind = q.kind /\ t.open_file_handles = q.open_file_handles /\ t.hardlinks = 0
    BY <1>3, RecordUpdates
  <2> HIDE DEF t
  <2>5. r \in InodeRecords /\ r.kind = "Directory" /\ r.open_file_handles = H[x] /\ r.hardlinks = 0
    BY <1>5, <2>1, <2>3, <2>4
  <2>6. CASE Collects(r)
    <3>1. H[x] = 0
      BY <2>5, <2>6 DEF Collects
    <3> QED
      BY <1>2, <2>2, <2>6, <3>1, GoneSound DEF N
  <2>7. CASE ~Collects(r)
    <3>1. Node(E, x) = r /\ Body(E, x) = Body(D, x) /\ r # Absent /\ r \in RecordsOf("Directory") /\ IsDir(E, x)
      BY <2>5, <2>7, ContentsAssumption DEF RecordsOf, IsDir
    <3>2. Shaped(E, x)
      BY <2>1, <3>1 DEF Shaped
    <3>3. Held(E, G, x)
      <4>1. H[x] > 0
        BY <1>3, <1>5, <2>5, <2>7 DEF Collects
      <4> QED
        BY <2>5, <3>1, <4>1 DEF Held
    <3>4. Counted(E, x)
      BY <1>2, <1>7, <2>2, <2>5, <3>1 DEF Counted, N
    <3>5. Agrees(E, x)
      BY <1>1, <1>7, <2>2, <3>1 DEF Agrees, N
    <3> QED
      BY <3>2, <3>3, <3>4, <3>5 DEF Sound
  <2> QED
    BY <2>6, <2>7
<1> QED
  BY <1>6, <1>7

(* One whose name moves, a directory getting a new parent.                 *)
LEMMA MovedSound ==
    ASSUME NEW D, NEW E, NEW H, NEW G, NEW x \in Inos, Sound(D, H, x),
           NEW p \in NamesOf(D, x), NEW q \in AllSlots, q \notin NamesOf(D, x),
           Node(E, x) = Node(D, x), G[x] = H[x],
           IsDir(D, x) => Body(E, x) = Insert(Body(D, x), "..", q[1], "Directory"),
           ~IsDir(D, x) => Body(E, x) = Body(D, x),
           NamesOf(E, x) = (NamesOf(D, x) \ {p}) \cup {q}, Marked(E, q) = Node(D, x).kind,
           \A s \in NamesOf(D, x) \ {p} : Marked(E, s) = Marked(D, s)
    PROVE  Sound(E, G, x)
<1> DEFINE N == NamesOf(D, x)
           M == (N \ {p}) \cup {q}
<1>1. Shaped(D, x) /\ Held(D, H, x) /\ Counted(D, x) /\ Agrees(D, x)
  BY DEF Sound
<1>2. x # ROOT /\ Node(D, x) # Absent
  BY <1>1 DEF Counted, Held
<1>3. N \in SUBSET AllSlots /\ NamesOf(E, x) = M /\ M # {}
  BY DEF NamesOf
<1>4. Cardinality(M) = Cardinality(N)
  BY <1>3, NameMoved
<1>5. IsDir(E, x) <=> IsDir(D, x)
  BY DEF IsDir
<1>6. Held(E, G, x)
  BY <1>1, <1>2, <1>3 DEF Held
<1>7. \A s \in M : Marked(E, s) = Node(E, x).kind
  BY <1>1 DEF Agrees
<1>8. CASE ~IsDir(D, x)
  <2>1. Shaped(E, x)
    BY <1>1, <1>8 DEF Shaped
  <2>2. Counted(E, x)
    BY <1>1, <1>2, <1>3, <1>4, <1>5, <1>8 DEF Counted
  <2>3. Agrees(E, x)
    BY <1>3, <1>5, <1>7, <1>8 DEF Agrees
  <2> QED
    BY <1>6, <2>1, <2>2, <2>3 DEF Sound
<1>9. CASE IsDir(D, x)
  <2> DEFINE b == Body(D, x)
             c == Body(E, x)
  <2>1. b \in EntriesOf(x, MaxIno) /\ Node(D, x) \in RecordsOf("Directory")
    BY <1>1, <1>9, KindsRead
  <2>2. q[1] \in 1 .. MaxIno
    BY SlotParts DEF Inos, ROOT
  <2>3. c = Insert(b, "..", q[1], "Directory")
    BY <1>9
  <2>4. "." \in DOMAIN b /\ b["."] = <<x, "Directory">>
    BY <1>1, <1>9 DEF Agrees
  <2> HIDE DEF b, c
  <2>5. c \in EntriesOf(x, MaxIno)
    <3>1. ".." \in Names \cup {".", ".."} /\ "Directory" \in Kinds /\ ~(".." \in Names)
      BY NamesAssumption DEF Kinds
    <3> QED
      BY <2>1, <2>2, <2>3, <3>1, InsertEntries
  <2>6. "." \in DOMAIN c /\ c["."] = <<x, "Directory">> /\ ".." \in DOMAIN c /\ c[".."] = <<q[1], "Directory">>
    BY <2>3, <2>4 DEF Insert
  <2>7. Shaped(E, x)
    BY <2>1, <2>5 DEF Shaped, c
  <2>8. N = {p} /\ Node(D, x).hardlinks = 2 /\ M = {q}
    BY <1>1, <1>2, <1>9 DEF Counted
  <2>9. Counted(E, x)
    BY <1>2, <1>3, <1>5, <1>9, <2>8 DEF Counted
  <2>10. Agrees(E, x)
    BY <1>3, <1>7, <2>6, <2>8 DEF Agrees, c
  <2> QED
    BY <1>6, <2>7, <2>9, <2>10 DEF Sound
<1> QED
  BY <1>8, <1>9

(* An inode with its number of handles written over.                       *)
Reheld(q, k, t) == q \in InodeRecords /\ k \in Nat /\ t = [q EXCEPT !.open_file_handles = k]

LEMMA HandlesUpdated ==
    ASSUME NEW q, NEW k, NEW t, Reheld(q, k, t)
    PROVE  t \in InodeRecords /\ t.kind = q.kind /\ t.hardlinks = q.hardlinks /\ t.open_file_handles = k
  BY RecordUpdates DEF Reheld

(* One with another number of handles, perhaps none.                       *)
LEMMA HandleSound ==
    ASSUME NEW D, NEW E, NEW H, NEW G, NEW x \in Inos, Sound(D, H, x), Node(D, x) # Absent,
           G[x] \in Nat, NEW r, r = [Node(D, x) EXCEPT !.open_file_handles = G[x]],
           Collects(r) => Node(E, x) = Absent /\ Body(E, x) = Absent,
           ~Collects(r) => Node(E, x) = r /\ Body(E, x) = Body(D, x),
           NamesOf(E, x) = NamesOf(D, x), \A s \in NamesOf(D, x) : Marked(E, s) = Marked(D, s)
    PROVE  Sound(E, G, x)
<1> DEFINE q == Node(D, x)
           N == NamesOf(D, x)
<1>1. Shaped(D, x) /\ Held(D, H, x) /\ Counted(D, x) /\ Agrees(D, x)
  BY DEF Sound
<1>2. q \in InodeRecords /\ q.hardlinks \in Nat /\ q.kind \in Kinds
  BY <1>1, KindsRead
<1>3. r \in InodeRecords /\ r.kind = q.kind /\ r.hardlinks = q.hardlinks /\ r.open_file_handles = G[x]
  <2>1. Reheld(q, G[x], r)
    BY <1>2 DEF Reheld
  <2> QED
    BY <2>1, HandlesUpdated
<1>4. x # ROOT => (q.hardlinks = 0 <=> N = {})
  <2> SUFFICES ASSUME x # ROOT PROVE q.hardlinks = 0 <=> N = {}
    OBVIOUS
  <2>1. IsFiniteSet(N)
    <3>1. N \in SUBSET AllSlots
      BY DEF NamesOf
    <3> QED
      BY <3>1, SlotsFinite
  <2>2. CASE IsDir(D, x)
    BY <1>1, <2>2 DEF Counted
  <2>3. CASE ~IsDir(D, x)
    <3>1. q.hardlinks = Cardinality(N)
      BY <1>1, <2>3 DEF Counted
    <3> QED
      BY <2>1, <3>1, FS_EmptySet
  <2> QED
    BY <2>2, <2>3
<1>5. x = ROOT => q.hardlinks = 2
  BY <1>1 DEF Counted
<1>6. CASE Collects(r)
  <2>1. x # ROOT /\ N = {} /\ G[x] = 0
    BY <1>3, <1>4, <1>5, <1>6 DEF Collects
  <2> QED
    BY <1>6, <2>1, GoneSound
<1>7. CASE ~Collects(r)
  <2>1. Node(E, x) = r /\ Body(E, x) = Body(D, x) /\ r # Absent /\ (IsDir(E, x) <=> IsDir(D, x))
    BY <1>3, <1>7, ContentsAssumption DEF IsDir
  <2>2. Shaped(E, x)
    <3>1. q \in RecordsOf("File") => r \in RecordsOf("File")
      BY <1>3 DEF RecordsOf
    <3>2. q \in RecordsOf("Directory") => r \in RecordsOf("Directory")
      BY <1>3 DEF RecordsOf
    <3> QED
      BY <1>1, <2>1, <3>1, <3>2 DEF Shaped
  <2>3. Held(E, G, x)
    <3>1. x = ROOT \/ N # {} \/ G[x] > 0
      BY <1>3, <1>4, <1>7 DEF Collects
    <3> QED
      BY <1>3, <2>1, <3>1 DEF Held
  <2>4. Counted(E, x)
    BY <1>1, <1>3, <2>1 DEF Counted
  <2>5. Agrees(E, x)
    BY <1>1, <1>3, <2>1 DEF Agrees
  <2> QED
    BY <2>2, <2>3, <2>4, <2>5 DEF Sound
<1> QED
  BY <1>6, <1>7

Dots(k, d) == [m \in {".", ".."} |-> <<IF m = "." THEN k ELSE d, "Directory">>]

LEMMA DotsEntries ==
    ASSUME NEW k \in Inos, NEW d \in Inos
    PROVE  /\ Dots(k, d) \in EntriesOf(k, MaxIno)
           /\ "." \in DOMAIN Dots(k, d) /\ Dots(k, d)["."] = <<k, "Directory">>
           /\ ".." \in DOMAIN Dots(k, d) /\ Dots(k, d)[".."] = <<d, "Directory">>
           /\ \A n \in Names : n \notin DOMAIN Dots(k, d)
<1>1. "." # ".."
  OBVIOUS
<1>2. k \in 1 .. MaxIno /\ d \in 1 .. MaxIno /\ "Directory" \in Kinds
  BY DEF Inos, ROOT, Kinds
<1>3. Dots(k, d) \in [{".", ".."} -> (1 .. MaxIno) \X Kinds]
  BY <1>2 DEF Dots
<1>4. Dots(k, d) \in EntriesTo(MaxIno)
  BY <1>3 DEF EntriesTo
<1>5. \A n \in Names : n \notin DOMAIN Dots(k, d)
  BY NamesAssumption DEF Dots
<1>6. Dots(k, d) \in EntriesOf(k, MaxIno)
  BY <1>3, <1>4, <1>5 DEF EntriesOf, Dotted
<1> QED
  BY <1>1, <1>5, <1>6 DEF Dots

(* One that is new, with a name or a handle.                               *)
LEMMA NewSound ==
    ASSUME NEW E, NEW G, NEW x \in Inos, x # ROOT, NEW kind \in Kinds, NEW p \in AllSlots, G[x] \in Nat,
           Node(E, x) = Attrs(kind, IF kind = "File" THEN 1 ELSE 2, G[x]),
           kind = "File" => Body(E, x) = Data,
           kind = "Directory" => Body(E, x) = Dots(x, p[1]),
           NamesOf(E, x) = {p}, Marked(E, p) = kind
    PROVE  Sound(E, G, x)
<1> DEFINE r == Node(E, x)
           k == IF kind = "File" THEN 1 ELSE 2
<1>1. r \in InodeRecords /\ r.kind = kind /\ r.open_file_handles = G[x] /\ r.hardlinks = k
  <2>1. k \in Nat /\ r = Attrs(kind, k, G[x])
    OBVIOUS
  <2> HIDE DEF k, r
  <2> QED
    BY <2>1, NewAttrs DEF Attrs
<1>2. r # Absent /\ (IsDir(E, x) <=> kind = "Directory")
  BY <1>1, ContentsAssumption DEF IsDir
<1>3. kind = "Directory" => /\ Body(E, x) \in EntriesOf(x, MaxIno)
                            /\ "." \in DOMAIN Body(E, x) /\ Body(E, x)["."] = <<x, "Directory">>
                            /\ ".." \in DOMAIN Body(E, x) /\ Body(E, x)[".."] = <<p[1], "Directory">>
  <2>1. p[1] \in Inos
    BY SlotParts
  <2> QED
    BY <2>1, DotsEntries
<1>4. kind = "File" \/ kind = "Directory"
  BY DEF Kinds
<1>5. Shaped(E, x)
  BY <1>1, <1>3, <1>4 DEF Shaped, RecordsOf
<1>6. Held(E, G, x)
  BY <1>1, <1>2 DEF Held
<1>7. Counted(E, x)
  <2>1. Cardinality({p}) = 1
    BY FS_Singleton
  <2> QED
    BY <1>1, <1>2, <1>4, <2>1 DEF Counted
<1>8. Agrees(E, x)
  BY <1>1, <1>2, <1>3 DEF Agrees
<1> QED
  BY <1>5, <1>6, <1>7, <1>8 DEF Sound

LEMMA UnnamedSound ==
    ASSUME NEW E, NEW G, NEW x \in Inos, x # ROOT, G[x] = 1,
           Node(E, x) = Attrs("File", 0, 1), Body(E, x) = Data, NamesOf(E, x) = {}
    PROVE  Sound(E, G, x)
<1> DEFINE r == Node(E, x)
<1>1. r \in InodeRecords /\ r.kind = "File" /\ r.open_file_handles = 1 /\ r.hardlinks = 0
  <2>1. "File" \in Kinds
    BY DEF Kinds
  <2> QED
    BY <2>1, NewAttrs DEF Attrs
<1>2. r # Absent /\ ~IsDir(E, x) /\ r \in RecordsOf("File")
  BY <1>1, ContentsAssumption DEF IsDir, RecordsOf
<1>3. Counted(E, x)
  BY <1>1, <1>2, FS_EmptySet DEF Counted
<1>4. Agrees(E, x)
  BY <1>2 DEF Agrees
<1> QED
  BY <1>1, <1>2, <1>3, <1>4 DEF Sound, Shaped, Held

---------------------------------------------------------------------------
(* The changes that requests make, each keeping a tidy disk tidy.          *)

InTree(D, d) == d \in Inos /\ IsDir(D, d) /\ (d = ROOT \/ NamesOf(D, d) # {})

LEMMA InsertKeepsDots ==
    ASSUME NEW D, NEW E, NEW d, InTree(D, d), Shaped(D, d), NEW n \in Names, NEW i \in Inos, i # d,
           NEW kind \in Kinds, Body(E, d) = Insert(Body(D, d), n, i, kind)
    PROVE  /\ Body(D, d) \in EntriesOf(d, MaxIno) /\ Body(E, d) \in EntriesOf(d, MaxIno)
           /\ KeepsDots(D, E, d)
<1> DEFINE b == Body(D, d)
           c == Body(E, d)
<1>1. b \in EntriesOf(d, MaxIno)
  BY KindsRead DEF InTree
<1>2. n \in Names \cup {".", ".."} /\ i \in 1 .. MaxIno /\ n # "." /\ n # ".."
  BY NamesAssumption DEF Inos, ROOT
<1>3. c = Insert(b, n, i, kind)
  OBVIOUS
<1> HIDE DEF b, c
<1>4. c \in EntriesOf(d, MaxIno)
  BY <1>1, <1>2, <1>3, InsertEntries
<1>5. SameEntry(b, c, ".") /\ SameEntry(b, c, "..")
  BY <1>2, <1>3 DEF SameEntry, Insert
<1> QED
  BY <1>1, <1>4, <1>5 DEF KeepsDots, InTree, b, c

LEMMA RemoveKeepsDots ==
    ASSUME NEW D, NEW E, NEW d, InTree(D, d), Shaped(D, d), NEW n \in Names,
           Body(E, d) = Remove(Body(D, d), n)
    PROVE  /\ Body(D, d) \in EntriesOf(d, MaxIno) /\ Body(E, d) \in EntriesOf(d, MaxIno)
           /\ KeepsDots(D, E, d)
<1> DEFINE b == Body(D, d)
           c == Body(E, d)
<1>1. b \in EntriesOf(d, MaxIno)
  BY KindsRead DEF InTree
<1>2. n # "." /\ n # ".."
  BY NamesAssumption
<1>3. c = Remove(b, n)
  OBVIOUS
<1> HIDE DEF b, c
<1>4. c \in EntriesOf(d, MaxIno)
  BY <1>1, <1>3, RemoveEntries
<1>5. SameEntry(b, c, ".") /\ SameEntry(b, c, "..")
  BY <1>2, <1>3 DEF SameEntry, Remove
<1> QED
  BY <1>1, <1>4, <1>5 DEF KeepsDots, InTree, b, c

(* What a name of a tidy disk leads to.                                    *)
LEMMA NamedInode ==
    ASSUME NEW D, NEW H, Tidy(D, H), NEW s \in AllSlots, NEW i \in Named(D, s)
    PROVE  /\ i \in Inos /\ i # s[1] /\ i # ROOT /\ Node(D, i) # Absent
           /\ Named(D, s) = {i} /\ s \in NamesOf(D, i) /\ Marked(D, s) = Node(D, i).kind
           /\ IsDir(D, s[1]) /\ Sound(D, H, i) /\ Node(D, i).kind \in Kinds
<1> DEFINE b == Body(D, s[1])
<1>1. s[1] \in Inos /\ s[2] \in Names
  BY SlotParts
<1>2. IsDirectoryContent(b) /\ s[2] \in DOMAIN b /\ i = b[s[2]][1] /\ Named(D, s) = {i}
  BY DEF Named
<1>3. Sound(D, H, s[1])
  BY <1>1 DEF Tidy
<1>4. IsDir(D, s[1]) /\ b \in EntriesOf(s[1], MaxIno)
  <2>1. b # Absent /\ b # Data
    BY <1>2 DEF IsDirectoryContent, Exists
  <2>2. Shaped(D, s[1])
    BY <1>3 DEF Sound
  <2>3. Node(D, s[1]) \in RecordsOf("Directory") /\ b \in EntriesOf(s[1], MaxIno)
    BY <2>1, <2>2 DEF Shaped
  <2>4. IsDir(D, s[1])
    BY <2>3, ContentsAssumption DEF IsDir, RecordsOf
  <2> QED
    BY <2>3, <2>4
<1>5. i \in Inos /\ i # s[1]
  <2> HIDE DEF b
  <2>1. \A n \in DOMAIN b : b[n] \in (1 .. MaxIno) \X Kinds
    BY <1>4 DEF EntriesOf, EntriesTo
  <2>2. b[s[2]][1] \in 1 .. MaxIno
    BY <1>2, <2>1
  <2> QED
    BY <1>1, <1>2, <1>4, <2>2 DEF EntriesOf, Inos, ROOT
<1>6. s \in NamesOf(D, i)
  BY DEF NamesOf
<1>7. Sound(D, H, i)
  BY <1>5 DEF Tidy
<1>8. i # ROOT /\ Node(D, i) # Absent /\ Marked(D, s) = Node(D, i).kind
  BY <1>6, <1>7 DEF Sound, Counted, Held, Agrees
<1>9. Node(D, i).kind \in Kinds
  BY <1>7, <1>8, KindsRead DEF Sound
<1> QED
  BY <1>2, <1>4, <1>5, <1>6, <1>7, <1>8, <1>9

(* A new inode, entered in a directory.                                    *)
LEMMA NewTidy ==
    ASSUME NEW D, NEW E, NEW H, NEW G, Tidy(D, H), NEW d, InTree(D, d), NEW n \in Names,
           Named(D, <<d, n>>) = {}, NEW k \in Inos, Node(D, k) = Absent, NEW kind \in Kinds, G[k] \in Nat,
           \A x \in Inos : x # k => Node(E, x) = Node(D, x) /\ G[x] = H[x],
           \A x \in Inos : x # k /\ x # d => Body(E, x) = Body(D, x),
           Node(E, k) = Attrs(kind, IF kind = "File" THEN 1 ELSE 2, G[k]),
           kind = "File" => Body(E, k) = Data,
           kind = "Directory" => Body(E, k) = Dots(k, d),
           Body(E, d) = Insert(Body(D, d), n, k, kind)
    PROVE  Tidy(E, G)
<1> DEFINE p == <<d, n>>
<1>1. /\ \A x \in Inos : Sound(D, H, x)
      /\ d \in Inos /\ d # k /\ p \in AllSlots /\ p[1] = d /\ p[2] = n
  BY SlotParts DEF Tidy, InTree, IsDir
<1>2. Shaped(D, d) /\ Shaped(D, k) /\ Held(D, H, k)
  BY <1>1 DEF Sound
<1>3. k # ROOT /\ Body(D, k) = Absent /\ NamesOf(D, k) = {}
  BY <1>2, KindsRead DEF Held
<1>4. /\ Body(D, d) \in EntriesOf(d, MaxIno) /\ Body(E, d) \in EntriesOf(d, MaxIno)
      /\ KeepsDots(D, E, d)
  BY <1>1, <1>2, InsertKeepsDots
<1>5. BoundTo(E, p, k, kind) /\ \A m \in Names : m # n => SameName(D, E, <<d, m>>)
  BY <1>1, <1>4, InsertName
<1>6. ASSUME NEW s \in AllSlots, s # p PROVE SameName(D, E, s)
  <2>1. s[1] \in Inos /\ s[2] \in Names /\ s = <<s[1], s[2]>> /\ s # p
    BY <1>6, SlotParts
  <2>2. CASE s[1] = d
    <3>1. s[2] # n /\ s = <<d, s[2]>>
      BY <2>1, <2>2
    <3> QED
      BY <1>5, <2>1, <3>1
  <2>3. CASE s[1] = k
    <3>1. Named(D, s) = {}
      BY <1>3, <2>3, NamelessBody
    <3>2. Body(E, k) = Data \/ s[2] \notin DOMAIN Body(E, k)
      BY <1>1, <2>1, DotsEntries DEF Kinds
    <3>3. Named(E, s) = {}
      BY <2>3, <3>2, NamelessBody
    <3> QED
      BY <3>1, <3>3 DEF SameName
  <2>4. CASE s[1] # d /\ s[1] # k
    BY <2>1, <2>4, SameBody
  <2> QED
    BY <2>2, <2>3, <2>4
<1>7. Named(E, p) = {k} /\ Marked(E, p) = kind
  BY <1>5 DEF BoundTo
<1> HIDE DEF p
<1>8. \A x : /\ x \in Named(E, p) => NamesOf(E, x) = NamesOf(D, x) \cup {p}
             /\ x \notin Named(E, p) => NamesOf(E, x) = NamesOf(D, x) \ {p}
             /\ \A s \in NamesOf(D, x) : s # p => Marked(E, s) = Marked(D, s)
             /\ p \in NamesOf(D, x) <=> x \in Named(D, p)
  BY <1>1, <1>6, NamesOne
<1>9. /\ NamesOf(E, k) = {p} /\ \A x : x # k => NamesOf(E, x) = NamesOf(D, x)
      /\ \A x : \A s \in NamesOf(D, x) : Marked(E, s) = Marked(D, s)
  <2>1. \A x : p \notin NamesOf(D, x)
    BY <1>8 DEF p
  <2>2. NamesOf(E, k) = {p}
    BY <1>3, <1>7, <1>8
  <2>3. ASSUME NEW x, x # k PROVE NamesOf(E, x) = NamesOf(D, x)
    <3>1. x \notin Named(E, p)
      BY <1>7, <2>3
    <3> QED
      BY <1>8, <2>1, <3>1
  <2> QED
    BY <1>8, <2>1, <2>2, <2>3
<1>10. Sound(E, G, k)
  BY <1>1, <1>3, <1>7, <1>9, NewSound
<1>11. ASSUME NEW x \in Inos, x # k PROVE Sound(E, G, x)
  <2>1. KeepsDots(D, E, x)
    BY <1>4, <1>11 DEF KeepsDots
  <2>2. \A s \in NamesOf(D, x) : Marked(E, s) = Marked(D, s)
    BY <1>9
  <2>3. Sound(D, H, x) /\ Node(E, x) = Node(D, x) /\ G[x] = H[x] /\ NamesOf(E, x) = NamesOf(D, x)
    BY <1>1, <1>9, <1>11
  <2> QED
    BY <2>1, <2>2, <2>3, OthersSound
<1> QED
  BY <1>10, <1>11 DEF Tidy

(* A new inode without a name, open.                                       *)
LEMMA TmpTidy ==
    ASSUME NEW D, NEW E, NEW H, NEW G, Tidy(D, H), NEW k \in Inos, Node(D, k) = Absent, G[k] = 1,
           \A x \in Inos : x # k => Node(E, x) = Node(D, x) /\ Body(E, x) = Body(D, x) /\ G[x] = H[x],
           Node(E, k) = Attrs("File", 0, 1), Body(E, k) = Data
    PROVE  Tidy(E, G)
<1>1. \A x \in Inos : Sound(D, H, x)
  BY DEF Tidy
<1>2. Shaped(D, k) /\ Held(D, H, k)
  BY <1>1 DEF Sound
<1>3. k # ROOT /\ Body(D, k) = Absent /\ NamesOf(D, k) = {}
  BY <1>2, KindsRead DEF Held
<1>4. ASSUME NEW s \in AllSlots PROVE SameName(D, E, s)
  <2>1. s[1] \in Inos
    BY SlotParts
  <2>2. CASE s[1] = k
    <3>1. Named(D, s) = {} /\ Named(E, s) = {}
      BY <1>3, <2>2, NamelessBody
    <3> QED
      BY <3>1 DEF SameName
  <2>3. CASE s[1] # k
    BY <2>1, <2>3, SameBody
  <2> QED
    BY <2>2, <2>3
<1>5. \A x : NamesOf(E, x) = NamesOf(D, x) /\ \A s \in NamesOf(D, x) : Marked(E, s) = Marked(D, s)
  BY <1>4, NamesNone
<1>6. Sound(E, G, k)
  BY <1>3, <1>5, UnnamedSound
<1>7. ASSUME NEW x \in Inos, x # k PROVE Sound(E, G, x)
  <2>1. KeepsDots(D, E, x)
    BY <1>7 DEF KeepsDots
  <2> QED
    BY <1>1, <1>5, <1>7, <2>1, OthersSound
<1> QED
  BY <1>6, <1>7 DEF Tidy

(* A handle more or less on an inode, that may be collected.               *)
LEMMA HandleTidy ==
    ASSUME NEW D, NEW E, NEW H, NEW G, Tidy(D, H), NEW i \in Inos, Node(D, i) # Absent, G[i] \in Nat,
           NEW r, r = [Node(D, i) EXCEPT !.open_file_handles = G[i]],
           Collects(r) => Node(E, i) = Absent /\ Body(E, i) = Absent,
           ~Collects(r) => Node(E, i) = r /\ Body(E, i) = Body(D, i),
           \A x \in Inos : x # i => Node(E, x) = Node(D, x) /\ Body(E, x) = Body(D, x) /\ G[x] = H[x]
    PROVE  Tidy(E, G)
<1>1. \A x \in Inos : Sound(D, H, x)
  BY DEF Tidy
<1>2. Shaped(D, i) /\ Counted(D, i)
  BY <1>1 DEF Sound
<1>3. Collects(r) => \A n \in Names : Named(D, <<i, n>>) = {}
  <2> SUFFICES ASSUME Collects(r), NEW n \in Names PROVE Named(D, <<i, n>>) = {}
    OBVIOUS
  <2>1. Node(D, i).hardlinks = 0
    <3> DEFINE q == Node(D, i)
               k == G[i]
    <3>1. q \in InodeRecords /\ k \in Nat /\ r = [q EXCEPT !.open_file_handles = k]
      BY <1>2, KindsRead
    <3> HIDE DEF q, k
    <3>2. [q EXCEPT !.open_file_handles = k].hardlinks = q.hardlinks
      BY <3>1, RecordUpdates
    <3> QED
      BY <3>1, <3>2 DEF Collects, q
  <2>2. Body(D, i) = Data \/ n \notin DOMAIN Body(D, i)
    <3>1. i # ROOT
      <4>1. i = ROOT => Node(D, i).hardlinks = 2
        BY <1>2 DEF Counted
      <4> QED
        BY <2>1, <4>1
    <3>2. CASE IsDir(D, i)
      BY <1>2, <2>1, <3>1, <3>2 DEF Counted
    <3>3. CASE ~IsDir(D, i)
      BY <1>2, <3>3, KindsRead
    <3> QED
      BY <3>2, <3>3
  <2>3. <<i, n>>[1] = i /\ <<i, n>>[2] = n
    OBVIOUS
  <2> QED
    BY <2>2, <2>3, NamelessBody
<1>4. ASSUME NEW s \in AllSlots PROVE SameName(D, E, s)
  <2>1. s[1] \in Inos /\ s[2] \in Names /\ s = <<s[1], s[2]>>
    BY SlotParts
  <2>2. CASE s[1] = i /\ Collects(r)
    <3>1. Named(D, s) = {}
      BY <1>3, <2>1, <2>2
    <3>2. Named(E, s) = {}
      BY <2>2, NamelessBody
    <3> QED
      BY <3>1, <3>2 DEF SameName
  <2>3. CASE s[1] # i \/ ~Collects(r)
    BY <2>1, <2>3, SameBody
  <2> QED
    BY <2>2, <2>3
<1>5. \A x : NamesOf(E, x) = NamesOf(D, x) /\ \A s \in NamesOf(D, x) : Marked(E, s) = Marked(D, s)
  BY <1>4, NamesNone
<1>6. Sound(E, G, i)
  BY <1>1, <1>5, HandleSound
<1>7. ASSUME NEW x \in Inos, x # i PROVE Sound(E, G, x)
  <2>1. KeepsDots(D, E, x)
    BY <1>7 DEF KeepsDots
  <2> QED
    BY <1>1, <1>5, <1>7, <2>1, OthersSound
<1> QED
  BY <1>6, <1>7 DEF Tidy

(* One name more for a file.                                               *)
LEMMA LinkTidy ==
    ASSUME Room, NEW D, NEW E, NEW H, NEW G, Tidy(D, H), NEW d, InTree(D, d), NEW n \in Names,
           Named(D, <<d, n>>) = {}, NEW i \in Inos, Node(D, i) # Absent, ~IsDir(D, i),
           \A x \in Inos : G[x] = H[x] /\ (x # i => Node(E, x) = Node(D, x)),
           \A x \in Inos : x # d => Body(E, x) = Body(D, x),
           Node(E, i) = IncrementLinks(Node(D, i)),
           Body(E, d) = Insert(Body(D, d), n, i, Node(D, i).kind)
    PROVE  Tidy(E, G)
<1> DEFINE p == <<d, n>>
           kind == Node(D, i).kind
<1>1. /\ \A x \in Inos : Sound(D, H, x)
      /\ d \in Inos /\ d # i /\ p \in AllSlots /\ p[1] = d /\ p[2] = n
  BY SlotParts DEF Tidy, InTree
<1>2. Shaped(D, d) /\ Shaped(D, i)
  BY <1>1 DEF Sound
<1>3. kind \in Kinds
  BY <1>2, KindsRead
<1> HIDE DEF kind
<1>4. /\ Body(D, d) \in EntriesOf(d, MaxIno) /\ Body(E, d) \in EntriesOf(d, MaxIno)
      /\ KeepsDots(D, E, d)
  BY <1>1, <1>2, <1>3, InsertKeepsDots DEF kind
<1>5. BoundTo(E, p, i, kind) /\ \A m \in Names : m # n => SameName(D, E, <<d, m>>)
  BY <1>1, <1>4, InsertName DEF kind
<1>6. ASSUME NEW s \in AllSlots, s # p PROVE SameName(D, E, s)
  <2>1. s[1] \in Inos /\ s[2] \in Names /\ s = <<s[1], s[2]>>
    BY SlotParts
  <2>2. CASE s[1] = d
    <3>1. s[2] # n /\ s = <<d, s[2]>>
      BY <1>6, <2>1, <2>2
    <3> QED
      BY <1>5, <2>1, <3>1
  <2>3. CASE s[1] # d
    BY <2>1, <2>3, SameBody
  <2> QED
    BY <2>2, <2>3
<1>7. Named(E, p) = {i} /\ Marked(E, p) = kind
  BY <1>5 DEF BoundTo
<1>8. Named(D, p) = {}
  OBVIOUS
<1> HIDE DEF p
<1>9. \A x : /\ x \in Named(E, p) => NamesOf(E, x) = NamesOf(D, x) \cup {p}
             /\ x \notin Named(E, p) => NamesOf(E, x) = NamesOf(D, x) \ {p}
             /\ \A s \in NamesOf(D, x) : s # p => Marked(E, s) = Marked(D, s)
             /\ p \in NamesOf(D, x) <=> x \in Named(D, p)
  BY <1>1, <1>6, NamesOne
<1>10. \A x : p \notin NamesOf(D, x) /\ \A s \in NamesOf(D, x) : Marked(E, s) = Marked(D, s)
  BY <1>8, <1>9
<1>11. Sound(E, G, i)
  <2>1. NamesOf(E, i) = NamesOf(D, i) \cup {p}
    BY <1>7, <1>9
  <2>2. Body(E, i) = Body(D, i)
    BY <1>1
  <2> QED
    BY <1>1, <1>7, <1>10, <2>1, <2>2, LinkedSound DEF kind
<1>12. ASSUME NEW x \in Inos, x # i PROVE Sound(E, G, x)
  <2>1. KeepsDots(D, E, x)
    BY <1>4 DEF KeepsDots
  <2>2. x \notin Named(E, p)
    BY <1>7, <1>12
  <2>3. NamesOf(E, x) = NamesOf(D, x)
    BY <1>9, <1>10, <2>2
  <2> QED
    BY <1>1, <1>10, <1>12, <2>1, <2>3, OthersSound
<1> QED
  BY <1>11, <1>12 DEF Tidy

(* One name less, and perhaps the inode is collected; a directory is empty *)
(* when it loses its name.                                                 *)
LEMMA UnnameTidy ==
    ASSUME NEW D, NEW E, NEW H, NEW G, Tidy(D, H), NEW d, InTree(D, d), NEW n \in Names,
           NEW i \in Named(D, <<d, n>>), NEW r,
           r = IF IsDir(D, i) THEN [Node(D, i) EXCEPT !.hardlinks = 0] ELSE DecrementLinks(Node(D, i)),
           IsDir(D, i) => \A m \in Names : m \notin DOMAIN Body(D, i),
           Collects(r) => Node(E, i) = Absent /\ Body(E, i) = Absent,
           ~Collects(r) => Node(E, i) = r /\ Body(E, i) = Body(D, i),
           \A x \in Inos : G[x] = H[x] /\ (x # i => Node(E, x) = Node(D, x)),
           \A x \in Inos : x # d /\ x # i => Body(E, x) = Body(D, x),
           Body(E, d) = Remove(Body(D, d), n)
    PROVE  Tidy(E, G)
<1> DEFINE p == <<d, n>>
<1>1. /\ \A x \in Inos : Sound(D, H, x)
      /\ d \in Inos /\ p \in AllSlots /\ p[1] = d /\ p[2] = n
  BY SlotParts DEF Tidy, InTree
<1>2. /\ i \in Inos /\ i # d /\ i # ROOT /\ Node(D, i) # Absent
      /\ Named(D, p) = {i} /\ p \in NamesOf(D, i)
  BY <1>1, NamedInode
<1>3. Shaped(D, d) /\ Shaped(D, i)
  BY <1>1, <1>2 DEF Sound
<1>4. /\ Body(D, d) \in EntriesOf(d, MaxIno) /\ Body(E, d) \in EntriesOf(d, MaxIno)
      /\ KeepsDots(D, E, d)
  BY <1>3, RemoveKeepsDots
<1>5. Named(E, p) = {} /\ \A m \in Names : m # n => SameName(D, E, <<d, m>>)
  BY <1>1, <1>4, RemoveName
<1>6. ASSUME NEW s \in AllSlots, s # p PROVE SameName(D, E, s)
  <2>1. s[1] \in Inos /\ s[2] \in Names /\ s = <<s[1], s[2]>>
    BY SlotParts
  <2>2. CASE s[1] = d
    <3>1. s[2] # n /\ s = <<d, s[2]>>
      BY <1>6, <2>1, <2>2
    <3> QED
      BY <1>5, <2>1, <3>1
  <2>3. CASE s[1] = i /\ Collects(r)
    <3>1. Body(D, i) = Data \/ s[2] \notin DOMAIN Body(D, i)
      BY <1>2, <1>3, <2>1, KindsRead
    <3>2. Named(D, s) = {} /\ Named(E, s) = {}
      BY <2>3, <3>1, NamelessBody
    <3> QED
      BY <3>2 DEF SameName
  <2>4. CASE s[1] # d /\ (s[1] # i \/ ~Collects(r))
    BY <2>1, <2>4, SameBody
  <2> QED
    BY <2>2, <2>3, <2>4
<1> HIDE DEF p
<1>7. \A x : /\ x \in Named(E, p) => NamesOf(E, x) = NamesOf(D, x) \cup {p}
             /\ x \notin Named(E, p) => NamesOf(E, x) = NamesOf(D, x) \ {p}
             /\ \A s \in NamesOf(D, x) : s # p => Marked(E, s) = Marked(D, s)
             /\ p \in NamesOf(D, x) <=> x \in Named(D, p)
  BY <1>1, <1>6, NamesOne
<1>8. \A x : NamesOf(E, x) = NamesOf(D, x) \ {p}
  BY <1>5, <1>7
<1>9. Sound(E, G, i)
  <2>1. \A s \in NamesOf(D, i) \ {p} : Marked(E, s) = Marked(D, s)
    BY <1>7
  <2>2. Sound(D, H, i) /\ G[i] = H[i] /\ NamesOf(E, i) = NamesOf(D, i) \ {p}
    BY <1>1, <1>2, <1>8
  <2> QED
    BY <1>2, <2>1, <2>2, UnlinkedSound
<1>10. ASSUME NEW x \in Inos, x # i PROVE Sound(E, G, x)
  <2>1. KeepsDots(D, E, x)
    BY <1>4, <1>10 DEF KeepsDots
  <2>2. p \notin NamesOf(D, x)
    BY <1>2, <1>7, <1>10
  <2>3. NamesOf(E, x) = NamesOf(D, x) /\ \A s \in NamesOf(D, x) : Marked(E, s) = Marked(D, s)
    BY <1>7, <1>8, <2>2
  <2> QED
    BY <1>1, <1>10, <2>1, <2>3, OthersSound
<1> QED
  BY <1>9, <1>10 DEF Tidy

(* An inode goes to another name, and what had that name, if anything did, *)
(* gets its name: a move, or an exchange.                                  *)
Reparented(D, E, x, d) ==
    /\ IsDir(D, x) => Body(E, x) = Insert(Body(D, x), "..", d, "Directory")
    /\ ~IsDir(D, x) => Body(E, x) = Body(D, x)

LEMMA MoveTidy ==
    ASSUME NEW D, NEW E, NEW H, NEW G, Tidy(D, H), NEW p \in AllSlots, NEW q \in AllSlots,
           NEW i \in Named(D, p), i \notin Named(D, q),
           BoundTo(E, q, i, Node(D, i).kind), Named(E, p) = Named(D, q),
           \A j \in Named(D, q) : Marked(E, p) = Node(D, j).kind,
           \A s \in AllSlots : s # p /\ s # q => SameName(D, E, s),
           \A x \in Inos : Node(E, x) = Node(D, x) /\ G[x] = H[x],
           \A x \in Inos : x # i /\ x \notin Named(D, q) => KeepsDots(D, E, x),
           Reparented(D, E, i, q[1]), \A j \in Named(D, q) : Reparented(D, E, j, p[1])
    PROVE  Tidy(E, G)
<1>1. \A x \in Inos : Sound(D, H, x)
  BY DEF Tidy
<1>2. i \in Inos /\ Named(D, p) = {i} /\ p \in NamesOf(D, i) /\ p # q
  BY NamedInode
<1>3. \A j \in Named(D, q) : j \in Inos /\ j # i /\ Named(D, q) = {j} /\ q \in NamesOf(D, j)
  BY NamedInode
<1>4. Named(E, q) = {i} /\ Marked(E, q) = Node(D, i).kind
  BY DEF BoundTo
<1>5. \A x : /\ p \in NamesOf(E, x) <=> x \in Named(E, p)
             /\ q \in NamesOf(E, x) <=> x \in Named(E, q)
             /\ p \in NamesOf(D, x) <=> x \in Named(D, p)
             /\ q \in NamesOf(D, x) <=> x \in Named(D, q)
             /\ \A s : s # p /\ s # q => (s \in NamesOf(E, x) <=> s \in NamesOf(D, x))
             /\ \A s \in NamesOf(D, x) : s # p /\ s # q => Marked(E, s) = Marked(D, s)
  BY NamesTwo
<1>6. Sound(E, G, i)
  <2>1. q \notin NamesOf(D, i) /\ p \notin NamesOf(E, i) /\ q \in NamesOf(E, i)
    BY <1>4, <1>5
  <2>2. NamesOf(E, i) = (NamesOf(D, i) \ {p}) \cup {q}
    BY <1>2, <1>5, <2>1
  <2>3. \A s \in NamesOf(D, i) \ {p} : Marked(E, s) = Marked(D, s)
    BY <1>5, <2>1
  <2>4. Sound(D, H, i) /\ Node(E, i) = Node(D, i) /\ G[i] = H[i]
    BY <1>1, <1>2
  <2>5. /\ IsDir(D, i) => Body(E, i) = Insert(Body(D, i), "..", q[1], "Directory")
        /\ ~IsDir(D, i) => Body(E, i) = Body(D, i)
    BY DEF Reparented
  <2>6. p \in NamesOf(D, i) /\ Marked(E, q) = Node(D, i).kind
    BY <1>2, <1>4
  <2> QED
    BY <1>2, <2>1, <2>2, <2>3, <2>4, <2>5, <2>6, MovedSound
<1>7. ASSUME NEW j \in Named(D, q) PROVE Sound(E, G, j)
  <2>1. j \in Inos /\ j # i /\ q \in NamesOf(D, j) /\ Named(D, q) = {j}
    BY <1>3
  <2>2. p \notin NamesOf(D, j) /\ q \notin NamesOf(E, j) /\ p \in NamesOf(E, j)
    BY <1>2, <1>4, <1>5, <2>1
  <2>3. NamesOf(E, j) = (NamesOf(D, j) \ {q}) \cup {p}
    BY <1>2, <1>5, <2>1, <2>2
  <2>4. \A s \in NamesOf(D, j) \ {q} : Marked(E, s) = Marked(D, s)
    BY <1>5, <2>2
  <2>5. Sound(D, H, j) /\ Node(E, j) = Node(D, j) /\ G[j] = H[j]
    BY <1>1, <2>1
  <2>6. /\ Marked(E, p) = Node(D, j).kind
        /\ IsDir(D, j) => Body(E, j) = Insert(Body(D, j), "..", p[1], "Directory")
        /\ ~IsDir(D, j) => Body(E, j) = Body(D, j)
    BY DEF Reparented
  <2> QED
    BY <2>1, <2>2, <2>3, <2>4, <2>5, <2>6, MovedSound
<1>8. ASSUME NEW x \in Inos, x # i, x \notin Named(D, q) PROVE Sound(E, G, x)
  <2>1. p \notin NamesOf(D, x) /\ q \notin NamesOf(D, x) /\ p \notin NamesOf(E, x) /\ q \notin NamesOf(E, x)
    BY <1>2, <1>4, <1>5, <1>8
  <2>2. NamesOf(E, x) = NamesOf(D, x)
    <3>1. \A s : s \in NamesOf(E, x) <=> s \in NamesOf(D, x)
      BY <1>5, <2>1
    <3> QED
      BY <3>1, Zenon
  <2>3. \A s \in NamesOf(D, x) : Marked(E, s) = Marked(D, s)
    BY <1>5, <2>1
  <2>4. Sound(D, H, x) /\ Node(E, x) = Node(D, x) /\ G[x] = H[x] /\ KeepsDots(D, E, x)
    BY <1>1, <1>8
  <2> QED
    BY <2>2, <2>3, <2>4, OthersSound
<1> QED
  BY <1>6, <1>7, <1>8 DEF Tidy

---------------------------------------------------------------------------
(* What a lookup reaches has a name.                                       *)

LEMMA LeastNat ==
    ASSUME NEW T, T \subseteq Nat, T # {}
    PROVE  \E x \in T : \A y \in T : x <= y
<1> DEFINE R == OpToRel(<, Nat)
<1>1. IsWellFoundedOn(R, Nat)
  BY NatLessThanWellFounded
<1>2. \A x, y \in Nat : x < y => <<x, y>> \in R
  BY DEF OpToRel
<1> HIDE DEF R
<1>3. PICK x \in T : \A y \in T : <<y, x>> \notin R
  BY <1>1, WFMin
<1>4. \A y \in T : ~(y < x)
  BY <1>2, <1>3
<1> QED
  BY <1>4

(* One round of lookups, and the sets reached by up to k of them.          *)
Round(X) == X \cup UNION {Children(x) : x \in X}
Rounds(f, d, k) == IF k = 0 THEN {d} ELSE Round(f[k - 1])
Reaches(d) == CHOOSE f : f = [k \in 0 .. MaxIno |-> Rounds(f, d, k)]

LEMMA BelowReaches == ASSUME NEW d PROVE Below(d) = {d} \cup (Inos \cap Reaches(d)[MaxIno])
  BY DEF Below, Reaches, Rounds, Round

LEMMA ReachesExists == ASSUME NEW d PROVE \E f : f = [k \in 0 .. MaxIno |-> Rounds(f, d, k)]
<1> DEFINE Has(l) == \E f : f = [k \in 0 .. l |-> Rounds(f, d, k)]
           T == {l \in Nat : ~Has(l)}
<1>1. MaxIno \in Nat
  BY BoundsAssumption
<1>2. SUFFICES ASSUME T # {} PROVE FALSE
  BY <1>1
<1>3. T \subseteq Nat
  OBVIOUS
<1>4. PICK l \in T : \A y \in T : l <= y
  <2> HIDE DEF T
  <2> QED
    BY <1>2, <1>3, LeastNat
<1>5. l \in Nat /\ ~Has(l)
  OBVIOUS
<1>6. CASE l = 0
  <2> DEFINE g == [k \in 0 .. 0 |-> {d}]
  <2>1. \A k \in 0 .. 0 : Rounds(g, d, k) = {d}
    BY DEF Rounds
  <2>2. g = [k \in 0 .. 0 |-> Rounds(g, d, k)]
    BY <2>1
  <2> QED
    BY <1>5, <1>6, <2>2
<1>7. CASE l # 0
  <2>1. l - 1 \in Nat /\ Has(l - 1)
    <3>1. l - 1 \in Nat /\ ~(l <= l - 1)
      BY <1>5, <1>7
    <3> QED
      BY <1>4, <3>1
  <2>2. PICK f : f = [k \in 0 .. l - 1 |-> Rounds(f, d, k)]
    BY <2>1
  <2> DEFINE g == [k \in 0 .. l |-> IF k <= l - 1 THEN f[k] ELSE Round(f[l - 1])]
  <2>3. \A k \in 0 .. l - 1 : g[k] = f[k]
    BY <1>5
  <2>4. \A k \in 0 .. l : g[k] = Rounds(g, d, k)
    <3> SUFFICES ASSUME NEW k \in 0 .. l PROVE g[k] = Rounds(g, d, k)
      OBVIOUS
    <3>1. CASE k = 0
      <4>1. 0 \in 0 .. l - 1
        BY <2>1
      <4>2. f[0] = Rounds(f, d, 0)
        BY <2>2, <4>1
      <4> QED
        BY <2>3, <3>1, <4>1, <4>2 DEF Rounds
    <3>2. CASE k # 0
      <4>1. k - 1 \in 0 .. l - 1 /\ g[k - 1] = f[k - 1]
        BY <1>5, <2>3, <3>2
      <4>2. g[k] = Round(f[k - 1])
        <5>1. CASE k <= l - 1
          <6>1. k \in 0 .. l - 1
            BY <1>5, <5>1
          <6>2. f[k] = Rounds(f, d, k)
            BY <2>2, <6>1
          <6> QED
            BY <2>3, <3>2, <6>1, <6>2 DEF Rounds
        <5>2. CASE ~(k <= l - 1)
          <6>1. k = l
            BY <1>5, <5>2
          <6> QED
            BY <5>2, <6>1
        <5> QED
          BY <5>1, <5>2
      <4> HIDE DEF g
      <4> QED
        BY <3>2, <4>1, <4>2 DEF Rounds
    <3> QED
      BY <3>1, <3>2
  <2>5. g = [k \in 0 .. l |-> g[k]]
    OBVIOUS
  <2> HIDE DEF g
  <2>6. g = [k \in 0 .. l |-> Rounds(g, d, k)]
    BY <2>4, <2>5
  <2> QED
    BY <1>5, <2>6
<1> QED
  BY <1>6, <1>7

LEMMA ReachesAt ==
    ASSUME NEW d, NEW k \in 0 .. MaxIno
    PROVE  Reaches(d)[k] = Rounds(Reaches(d), d, k)
<1> DEFINE f == Reaches(d)
<1>1. f = [j \in 0 .. MaxIno |-> Rounds(f, d, j)]
  BY ReachesExists DEF Reaches
<1> HIDE DEF f
<1>2. f[k] = Rounds(f, d, k)
  BY <1>1
<1> QED
  BY <1>2 DEF f

LEMMA NamedIsBound ==
    /\ \A d, n : Named(disk, <<d, n>>) = Bound(d, n)
    /\ \A i : NamesOf(disk, i) = Links(i)
    /\ \A i : Node(disk, i) = inode(i) /\ Body(disk, i) = content(i)
<1>1. \A s : Named(disk, s) = Bound(s[1], s[2])
  BY DEF Named, Bound, Body, content
<1>2. \A d, n : <<d, n>>[1] = d /\ <<d, n>>[2] = n
  OBVIOUS
<1> QED
  BY <1>1, <1>2 DEF NamesOf, Links, AllSlots, Node, Body, inode, content

LEMMA BelowNamed ==
    ASSUME NEW H, Tidy(disk, H), NEW i \in Below(ROOT)
    PROVE  i \in Inos /\ (i = ROOT \/ NamesOf(disk, i) # {})
<1> DEFINE X == {x \in Inos : x = ROOT \/ NamesOf(disk, x) # {}}
           f == Reaches(ROOT)
           T == {k \in Nat : k <= MaxIno /\ ~(f[k] \subseteq X)}
<1>1. ROOT \in Inos /\ MaxIno \in Nat /\ ROOT \in X
  BY BoundsAssumption DEF Inos, ROOT
<1>2. ASSUME NEW Y, Y \subseteq X PROVE Round(Y) \subseteq X
  <2> SUFFICES ASSUME NEW x \in Y, NEW y \in Children(x) PROVE y \in X
    BY <1>2 DEF Round
  <2>1. PICK n \in Names : y \in Bound(x, n)
    BY DEF Children
  <2>2. x \in Inos /\ <<x, n>> \in AllSlots
    BY <1>2, SlotParts
  <2>3. y \in Named(disk, <<x, n>>)
    BY <2>1, NamedIsBound
  <2>4. y \in Inos /\ <<x, n>> \in NamesOf(disk, y)
    BY <2>2, <2>3, NamedInode
  <2> QED
    BY <2>4
<1> HIDE DEF X, f
<1>3. T = {}
  <2> SUFFICES ASSUME T # {} PROVE FALSE
    OBVIOUS
  <2>1. T \subseteq Nat
    OBVIOUS
  <2>2. PICK k \in T : \A y \in T : k <= y
    <3> HIDE DEF T
    <3> QED
      BY <2>1, LeastNat
  <2>3. k \in Nat /\ k \in 0 .. MaxIno /\ ~(f[k] \subseteq X)
    BY <1>1
  <2>4. f[k] = Rounds(f, ROOT, k)
    BY <2>3, ReachesAt DEF f
  <2>5. CASE k = 0
    BY <1>1, <2>3, <2>4, <2>5 DEF Rounds
  <2>6. CASE k # 0
    <3>1. k - 1 \in Nat /\ k - 1 <= MaxIno /\ ~(k <= k - 1)
      BY <1>1, <2>3, <2>6
    <3>2. f[k - 1] \subseteq X
      BY <2>2, <3>1
    <3>3. f[k] = Round(f[k - 1])
      BY <2>4, <2>6 DEF Rounds
    <3>4. Round(f[k - 1]) \subseteq X
      BY <1>2, <3>2
    <3> QED
      BY <2>3, <3>3, <3>4
  <2> QED
    BY <2>5, <2>6
<1>4. f[MaxIno] \subseteq X
  BY <1>1, <1>3
<1>5. i \in X
  <2>1. i \in {ROOT} \cup (Inos \cap f[MaxIno])
    BY BelowReaches DEF f
  <2> QED
    BY <1>1, <1>4, <2>1
<1> QED
  BY <1>5 DEF X

LEMMA DirectoryInTree ==
    ASSUME NEW H, Tidy(disk, H), NEW d \in Directories
    PROVE  InTree(disk, d)
<1>1. d \in Below(ROOT) /\ Exists(inode(d)) /\ inode(d).kind = "Directory"
  BY DEF Directories
<1>2. d \in Inos /\ (d = ROOT \/ NamesOf(disk, d) # {})
  BY <1>1, BelowNamed
<1>3. IsDir(disk, d)
  BY <1>1, NamedIsBound DEF IsDir, Exists
<1> QED
  BY <1>2, <1>3 DEF InTree

---------------------------------------------------------------------------
(* What a handler's answer and writes have to be for a tidy disk.          *)

Served(outcome, after) ==
    /\ outcome.reply \in Errors \cup {"ok", "panic", "EIO"}
    /\ outcome.reply = "ok" => Tidy(After(disk, outcome.writes), after)
    /\ outcome.reply \in Errors \cup {"EIO"} => Tidy(After(disk, outcome.writes), handles)

LEMMA ServeTidy ==
    ASSUME TreeInv, NoPanic', NEW torn, NEW outcome, NEW after, Serve(torn, outcome, after),
           clean /\ Tidy(disk, handles) /\ ~torn => Served(outcome, after)
    PROVE  TreeInv'
<1>1. "ok" \notin Errors /\ "panic" \notin Errors
  BY DEF Errors
<1>2. mounts' = mounts /\ mounts \in Nat /\ mounts > 0
  BY DEF TreeInv, Serve, Run
<1>3. ASSUME clean' PROVE Tidy(disk', handles')
  <2>1. CASE torn
    <3>1. Run(Panic(<<>>), handles)
      BY <2>1 DEF Serve
    <3>2. reply' = Answer(Panic(<<>>))
      BY <1>3, <3>1 DEF Run, Killed
    <3> QED
      BY <1>1, <1>3, <3>2 DEF Answer, Panic, NoPanic
  <2>2. CASE ~torn
    <3>1. /\ clean' = clean /\ disk' = Written(outcome.writes, Len(outcome.writes))
          /\ reply' = Answer(outcome)
          /\ handles' = CASE outcome.reply = "ok" -> after
                          [] outcome.reply = "panic" -> NoHandles
                          [] OTHER -> handles
      BY <1>3, <2>2 DEF Serve, Run, Killed
    <3>2. Served(outcome, after)
      BY <1>2, <1>3, <2>2, <3>1 DEF TreeInv
    <3>3. outcome.reply # "panic"
      BY <1>1, <1>3, <3>1 DEF Answer, NoPanic
    <3>4. disk' = After(disk, outcome.writes)
      BY <3>1, WrittenIsAfter
    <3>5. CASE outcome.reply = "ok"
      BY <3>1, <3>2, <3>4, <3>5 DEF Served
    <3>6. CASE outcome.reply \in Errors \cup {"EIO"}
      <4>1. handles' = handles
        BY <1>1, <3>1, <3>3, <3>6
      <4> QED
        BY <3>2, <3>4, <3>6, <4>1 DEF Served
    <3> QED
      BY <3>2, <3>3, <3>5, <3>6 DEF Served
  <2> QED
    BY <2>1, <2>2
<1> QED
  BY <1>2, <1>3 DEF TreeInv

LEMMA DiskIsDisk == ASSUME Inv PROVE disk = [f \in Files |-> disk[f]]
  BY DEF Inv, DiskOK

LEMMA RefuseServed ==
    ASSUME Inv, Tidy(disk, handles), NEW error \in Errors, NEW after
    PROVE  Served(Refuse(error), after)
<1>1. error # "ok"
  BY DEF Errors
<1>2. After(disk, <<>>) = disk
  BY DiskIsDisk, AfterNone
<1> QED
  BY <1>1, <1>2 DEF Served, Refuse

LEMMA PanicServed == ASSUME NEW w, NEW after PROVE Served(Panic(w), after)
<1>1. "panic" \notin Errors
  BY DEF Errors
<1> QED
  BY <1>1 DEF Served, Panic

LEMMA DoneServed == ASSUME NEW w, NEW after, Tidy(After(disk, w), after) PROVE Served(Done(w), after)
<1>1. "ok" \notin Errors
  BY DEF Errors
<1> QED
  BY <1>1 DEF Served, Done

(* A disk that looks the same is as tidy.                                  *)
LEMMA SameTidy ==
    ASSUME NEW D, NEW E, NEW H, Tidy(D, H),
           \A x \in Inos : Node(E, x) = Node(D, x) /\ Body(E, x) = Body(D, x)
    PROVE  Tidy(E, H)
<1>1. \A s \in AllSlots : SameName(D, E, s)
  BY SlotParts, SameBody
<1> SUFFICES ASSUME NEW x \in Inos PROVE Sound(E, H, x)
  BY DEF Tidy
<1>2. NamesOf(E, x) = NamesOf(D, x) /\ \A s \in NamesOf(D, x) : Marked(E, s) = Marked(D, s)
  BY <1>1, NamesNone
<1>3. Sound(D, H, x) /\ Node(E, x) = Node(D, x) /\ KeepsDots(D, E, x)
  BY DEF Tidy, KeepsDots
<1> QED
  BY <1>2, <1>3, OthersSound

(* Writing an inode back changes nothing.                                  *)
LEMMA PutOwn ==
    ASSUME NEW D, NEW j \in Inos, NEW v, v = Node(D, j), NEW x \in Inos
    PROVE  /\ Node(Put(D, InodeFile(j), v), x) = Node(D, x)
           /\ Body(Put(D, InodeFile(j), v), x) = Body(D, x)
  BY PutInode

LEMMA RewriteTidy == ASSUME Inv, TreeInv, NoPanic', Rewrite PROVE TreeInv'
<1>1. PICK i \in Inos : Serve(inode(i) = Torn, Done(<<<<InodeFile(i), inode(i)>>>>), handles)
  BY DEF Rewrite
<1> DEFINE w == <<<<InodeFile(i), inode(i)>>>>
<1>2. ASSUME Tidy(disk, handles) PROVE Served(Done(w), handles)
  <2> DEFINE a == <<InodeFile(i), inode(i)>>
  <2>0. w = <<a>> /\ a[1] = InodeFile(i) /\ a[2] = inode(i)
    OBVIOUS
  <2>1. After(disk, w) = Put(disk, InodeFile(i), inode(i))
    <3> HIDE DEF a, w
    <3> QED
      BY <2>0, DiskIsDisk, AfterOne
  <2> HIDE DEF w
  <2>2. \A x \in Inos : /\ Node(After(disk, w), x) = Node(disk, x)
                         /\ Body(After(disk, w), x) = Body(disk, x)
    BY <2>1, PutOwn DEF inode, Node
  <2>3. Tidy(After(disk, w), handles)
    BY <1>2, <2>2, SameTidy
  <2> QED
    BY <2>3, DoneServed
<1> HIDE DEF w
<1>3. Serve(inode(i) = Torn, Done(w), handles)
  BY <1>1 DEF w
<1> QED
  BY <1>2, <1>3, ServeTidy

LEMMA QuietTidy ==
    ASSUME TreeInv, UNCHANGED <<disk, handles, mounts, clean>>, mounted' => mounted
    PROVE  TreeInv'
  BY DEF TreeInv

(* Taking a name or a handle from an inode writes to no other.             *)
LEMMA AfterDrop ==
    ASSUME NEW D, D = [f \in Files |-> D[f]], NEW i \in Inos, NEW attrs, NEW E, E = After(D, Drop(i, attrs))
    PROVE  /\ E = [f \in Files |-> E[f]]
           /\ Collects(attrs) => Node(E, i) = Absent /\ Body(E, i) = Absent
           /\ ~Collects(attrs) => Node(E, i) = attrs /\ Body(E, i) = Body(D, i)
           /\ \A x \in Inos : x # i => Node(E, x) = Node(D, x) /\ Body(E, x) = Body(D, x)
<1> DEFINE a == <<InodeFile(i), attrs>>
           b == <<InodeFile(i), Absent>>
           c == <<ContentFile(i), Absent>>
           D1 == Put(D, InodeFile(i), attrs)
           D2 == Put(D1, InodeFile(i), Absent)
           D3 == Put(D2, ContentFile(i), Absent)
<1>0. E = [f \in Files |-> E[f]]
  BY DEF After
<1>1. CASE ~Collects(attrs)
  <2>1. Drop(i, attrs) = <<a>> \o <<>>
    BY <1>1 DEF Drop, GcInode, Collects
  <2>2. a[1] = InodeFile(i) /\ a[2] = attrs
    OBVIOUS
  <2> HIDE DEF a
  <2>3. Drop(i, attrs) = <<a>>
    BY <2>1
  <2>4. E = D1
    BY <2>2, <2>3, AfterOne
  <2>5. /\ Node(D1, i) = attrs /\ Body(D1, i) = Body(D, i)
        /\ \A x \in Inos : x # i => Node(D1, x) = Node(D, x) /\ Body(D1, x) = Body(D, x)
    BY PutInode
  <2> HIDE DEF D1
  <2> QED
    BY <1>0, <1>1, <2>4, <2>5
<1>2. CASE Collects(attrs)
  <2>1. Drop(i, attrs) = <<a>> \o <<b, c>>
    BY <1>2 DEF Drop, GcInode, Collects
  <2>2. /\ a[1] = InodeFile(i) /\ a[2] = attrs /\ b[1] = InodeFile(i) /\ b[2] = Absent
        /\ c[1] = ContentFile(i) /\ c[2] = Absent
    OBVIOUS
  <2> HIDE DEF a, b, c
  <2>3. <<a>> \in Seq({a, b, c}) /\ <<b, c>> \in Seq({a, b, c})
    OBVIOUS
  <2>4. E = D3
    <3>1. E = After(After(D, <<a>>), <<b, c>>)
      <4> DEFINE u == <<a>>
                 v == <<b, c>>
      <4>1. u \in Seq({a, b, c}) /\ v \in Seq({a, b, c}) /\ Drop(i, attrs) = u \o v
        BY <2>1, <2>3
      <4> HIDE DEF u, v
      <4>2. After(D, u \o v) = After(After(D, u), v)
        BY <4>1, AfterConcat
      <4> QED
        BY <4>1, <4>2 DEF u, v
    <3>2. After(D, <<a>>) = D1
      BY <2>2, AfterOne
    <3>3. D1 = [f \in Files |-> D1[f]]
      BY PutIsDisk
    <3> HIDE DEF D1
    <3>4. After(D1, <<b, c>>) = D3
      BY <2>2, <3>3, AfterTwo
    <3> QED
      BY <3>1, <3>2, <3>4
  <2>5. \A x \in Inos : x # i => Node(D1, x) = Node(D, x) /\ Body(D1, x) = Body(D, x)
    BY PutInode
  <2> HIDE DEF D1
  <2>6. /\ Node(D2, i) = Absent
        /\ \A x \in Inos : x # i => Node(D2, x) = Node(D1, x) /\ Body(D2, x) = Body(D1, x)
    BY PutInode
  <2> HIDE DEF D2
  <2>7. /\ Node(D3, i) = Node(D2, i) /\ Body(D3, i) = Absent
        /\ \A x \in Inos : x # i => Node(D3, x) = Node(D2, x) /\ Body(D3, x) = Body(D2, x)
    BY PutContent
  <2> HIDE DEF D3
  <2> QED
    BY <1>0, <1>2, <2>4, <2>5, <2>6, <2>7
<1> QED
  BY <1>1, <1>2

LEMMA TidyReads ==
    ASSUME Tidy(disk, handles), NEW i \in Inos
    PROVE  /\ Sound(disk, handles, i) /\ Shaped(disk, i) /\ Held(disk, handles, i)
           /\ Node(disk, i) = inode(i) /\ Body(disk, i) = content(i)
           /\ inode(i) # Absent => inode(i) \in InodeRecords /\ inode(i).open_file_handles = handles[i]
           /\ handles[i] \in Nat /\ handles[i] > 0 => inode(i) # Absent
<1>1. Sound(disk, handles, i) /\ Shaped(disk, i) /\ Held(disk, handles, i)
  BY DEF Tidy, Sound
<1>2. Node(disk, i) = inode(i) /\ Body(disk, i) = content(i)
  BY NamedIsBound
<1>3. Node(disk, i) # Absent => Node(disk, i) \in InodeRecords
  BY <1>1, KindsRead
<1> QED
  BY <1>1, <1>2, <1>3 DEF Held

LEMMA OpenTidy == ASSUME Inv, TreeInv, NoPanic', Open PROVE TreeInv'
<1>1. PICK i \in Below(ROOT) : inode(i) # Absent /\ Serve(inode(i) = Torn, open(i), Opened(i))
  BY DEF Open
<1> DEFINE k == inode(i).open_file_handles + 1
           r == [inode(i) EXCEPT !.open_file_handles = k]
           a == <<InodeFile(i), r>>
           E == After(disk, <<a>>)
           G == Opened(i)
<1>2. i \in Inos
  BY BelowRoot
<1>3. G[i] = handles[i] + 1 /\ handles[i] \in Nat /\ \A x \in Inos : x # i => G[x] = handles[x]
  BY <1>2, OpenedHandles
<1>4. a[1] = InodeFile(i) /\ a[2] = r /\ open(i) = Done(<<a>>)
  BY DEF open
<1> HIDE DEF G
<1>5. ASSUME Tidy(disk, handles) PROVE Tidy(E, G)
  <2>1. inode(i) \in InodeRecords /\ k = G[i] /\ k \in Nat /\ k # 0 /\ Node(disk, i) = inode(i)
    BY <1>1, <1>2, <1>3, <1>5, TidyReads
  <2> HIDE DEF k
  <2>2. r.open_file_handles = k
    BY <2>1, RecordUpdates
  <2>3. r = [Node(disk, i) EXCEPT !.open_file_handles = G[i]]
    BY <2>1
  <2> HIDE DEF r, a
  <2>4. E = Put(disk, InodeFile(i), r)
    BY <1>4, DiskIsDisk, AfterOne
  <2> HIDE DEF E
  <2>5. /\ Node(E, i) = r /\ Body(E, i) = Body(disk, i)
        /\ \A x \in Inos : x # i => Node(E, x) = Node(disk, x) /\ Body(E, x) = Body(disk, x)
    BY <1>2, <2>4, PutInode
  <2>6. ~Collects(r)
    BY <2>1, <2>2 DEF Collects
  <2>7. Node(disk, i) # Absent /\ G[i] \in Nat
    BY <1>1, <2>1
  <2>8. \A x \in Inos : x # i => Node(E, x) = Node(disk, x) /\ Body(E, x) = Body(disk, x) /\ G[x] = handles[x]
    BY <1>3, <2>5
  <2> QED
    BY <1>2, <1>5, <2>3, <2>5, <2>6, <2>7, <2>8, HandleTidy
<1> HIDE DEF a
<1>6. Serve(inode(i) = Torn, Done(<<a>>), G)
  BY <1>1, <1>4 DEF G
<1>7. clean /\ Tidy(disk, handles) /\ ~(inode(i) = Torn) => Served(Done(<<a>>), G)
  BY <1>5, DoneServed
<1> QED
  BY <1>6, <1>7, ServeTidy

LEMMA ReleaseTidy == ASSUME Inv, TreeInv, NoPanic', Release PROVE TreeInv'
<1>1. PICK i \in Inos : handles[i] > 0 /\ Serve(inode(i) = Torn, release(i), [handles EXCEPT ![i] = @ - 1])
  BY DEF Release
<1> DEFINE G == [handles EXCEPT ![i] = @ - 1]
           k == IF inode(i).open_file_handles = 0 THEN 0 ELSE inode(i).open_file_handles - 1
           r == [inode(i) EXCEPT !.open_file_handles = k]
           E == After(disk, Drop(i, r))
<1>2. G[i] = handles[i] - 1 /\ handles[i] \in Nat /\ \A x \in Inos : x # i => G[x] = handles[x]
  BY DEF Inv
<1>3. release(i) = IF inode(i) = Absent THEN Done(<<>>)
                   ELSE IF GcPanics(i, r) THEN Panic(Drop(i, r)) ELSE Done(Drop(i, r))
  BY DEF release
<1> HIDE DEF G
<1>4. ASSUME Tidy(disk, handles) PROVE Tidy(E, G) /\ inode(i) # Absent
  <2>1. inode(i) # Absent /\ inode(i) \in InodeRecords /\ k = G[i] /\ k \in Nat /\ Node(disk, i) = inode(i)
    BY <1>1, <1>2, <1>4, TidyReads
  <2> HIDE DEF k
  <2>2. r = [Node(disk, i) EXCEPT !.open_file_handles = G[i]]
    BY <2>1
  <2> HIDE DEF r
  <2>3. /\ Collects(r) => Node(E, i) = Absent /\ Body(E, i) = Absent
        /\ ~Collects(r) => Node(E, i) = r /\ Body(E, i) = Body(disk, i)
        /\ \A x \in Inos : x # i => Node(E, x) = Node(disk, x) /\ Body(E, x) = Body(disk, x)
    BY DiskIsDisk, AfterDrop
  <2> HIDE DEF E
  <2>4. \A x \in Inos : x # i => Node(E, x) = Node(disk, x) /\ Body(E, x) = Body(disk, x) /\ G[x] = handles[x]
    BY <1>2, <2>3
  <2>5. Node(disk, i) # Absent /\ G[i] \in Nat
    BY <2>1
  <2>6. Tidy(E, G)
    BY <1>4, <2>2, <2>3, <2>4, <2>5, HandleTidy
  <2> QED
    BY <2>1, <2>6
<1> HIDE DEF r
<1>5. Serve(inode(i) = Torn, release(i), G)
  BY <1>1 DEF G
<1>6. clean /\ Tidy(disk, handles) /\ ~(inode(i) = Torn) => Served(release(i), G)
  BY <1>3, <1>4, DoneServed, PanicServed
<1> QED
  BY <1>5, <1>6, ServeTidy

(* A name that does not resolve is free: on a tidy disk every name leads   *)
(* to an inode.                                                            *)
LEMMA FreeName ==
    ASSUME Tidy(disk, handles), NEW d \in Inos, NEW n \in Names
    PROVE  LookupName(d, n) = Named(disk, <<d, n>>)
<1>1. Named(disk, <<d, n>>) = Bound(d, n) /\ <<d, n>> \in AllSlots
  BY NamedIsBound, SlotParts
<1>2. ASSUME NEW i \in Named(disk, <<d, n>>) PROVE Exists(inode(i))
  <2>1. i \in Inos /\ Node(disk, i) # Absent
    BY <1>1, <1>2, NamedInode
  <2>2. inode(i) \in InodeRecords
    BY <2>1, TidyReads
  <2> QED
    BY <2>2, ContentsAssumption DEF Exists
<1> QED
  BY <1>1, <1>2 DEF LookupName

(* The number of a new inode is not in use.                                *)
LEMMA FreshInode ==
    ASSUME Inv, disk[Superblock] # Torn, NextInode \in Inos
    PROVE  Node(disk, NextInode) = Absent /\ handles[NextInode] = 0
<1>1. "File" \in Kinds
  BY DEF Kinds
<1> QED
  BY <1>1, FreshNumber, NamedIsBound

LEMMA TmpfileTidy == ASSUME Inv, TreeInv, NoPanic', Tmpfile PROVE TreeInv'
<1> DEFINE k == NextInode
           G == Opened(k)
           sb == <<Superblock, k>>
           b == <<InodeFile(k), Attrs("File", 0, 1)>>
           e == <<ContentFile(k), Data>>
           w == <<sb, b, e>>
           D1 == Put(disk, Superblock, k)
           D2 == Put(D1, InodeFile(k), Attrs("File", 0, 1))
           D3 == Put(D2, ContentFile(k), Data)
<1>1. CanAllocate /\ Serve(disk[Superblock] = Torn, tmpfile, G)
  BY DEF Tmpfile
<1>2. tmpfile = Done(w)
  BY DEF tmpfile
<1>3. ASSUME Tidy(disk, handles), ~(disk[Superblock] = Torn) PROVE Served(Done(w), G)
  <2>1. k \in Inos
    BY <1>1, <1>3, AllocatedIno
  <2>2. Node(disk, k) = Absent /\ handles[k] = 0
    BY <1>3, <2>1, FreshInode
  <2>3. G[k] = 1 /\ \A x \in Inos : x # k => G[x] = handles[x]
    BY <2>1, <2>2, OpenedHandles
  <2> HIDE DEF k, G
  <2>4. /\ sb[1] = Superblock /\ sb[2] = k /\ b[1] = InodeFile(k) /\ b[2] = Attrs("File", 0, 1)
        /\ e[1] = ContentFile(k) /\ e[2] = Data
    OBVIOUS
  <2> HIDE DEF sb, b, e
  <2>5. After(disk, w) = D3
    BY <2>4, DiskIsDisk, AfterThree
  <2> HIDE DEF w
  <2>6. \A x \in Inos : Node(D1, x) = Node(disk, x) /\ Body(D1, x) = Body(disk, x)
    BY PutSuperblock
  <2> HIDE DEF D1
  <2>7. /\ Node(D2, k) = Attrs("File", 0, 1)
        /\ \A x \in Inos : x # k => Node(D2, x) = Node(D1, x) /\ Body(D2, x) = Body(D1, x)
    BY <2>1, PutInode
  <2> HIDE DEF D2
  <2>8. /\ Node(D3, k) = Node(D2, k) /\ Body(D3, k) = Data
        /\ \A x \in Inos : x # k => Node(D3, x) = Node(D2, x) /\ Body(D3, x) = Body(D2, x)
    BY <2>1, PutContent
  <2> HIDE DEF D3
  <2>9. \A x \in Inos : x # k => Node(D3, x) = Node(disk, x) /\ Body(D3, x) = Body(disk, x) /\ G[x] = handles[x]
    BY <2>3, <2>6, <2>7, <2>8
  <2>10. Node(D3, k) = Attrs("File", 0, 1) /\ Body(D3, k) = Data
    BY <2>7, <2>8
  <2>11. Tidy(D3, G)
    BY <1>3, <2>1, <2>2, <2>3, <2>9, <2>10, TmpTidy
  <2> QED
    BY <2>5, <2>11, DoneServed
<1>4. clean /\ Tidy(disk, handles) /\ ~(disk[Superblock] = Torn) => Served(tmpfile, G)
  BY <1>2, <1>3
<1> HIDE DEF G
<1> QED
  BY <1>1, <1>4, ServeTidy

(* mknod, create and mkdir.                                                *)
LEMMA EnterTidy ==
    ASSUME Inv, Tidy(disk, handles), NEW d \in Directories, NEW n \in Names, LookupName(d, n) = {},
           disk[Superblock] # Torn, NEW k \in Inos, k = NextInode, NEW kind \in Kinds,
           NEW G, G[k] \in Nat, \A x \in Inos : x # k => G[x] = handles[x],
           NEW r, r = Attrs(kind, IF kind = "File" THEN 1 ELSE 2, G[k]),
           NEW c, kind = "File" => c = Data, kind = "Directory" => c = Dots(k, d)
    PROVE  Served(Entering(d, <<<<InodeFile(d), inode(d)>>, <<Superblock, k>>,
                                <<InodeFile(k), r>>, <<ContentFile(k), c>>>>,
                           Insert(content(d), n, k, kind)), G)
<1> DEFINE a == <<InodeFile(d), inode(d)>>
           sb == <<Superblock, k>>
           b == <<InodeFile(k), r>>
           e == <<ContentFile(k), c>>
           l == Insert(content(d), n, k, kind)
           x5 == <<ContentFile(d), l>>
           u == <<a, sb, b, e>>
           w == Append(u, x5)
           D1 == Put(disk, InodeFile(d), inode(d))
           D2 == Put(D1, Superblock, k)
           D3 == Put(D2, InodeFile(k), r)
           D4 == Put(D3, ContentFile(k), c)
           D5 == Put(D4, ContentFile(d), l)
<1>1. InTree(disk, d)
  BY DirectoryInTree
<1>2. d \in Inos /\ Named(disk, <<d, n>>) = {}
  BY <1>1, FreeName DEF InTree
<1>3. Node(disk, k) = Absent /\ handles[k] = 0
  BY FreshInode
<1>4. k # d
  BY <1>1, <1>3 DEF InTree, IsDir
<1>5. /\ a[1] = InodeFile(d) /\ a[2] = inode(d) /\ sb[1] = Superblock /\ sb[2] = k
      /\ b[1] = InodeFile(k) /\ b[2] = r /\ e[1] = ContentFile(k) /\ e[2] = c
      /\ x5[1] = ContentFile(d) /\ x5[2] = l
  OBVIOUS
<1>6. l = Insert(Body(disk, d), n, k, kind) /\ inode(d) = Node(disk, d)
  BY NamedIsBound
<1>7. Served(Entering(d, u, l), G)
  <2> HIDE DEF a, sb, b, e, x5, l
  <2>1. After(disk, u) = D4
    BY <1>5, DiskIsDisk, AfterFour
  <2>2. /\ Len(u) \in Nat /\ Len(w) = Len(u) + 1 /\ w[Len(w)] = x5
        /\ \A j \in 1 .. Len(u) : w[j] = u[j]
    OBVIOUS
  <2> HIDE DEF u, w
  <2>3. After(disk, w) = Put(After(disk, u), ContentFile(d), l)
    BY <1>5, <2>2, AfterMore
  <2>4. After(disk, w) = D5
    BY <2>1, <2>3
  <2>5. \A x \in Inos : Node(D1, x) = Node(disk, x) /\ Body(D1, x) = Body(disk, x)
    BY <1>2, <1>6, PutOwn
  <2> HIDE DEF D1
  <2>6. \A x \in Inos : Node(D2, x) = Node(D1, x) /\ Body(D2, x) = Body(D1, x)
    BY PutSuperblock
  <2> HIDE DEF D2
  <2>7. Node(D3, k) = r /\ \A x \in Inos : (x # k => Node(D3, x) = Node(D2, x)) /\ Body(D3, x) = Body(D2, x)
    BY PutInode
  <2> HIDE DEF D3
  <2>8. Body(D4, k) = c /\ \A x \in Inos : Node(D4, x) = Node(D3, x) /\ (x # k => Body(D4, x) = Body(D3, x))
    BY PutContent
  <2> HIDE DEF D4
  <2>9. Body(D5, d) = l /\ \A x \in Inos : Node(D5, x) = Node(D4, x) /\ (x # d => Body(D5, x) = Body(D4, x))
    BY <1>2, PutContent
  <2> HIDE DEF D5
  <2>10. \A x \in Inos : x # k => Node(D5, x) = Node(disk, x) /\ G[x] = handles[x]
    BY <2>5, <2>6, <2>7, <2>8, <2>9
  <2>11. \A x \in Inos : x # k /\ x # d => Body(D5, x) = Body(disk, x)
    BY <2>5, <2>6, <2>7, <2>8, <2>9
  <2>12. Node(D5, k) = Attrs(kind, IF kind = "File" THEN 1 ELSE 2, G[k])
    BY <2>7, <2>8, <2>9
  <2>13. Body(D5, k) = c
    BY <1>4, <2>8, <2>9
  <2>14. Body(D5, d) = Insert(Body(disk, d), n, k, kind)
    BY <1>6, <2>9
  <2>15. (kind = "File" => Body(D5, k) = Data) /\ (kind = "Directory" => Body(D5, k) = Dots(k, d))
    BY <2>13
  <2>16. Tidy(D5, G)
    BY <1>1, <1>2, <1>3, <2>10, <2>11, <2>12, <2>14, <2>15, NewTidy
  <2>17. Entering(d, u, l) = IF content(d) = Absent THEN Panic(u) ELSE Done(w)
    BY DEF Entering, w, x5
  <2> QED
    BY <2>4, <2>16, <2>17, DoneServed, PanicServed
<1> QED
  BY <1>7

LEMMA MakeNodeTidy ==
    ASSUME Inv, Tidy(disk, handles), NEW d \in Directories, NEW n \in Names, ~AllocatesTorn(d, n),
           CanAllocate, NEW count \in Nat, NEW G, G[NextInode] = count,
           \A x \in Inos : x # NextInode => G[x] = handles[x]
    PROVE  Served(MakeNode(d, n, count), G)
<1>1. disk[Superblock] # Torn /\ NextInode \in Inos
  BY AllocatedIno DEF AllocatesTorn
<1>2. CASE LookupName(d, n) # {}
  <2>1. MakeNode(d, n, count) = Refuse("EEXIST") /\ "EEXIST" \in Errors
    BY <1>2 DEF MakeNode, Errors
  <2> QED
    BY <2>1, RefuseServed
<1>3. CASE LookupName(d, n) = {}
  <2> DEFINE r == Attrs("File", 1, count)
             k == NextInode
  <2>1. "File" \in Kinds /\ r = Attrs("File", IF "File" = "File" THEN 1 ELSE 2, G[k])
    BY DEF Kinds
  <2>2. MakeNode(d, n, count) =
          Entering(d, <<<<InodeFile(d), inode(d)>>, <<Superblock, k>>,
                        <<InodeFile(k), r>>, <<ContentFile(k), Data>>>>,
                   Insert(content(d), n, k, "File"))
    BY <1>3 DEF MakeNode
  <2> HIDE DEF r
  <2>3. k \in Inos /\ k = NextInode /\ G[k] \in Nat /\ \A x \in Inos : x # k => G[x] = handles[x]
    BY <1>1
  <2> HIDE DEF k
  <2>4. Served(Entering(d, <<<<InodeFile(d), inode(d)>>, <<Superblock, k>>,
                             <<InodeFile(k), r>>, <<ContentFile(k), Data>>>>,
                        Insert(content(d), n, k, "File")), G)
    BY <1>1, <1>3, <2>1, <2>3, EnterTidy
  <2> QED
    BY <2>2, <2>4
<1> QED
  BY <1>2, <1>3

LEMMA MknodTidy == ASSUME Inv, TreeInv, NoPanic', Mknod PROVE TreeInv'
<1>1. PICK d \in Directories, n \in Names :
         CanAllocate /\ Serve(AllocatesTorn(d, n), mknod(d, n), handles)
  BY DEF Mknod
<1>2. ASSUME Tidy(disk, handles), ~AllocatesTorn(d, n) PROVE Served(mknod(d, n), handles)
  <2>1. disk[Superblock] # Torn /\ NextInode \in Inos
    BY <1>1, <1>2, AllocatedIno DEF AllocatesTorn
  <2>2. handles[NextInode] = 0
    BY <2>1, FreshInode
  <2> QED
    BY <1>1, <1>2, <2>2, MakeNodeTidy DEF mknod
<1> QED
  BY <1>1, <1>2, ServeTidy

LEMMA CreateTidy == ASSUME Inv, TreeInv, NoPanic', Create PROVE TreeInv'
<1>1. PICK d \in Directories, n \in Names :
         CanAllocate /\ Serve(AllocatesTorn(d, n), create(d, n), Opened(NextInode))
  BY DEF Create
<1>2. ASSUME Tidy(disk, handles), ~AllocatesTorn(d, n) PROVE Served(create(d, n), Opened(NextInode))
  <2>1. disk[Superblock] # Torn /\ NextInode \in Inos
    BY <1>1, <1>2, AllocatedIno DEF AllocatesTorn
  <2>2. handles[NextInode] = 0
    BY <2>1, FreshInode
  <2>3. /\ Opened(NextInode)[NextInode] = 1
        /\ \A x \in Inos : x # NextInode => Opened(NextInode)[x] = handles[x]
    BY <2>1, <2>2, OpenedHandles
  <2> QED
    BY <1>1, <1>2, <2>3, MakeNodeTidy DEF create
<1> QED
  BY <1>1, <1>2, ServeTidy

LEMMA MkdirTidy == ASSUME Inv, TreeInv, NoPanic', Mkdir PROVE TreeInv'
<1>1. PICK d \in Directories, n \in Names :
         CanAllocate /\ Serve(AllocatesTorn(d, n), mkdir(d, n), handles)
  BY DEF Mkdir
<1>2. ASSUME Tidy(disk, handles), ~AllocatesTorn(d, n) PROVE Served(mkdir(d, n), handles)
  <2>1. disk[Superblock] # Torn /\ NextInode \in Inos
    BY <1>1, <1>2, AllocatedIno DEF AllocatesTorn
  <2>2. handles[NextInode] = 0
    BY <2>1, FreshInode
  <2>3. CASE LookupName(d, n) # {}
    <3>1. mkdir(d, n) = Refuse("EEXIST") /\ "EEXIST" \in Errors
      BY <2>3 DEF mkdir, Errors
    <3> QED
      BY <1>2, <3>1, RefuseServed
  <2>4. CASE LookupName(d, n) = {}
    <3> DEFINE r == Attrs("Directory", 2, 0)
               k == NextInode
               c == Dots(k, d)
    <3>1. "Directory" \in Kinds /\ r = Attrs("Directory", IF "Directory" = "File" THEN 1 ELSE 2, handles[k])
      BY <2>2 DEF Kinds
    <3>2. mkdir(d, n) =
            Entering(d, <<<<InodeFile(d), inode(d)>>, <<Superblock, k>>,
                          <<InodeFile(k), r>>, <<ContentFile(k), c>>>>,
                     Insert(content(d), n, k, "Directory"))
      BY <2>4 DEF mkdir, Dots
    <3>3. k \in Inos /\ k = NextInode /\ handles[k] \in Nat
      BY <2>1, <2>2
    <3> HIDE DEF r, k, c
    <3>4. Served(Entering(d, <<<<InodeFile(d), inode(d)>>, <<Superblock, k>>,
                               <<InodeFile(k), r>>, <<ContentFile(k), c>>>>,
                          Insert(content(d), n, k, "Directory")), handles)
      BY <1>2, <2>1, <2>4, <3>1, <3>3, EnterTidy DEF c
    <3> QED
      BY <3>2, <3>4
  <2> QED
    BY <2>3, <2>4
<1> QED
  BY <1>1, <1>2, ServeTidy

LEMMA SymlinkServed ==
    ASSUME Inv, Tidy(disk, handles), NEW d \in Directories, NEW n \in Names,
           disk[Superblock] # Torn, NEW k \in Inos, k = NextInode
    PROVE  Served(symlink(d, n), handles)
<1> DEFINE a == <<InodeFile(d), inode(d)>>
           sb == <<Superblock, k>>
           l == Insert(content(d), n, k, "File")
           x3 == <<ContentFile(d), l>>
           b == <<InodeFile(k), Attrs("File", 1, 0)>>
           e == <<ContentFile(k), Data>>
           u == <<a, sb>>
           v == <<x3, b, e>>
           D1 == Put(disk, InodeFile(d), inode(d))
           D2 == Put(D1, Superblock, k)
           D3 == Put(D2, ContentFile(d), l)
           D4 == Put(D3, InodeFile(k), Attrs("File", 1, 0))
           D5 == Put(D4, ContentFile(k), Data)
<1>1. InTree(disk, d)
  BY DirectoryInTree
<1>2. d \in Inos /\ LookupName(d, n) = Named(disk, <<d, n>>)
  BY <1>1, FreeName DEF InTree
<1>3. Node(disk, k) = Absent /\ handles[k] = 0
  BY FreshInode
<1>4. k # d
  BY <1>1, <1>3 DEF InTree, IsDir
<1>5. /\ a[1] = InodeFile(d) /\ a[2] = inode(d) /\ sb[1] = Superblock /\ sb[2] = k
      /\ b[1] = InodeFile(k) /\ b[2] = Attrs("File", 1, 0) /\ e[1] = ContentFile(k) /\ e[2] = Data
      /\ x3[1] = ContentFile(d) /\ x3[2] = l
  OBVIOUS
<1>6. l = Insert(Body(disk, d), n, k, "File") /\ inode(d) = Node(disk, d)
  BY NamedIsBound
<1>7. symlink(d, n) = IF LookupName(d, n) # {} THEN [reply |-> "EEXIST", writes |-> u]
                      ELSE IF content(d) = Absent THEN Panic(u) ELSE Done(u \o v)
  BY DEF symlink
<1> HIDE DEF a, sb, b, e, x3, l
<1>8. After(disk, u) = D2 /\ D2 = [f \in Files |-> D2[f]]
  BY <1>5, DiskIsDisk, AfterTwo, PutIsDisk
<1>9. u \in Seq({a, sb, x3, b, e}) /\ v \in Seq({a, sb, x3, b, e})
  OBVIOUS
<1>10. \A x \in Inos : Node(D1, x) = Node(disk, x) /\ Body(D1, x) = Body(disk, x)
  BY <1>2, <1>6, PutOwn
<1> HIDE DEF D1
<1>11. \A x \in Inos : Node(D2, x) = Node(D1, x) /\ Body(D2, x) = Body(D1, x)
  BY PutSuperblock
<1> HIDE DEF D2
<1>12. After(D2, v) = D5
  BY <1>5, <1>8, AfterThree
<1> HIDE DEF u, v
<1>13. After(disk, u \o v) = D5
  BY <1>8, <1>9, <1>12, AfterConcat
<1>14. Tidy(D2, handles)
  BY <1>10, <1>11, SameTidy
<1>15. Served([reply |-> "EEXIST", writes |-> u], handles)
  BY <1>8, <1>14 DEF Served, Errors
<1>16. ASSUME LookupName(d, n) = {} PROVE Served(Done(u \o v), handles)
  <2>1. Body(D3, d) = l /\ \A x \in Inos : Node(D3, x) = Node(D2, x) /\ (x # d => Body(D3, x) = Body(D2, x))
    BY <1>2, PutContent
  <2> HIDE DEF D3
  <2>2. /\ Node(D4, k) = Attrs("File", 1, 0)
        /\ \A x \in Inos : (x # k => Node(D4, x) = Node(D3, x)) /\ Body(D4, x) = Body(D3, x)
    BY PutInode
  <2> HIDE DEF D4
  <2>3. Body(D5, k) = Data /\ \A x \in Inos : Node(D5, x) = Node(D4, x) /\ (x # k => Body(D5, x) = Body(D4, x))
    BY PutContent
  <2> HIDE DEF D5
  <2>4. \A x \in Inos : x # k => Node(D5, x) = Node(disk, x) /\ handles[x] = handles[x]
    BY <1>10, <1>11, <2>1, <2>2, <2>3
  <2>5. \A x \in Inos : x # k /\ x # d => Body(D5, x) = Body(disk, x)
    BY <1>10, <1>11, <2>1, <2>2, <2>3
  <2>6. "File" \in Kinds /\ Node(D5, k) = Attrs("File", IF "File" = "File" THEN 1 ELSE 2, handles[k])
    BY <1>3, <2>2, <2>3 DEF Kinds
  <2>7. Body(D5, d) = Insert(Body(disk, d), n, k, "File")
    BY <1>2, <1>4, <1>6, <2>1, <2>2, <2>3
  <2>8. handles[k] \in Nat /\ Named(disk, <<d, n>>) = {} /\ Body(D5, k) = Data
    BY <1>2, <1>3, <1>16, <2>3
  <2>9. Tidy(D5, handles)
    BY <1>1, <1>3, <2>4, <2>5, <2>6, <2>7, <2>8, NewTidy
  <2> QED
    BY <1>13, <2>9, DoneServed
<1> QED
  BY <1>7, <1>15, <1>16, PanicServed

LEMMA SymlinkTidy == ASSUME Inv, TreeInv, NoPanic', Symlink PROVE TreeInv'
<1>1. PICK d \in Directories, n \in Names :
         CanAllocate /\ Serve(AllocatesTorn(d, n), symlink(d, n), handles)
  BY DEF Symlink
<1>2. ASSUME Tidy(disk, handles), ~AllocatesTorn(d, n) PROVE Served(symlink(d, n), handles)
  <2>1. disk[Superblock] # Torn /\ NextInode \in Inos
    BY <1>1, <1>2, AllocatedIno DEF AllocatesTorn
  <2> QED
    BY <1>2, <2>1, SymlinkServed
<1> QED
  BY <1>1, <1>2, ServeTidy

LEMMA LinkServed ==
    ASSUME Room, Inv, Tidy(disk, handles), NEW i \in Inos, NEW d \in Directories, NEW n \in Names,
           Exists(inode(i)), inode(i).kind # "Directory"
    PROVE  Served(link(i, d, n), handles)
<1> DEFINE a == <<InodeFile(d), inode(d)>>
           l == Insert(content(d), n, i, inode(i).kind)
           b == <<ContentFile(d), l>>
           c == <<InodeFile(i), IncrementLinks(inode(i))>>
           w == <<a, b, c>>
           D1 == Put(disk, InodeFile(d), inode(d))
           D2 == Put(D1, ContentFile(d), l)
           D3 == Put(D2, InodeFile(i), IncrementLinks(inode(i)))
<1>1. InTree(disk, d)
  BY DirectoryInTree
<1>2. d \in Inos /\ LookupName(d, n) = Named(disk, <<d, n>>)
  BY <1>1, FreeName DEF InTree
<1>3. Node(disk, i) # Absent /\ ~IsDir(disk, i) /\ inode(i) = Node(disk, i)
  BY NamedIsBound DEF Exists, IsDir
<1>4. link(i, d, n) = IF LookupName(d, n) # {} THEN Refuse("EEXIST")
                      ELSE IF content(d) = Absent THEN Panic(<<a>>) ELSE Done(w)
  BY DEF link
<1>5. /\ a[1] = InodeFile(d) /\ a[2] = inode(d) /\ b[1] = ContentFile(d) /\ b[2] = l
      /\ c[1] = InodeFile(i) /\ c[2] = IncrementLinks(inode(i))
  OBVIOUS
<1>6. l = Insert(Body(disk, d), n, i, Node(disk, i).kind) /\ inode(d) = Node(disk, d)
  BY NamedIsBound
<1> HIDE DEF a, b, c, l
<1>7. After(disk, w) = D3
  BY <1>5, DiskIsDisk, AfterThree
<1> HIDE DEF w
<1>8. Served(Refuse("EEXIST"), handles)
  BY RefuseServed DEF Errors
<1>9. ASSUME LookupName(d, n) = {} PROVE Served(Done(w), handles)
  <2>1. \A x \in Inos : Node(D1, x) = Node(disk, x) /\ Body(D1, x) = Body(disk, x)
    BY <1>2, <1>6, PutOwn
  <2> HIDE DEF D1
  <2>2. Body(D2, d) = l /\ \A x \in Inos : Node(D2, x) = Node(D1, x) /\ (x # d => Body(D2, x) = Body(D1, x))
    BY <1>2, PutContent
  <2> HIDE DEF D2
  <2>3. /\ Node(D3, i) = IncrementLinks(inode(i))
        /\ \A x \in Inos : (x # i => Node(D3, x) = Node(D2, x)) /\ Body(D3, x) = Body(D2, x)
    BY PutInode
  <2> HIDE DEF D3
  <2>4. \A x \in Inos : handles[x] = handles[x] /\ (x # i => Node(D3, x) = Node(disk, x))
    BY <2>1, <2>2, <2>3
  <2>5. \A x \in Inos : x # d => Body(D3, x) = Body(disk, x)
    BY <2>1, <2>2, <2>3
  <2>6. Node(D3, i) = IncrementLinks(Node(disk, i))
    BY <1>3, <2>3
  <2>7. Body(D3, d) = Insert(Body(disk, d), n, i, Node(disk, i).kind)
    BY <1>2, <1>6, <2>2, <2>3
  <2>8. Tidy(D3, handles)
    BY <1>1, <1>2, <1>3, <1>9, <2>4, <2>5, <2>6, <2>7, LinkTidy
  <2> QED
    BY <1>7, <2>8, DoneServed
<1> QED
  BY <1>4, <1>8, <1>9, PanicServed

LEMMA LinkKeepsTidy == ASSUME Room, Inv, TreeInv, NoPanic', Link PROVE TreeInv'
<1>1. PICK i \in Inos, d \in Directories, n \in Names :
         /\ Exists(inode(i)) /\ inode(i).kind # "Directory"
         /\ Serve(ReadsTorn(d, n), link(i, d, n), handles)
  BY DEF Link
<1>2. Tidy(disk, handles) => Served(link(i, d, n), handles)
  BY <1>1, LinkServed
<1> QED
  BY <1>1, <1>2, ServeTidy

(* rmdir and rename take a directory for empty that has two entries: they  *)
(* are "." and "..".                                                       *)
LEMMA EmptyDirectory ==
    ASSUME NEW D, NEW H, NEW i \in Inos, Sound(D, H, i), IsDir(D, i), i # ROOT,
           ~(Cardinality(DOMAIN Body(D, i)) > 2)
    PROVE  \A m \in Names : m \notin DOMAIN Body(D, i)
<1> DEFINE T == DOMAIN Body(D, i)
<1>1. "." \in T /\ ".." \in T
  BY DEF Sound, Agrees
<1>2. T \subseteq Names \cup {".", ".."}
  <2>1. Body(D, i) \in EntriesOf(i, MaxIno)
    BY KindsRead DEF Sound
  <2> QED
    BY <2>1 DEF EntriesOf, EntriesTo
<1>3. IsFiniteSet(T)
  <2> DEFINE N1 == Names \cup {"."}
             N2 == N1 \cup {".."}
  <2>0. IsFiniteSet(N1)
    BY NamesAssumption, FS_AddElement
  <2> HIDE DEF N1
  <2>1. IsFiniteSet(N2) /\ T \subseteq N2
    BY <1>2, <2>0, FS_AddElement DEF N1
  <2> HIDE DEF T, N2
  <2> QED
    BY <2>1, FS_Subset
<1> HIDE DEF T
<1>4. ~(Cardinality(T) > 2)
  BY DEF T
<1> SUFFICES ASSUME NEW m \in Names, m \in T PROVE FALSE
  BY DEF T
<1> DEFINE A == {"."}
           B == A \cup {".."}
           C == B \cup {m}
<1>5. m # "." /\ m # ".."
  BY NamesAssumption
<1>6. IsFiniteSet(A) /\ Cardinality(A) = 1
  BY FS_Singleton
<1>7. ".." \notin A
  OBVIOUS
<1> HIDE DEF A
<1>8. IsFiniteSet(B) /\ Cardinality(B) = 2
  BY <1>6, <1>7, FS_AddElement
<1>9. m \notin B /\ B \subseteq T
  BY <1>1, <1>5 DEF A
<1> HIDE DEF B
<1>10. IsFiniteSet(C) /\ Cardinality(C) = 3
  BY <1>8, <1>9, FS_AddElement
<1>11. C \subseteq T
  BY <1>9
<1> HIDE DEF C
<1>12. Cardinality(C) <= Cardinality(T) /\ Cardinality(T) \in Nat
  BY <1>3, <1>11, FS_Subset, FS_CardinalityType
<1> QED
  BY <1>4, <1>10, <1>12

LEMMA DropIsSeq ==
    ASSUME NEW i, NEW attrs
    PROVE  Drop(i, attrs) \in Seq({<<InodeFile(i), attrs>>, <<InodeFile(i), Absent>>, <<ContentFile(i), Absent>>})
<1> DEFINE a == <<InodeFile(i), attrs>>
           b == <<InodeFile(i), Absent>>
           c == <<ContentFile(i), Absent>>
           u == <<a>>
           v == GcInode(i, attrs)
<1>1. v = <<b, c>> \/ v = <<>>
  BY DEF GcInode
<1>2. Drop(i, attrs) = u \o v
  BY DEF Drop
<1> HIDE DEF a, b, c
<1>3. u \in Seq({a, b, c})
  OBVIOUS
<1>4. v \in Seq({a, b, c})
  <2>1. <<b, c>> \in Seq({a, b, c}) /\ <<>> \in Seq({a, b, c})
    OBVIOUS
  <2> HIDE DEF v
  <2> QED
    BY <1>1, <2>1
<1> HIDE DEF u, v
<1>5. u \o v \in Seq({a, b, c})
  BY <1>3, <1>4
<1> QED
  BY <1>2, <1>5 DEF a, b, c

(* unlink and rmdir.                                                       *)
LEMMA UnnameServed ==
    ASSUME Inv, Tidy(disk, handles), NEW d \in Directories, NEW n \in Names, NEW i \in LookupName(d, n),
           NEW r,
           r = IF inode(i).kind = "Directory" THEN [inode(i) EXCEPT !.hardlinks = 0]
               ELSE DecrementLinks(inode(i)),
           inode(i).kind = "Directory" => ~(Cardinality(DOMAIN content(i)) > 2)
    PROVE  Served(Unname(d, n, i, r), handles)
<1> DEFINE a == <<InodeFile(d), inode(d)>>
           dr == Drop(i, r)
           u == <<a>>
           l == Remove(content(d), n)
           x == <<ContentFile(d), l>>
           v == u \o dr
           w == Append(v, x)
           D1 == Put(disk, InodeFile(d), inode(d))
           D2 == After(D1, dr)
           D3 == Put(D2, ContentFile(d), l)
           S == {<<InodeFile(i), r>>, <<InodeFile(i), Absent>>, <<ContentFile(i), Absent>>}
<1>1. InTree(disk, d) /\ d \in Inos /\ <<d, n>> \in AllSlots /\ <<d, n>>[1] = d
  BY DirectoryInTree, SlotParts DEF InTree
<1>2. i \in Named(disk, <<d, n>>)
  BY <1>1, FreeName
<1>3. i \in Inos /\ i # d /\ i # ROOT /\ Node(disk, i) # Absent /\ Sound(disk, handles, i)
  BY <1>1, <1>2, NamedInode
<1>4. IsDir(disk, i) <=> inode(i).kind = "Directory"
  BY <1>3, NamedIsBound DEF IsDir
<1>5. /\ r = IF IsDir(disk, i) THEN [Node(disk, i) EXCEPT !.hardlinks = 0] ELSE DecrementLinks(Node(disk, i))
      /\ l = Remove(Body(disk, d), n) /\ inode(d) = Node(disk, d)
  BY <1>4, NamedIsBound
<1>6. IsDir(disk, i) => \A m \in Names : m \notin DOMAIN Body(disk, i)
  BY <1>3, <1>4, EmptyDirectory, NamedIsBound
<1>7. a[1] = InodeFile(d) /\ a[2] = inode(d) /\ x[1] = ContentFile(d) /\ x[2] = l
  OBVIOUS
<1>8. Unname(d, n, i, r) = IF GcPanics(i, r) THEN Panic(v) ELSE IF content(d) = Absent THEN Panic(v) ELSE Done(w)
  BY DEF Unname, Entering
<1>9. dr \in Seq(S)
  BY DropIsSeq
<1> HIDE DEF a, l, x, dr, S
<1>10. u \in Seq({a}) /\ After(disk, u) = D1
  BY <1>7, DiskIsDisk, AfterOne
<1> HIDE DEF u
<1>11. After(disk, v) = D2
  BY <1>9, <1>10, AfterConcat
<1>12. v \in Seq({a} \cup S)
  <2>1. u \in Seq({a} \cup S) /\ dr \in Seq({a} \cup S)
    BY <1>9, <1>10
  <2> QED
    BY <2>1
<1> HIDE DEF v
<1>13. /\ Len(v) \in Nat /\ Len(w) = Len(v) + 1 /\ w[Len(w)] = x
       /\ \A j \in 1 .. Len(v) : w[j] = v[j]
  BY <1>12
<1> HIDE DEF w
<1>14. After(disk, w) = D3
  BY <1>7, <1>11, <1>13, AfterMore
<1>15. /\ \A y \in Inos : Node(D1, y) = Node(disk, y) /\ Body(D1, y) = Body(disk, y)
       /\ D1 = [f \in Files |-> D1[f]]
  BY <1>1, <1>5, PutOwn, PutIsDisk
<1> HIDE DEF D1
<1>16. /\ Collects(r) => Node(D2, i) = Absent /\ Body(D2, i) = Absent
       /\ ~Collects(r) => Node(D2, i) = r /\ Body(D2, i) = Body(D1, i)
       /\ \A y \in Inos : y # i => Node(D2, y) = Node(D1, y) /\ Body(D2, y) = Body(D1, y)
  BY <1>3, <1>15, AfterDrop DEF dr
<1> HIDE DEF D2
<1>17. Body(D3, d) = l /\ \A y \in Inos : Node(D3, y) = Node(D2, y) /\ (y # d => Body(D3, y) = Body(D2, y))
  BY <1>1, PutContent
<1> HIDE DEF D3
<1>18. /\ Collects(r) => Node(D3, i) = Absent /\ Body(D3, i) = Absent
       /\ ~Collects(r) => Node(D3, i) = r /\ Body(D3, i) = Body(disk, i)
  BY <1>3, <1>15, <1>16, <1>17
<1>19. /\ \A y \in Inos : handles[y] = handles[y] /\ (y # i => Node(D3, y) = Node(disk, y))
       /\ \A y \in Inos : y # d /\ y # i => Body(D3, y) = Body(disk, y)
  BY <1>15, <1>16, <1>17
<1>20. Body(D3, d) = Remove(Body(disk, d), n)
  BY <1>5, <1>17
<1>21. Tidy(D3, handles)
  BY <1>1, <1>2, <1>5, <1>6, <1>18, <1>19, <1>20, UnnameTidy
<1> QED
  BY <1>8, <1>14, <1>21, DoneServed, PanicServed

LEMMA UnlinkTidy == ASSUME Inv, TreeInv, NoPanic', Unlink PROVE TreeInv'
<1>0. PICK d \in Directories, n \in Names : \E i \in LookupName(d, n) :
         inode(i).kind # "Directory" /\ Serve(ReadsTorn(d, n), unlink(d, n, i), handles)
  BY DEF Unlink
<1>1. PICK i \in LookupName(d, n) : inode(i).kind # "Directory" /\ Serve(ReadsTorn(d, n), unlink(d, n, i), handles)
  BY <1>0
<1>2. Tidy(disk, handles) => Served(unlink(d, n, i), handles)
  BY <1>1, UnnameServed DEF unlink
<1> QED
  BY <1>1, <1>2, ServeTidy

LEMMA RmdirTidy == ASSUME Inv, TreeInv, NoPanic', Rmdir PROVE TreeInv'
<1>0. PICK d \in Directories, n \in Names : \E i \in LookupName(d, n) :
         inode(i).kind = "Directory" /\ Serve(ReadsTorn(d, n), rmdir(d, n, i), handles)
  BY DEF Rmdir
<1>1. PICK i \in LookupName(d, n) : inode(i).kind = "Directory" /\ Serve(ReadsTorn(d, n), rmdir(d, n, i), handles)
  BY <1>0
<1>2. ASSUME Tidy(disk, handles) PROVE Served(rmdir(d, n, i), handles)
  <2>1. ~(Cardinality(DOMAIN content(i)) > 2) =>
           Served(Unname(d, n, i, [inode(i) EXCEPT !.hardlinks = 0]), handles)
    BY <1>1, <1>2, UnnameServed
  <2>2. Served(Refuse("ENOTEMPTY"), handles)
    BY <1>2, RefuseServed DEF Errors
  <2> QED
    BY <2>1, <2>2, PanicServed DEF rmdir
<1> QED
  BY <1>1, <1>2, ServeTidy

(* The first mount of an empty directory makes a root without names.       *)
LEMMA RootTidy ==
    ASSUME \A f \in Files : disk[f] = Absent, handles = NoHandles, NEW r, r = Attrs("Directory", 2, 0),
           NEW c, c = [m \in {"."} |-> <<ROOT, "Directory">>],
           NEW E, E = Put(Put(disk, InodeFile(ROOT), r), ContentFile(ROOT), c)
    PROVE  Tidy(E, handles)
<1>1. ROOT \in Inos /\ ROOT \in 1 .. MaxIno
  BY BoundsAssumption DEF Inos, ROOT
<1>2. \A x \in Inos : Node(disk, x) = Absent /\ Body(disk, x) = Absent /\ handles[x] = 0
  BY FilesDistinct DEF Node, Body, NoHandles
<1> DEFINE D1 == Put(disk, InodeFile(ROOT), r)
<1>3. Node(D1, ROOT) = r /\ \A x \in Inos : (x # ROOT => Node(D1, x) = Node(disk, x)) /\ Body(D1, x) = Body(disk, x)
  BY <1>1, PutInode
<1>4. Body(E, ROOT) = c /\ \A x \in Inos : Node(E, x) = Node(D1, x) /\ (x # ROOT => Body(E, x) = Body(D1, x))
  BY <1>1, PutContent
<1> HIDE DEF D1
<1>5. /\ Node(E, ROOT) = r /\ Body(E, ROOT) = c
      /\ \A x \in Inos : x # ROOT => Node(E, x) = Absent /\ Body(E, x) = Absent
  BY <1>1, <1>2, <1>3, <1>4
<1>6. /\ "." \in DOMAIN c /\ c["."] = <<ROOT, "Directory">>
      /\ \A m \in Names : m \notin DOMAIN c
  BY NamesAssumption
<1>7. c \in EntriesOf(ROOT, MaxIno)
  <2>1. c \in [{"."} -> (1 .. MaxIno) \X Kinds]
    BY <1>1 DEF Kinds
  <2>2. {"."} \in SUBSET (Names \cup {".", ".."}) /\ Names \cap {"."} = {}
    BY NamesAssumption
  <2>3. c \in EntriesTo(MaxIno)
    BY <2>1, <2>2 DEF EntriesTo
  <2> QED
    BY <1>6, <2>3 DEF EntriesOf, Dotted
<1>8. ASSUME NEW s \in AllSlots PROVE Named(E, s) = {}
  <2>1. s[1] \in Inos /\ s[2] \in Names
    BY SlotParts
  <2>2. Body(E, s[1]) = Absent \/ s[2] \notin DOMAIN Body(E, s[1])
    BY <1>5, <1>6, <2>1
  <2> QED
    BY <2>2, NamelessBody
<1>9. \A x : NamesOf(E, x) = {}
  BY <1>8 DEF NamesOf
<1>10. ASSUME NEW x \in Inos, x # ROOT PROVE Sound(E, handles, x)
  BY <1>2, <1>5, <1>9, <1>10, GoneSound
<1>11. Sound(E, handles, ROOT)
  <2>1. /\ r \in InodeRecords /\ r.kind = "Directory" /\ r.hardlinks = 2 /\ r.open_file_handles = 0
        /\ r # Absent
    BY ContentsAssumption DEF Attrs, InodeRecords, Kinds
  <2> HIDE DEF ROOT
  <2>2. Shaped(E, ROOT)
    BY <1>5, <1>7, <2>1 DEF Shaped, RecordsOf
  <2>3. Held(E, handles, ROOT)
    BY <1>1, <1>2, <1>5, <2>1 DEF Held
  <2>4. Counted(E, ROOT)
    BY <1>5, <1>9, <2>1 DEF Counted
  <2>5. Agrees(E, ROOT)
    BY <1>5, <1>6, <1>9 DEF Agrees
  <2> QED
    BY <2>2, <2>3, <2>4, <2>5 DEF Sound
<1> QED
  BY <1>10, <1>11 DEF Tidy

LEMMA MountTidy == ASSUME Inv, TreeInv, Mount PROVE TreeInv'
<1>1. ROOT \in Inos
  BY BoundsAssumption DEF Inos, ROOT
<1>2. mounts' \in Nat /\ mounts' > 0
  BY DEF Mount, TreeInv
<1>3. ASSUME clean' PROVE Tidy(disk', handles')
  <2>1. clean /\ handles' = handles /\ disk' = Written(init.writes, Len(init.writes))
    BY <1>3 DEF Mount, Killed
  <2>2. disk' = After(disk, init.writes)
    BY <2>1, WrittenIsAfter
  <2>3. CASE mounts > 0
    <3>1. Tidy(disk, handles)
      BY <2>1, <2>3 DEF TreeInv
    <3>2. Shaped(disk, ROOT) /\ Node(disk, ROOT) = inode(ROOT)
      BY <1>1, <3>1, TidyReads
    <3>3. inode(ROOT) # Absent
      BY <3>2, KindsRead
    <3>4. inode(ROOT) # Torn
      BY <1>1, <2>1, CleanReads
    <3>5. init.writes = <<>>
      BY <3>3, <3>4 DEF init, Done
    <3>6. disk' = disk
      BY <2>2, <3>5, DiskIsDisk, AfterNone
    <3> QED
      BY <2>1, <3>1, <3>6
  <2>4. CASE ~(mounts > 0)
    <3> DEFINE r == Attrs("Directory", 2, 0)
               c == [m \in {"."} |-> <<ROOT, "Directory">>]
               a == <<InodeFile(ROOT), r>>
               b == <<ContentFile(ROOT), c>>
               E == Put(Put(disk, InodeFile(ROOT), r), ContentFile(ROOT), c)
    <3>1. (\A f \in Files : disk[f] = Absent) /\ handles = NoHandles
      BY <2>1, <2>4 DEF TreeInv
    <3>2. inode(ROOT) = Absent
      BY <1>1, <3>1, FilesDistinct DEF inode
    <3>3. init.writes = <<a, b>>
      BY <3>2, ContentsAssumption DEF init, Done
    <3>4. Tidy(E, handles)
      BY <3>1, RootTidy
    <3>5. a[1] = InodeFile(ROOT) /\ a[2] = r /\ b[1] = ContentFile(ROOT) /\ b[2] = c
      OBVIOUS
    <3> HIDE DEF a, b, r, c
    <3>6. disk' = E
      BY <2>2, <3>3, <3>5, DiskIsDisk, AfterTwo
    <3> QED
      BY <2>1, <3>4, <3>6
  <2> QED
    BY <2>3, <2>4
<1> QED
  BY <1>2, <1>3 DEF TreeInv

LEMMA InitialTree == Init => TreeInv
<1> SUFFICES ASSUME Init PROVE TreeInv
  OBVIOUS
<1>1. \A f \in Files : disk[f] = Absent
  BY DEF Init
<1> QED
  BY <1>1 DEF Init, TreeInv

---------------------------------------------------------------------------
(* rename: one or two entries are edited, then the directory that moved.   *)

(* One entry of a directory, and nothing else, is edited.                  *)
Edited(D, F, s) ==
    /\ \A x \in Inos : x # s[1] => Body(F, x) = Body(D, x)
    /\ Body(F, s[1]) \in EntriesOf(s[1], MaxIno)
    /\ SameEntry(Body(D, s[1]), Body(F, s[1]), ".") /\ SameEntry(Body(D, s[1]), Body(F, s[1]), "..")
    /\ \A t \in AllSlots : t # s => SameName(D, F, t)

LEMMA EditedSlots ==
    ASSUME NEW D, NEW F, NEW d \in Inos, NEW n \in Names,
           \A x \in Inos : x # d => Body(F, x) = Body(D, x),
           \A y \in Names : y # n => SameName(D, F, <<d, y>>)
    PROVE  \A t \in AllSlots : t # <<d, n>> => SameName(D, F, t)
<1> SUFFICES ASSUME NEW t \in AllSlots, t # <<d, n>> PROVE SameName(D, F, t)
  OBVIOUS
<1>1. t[1] \in Inos /\ t[2] \in Names /\ t = <<t[1], t[2]>>
  BY SlotParts
<1>2. CASE t[1] = d
  <2>1. t[2] # n /\ t = <<d, t[2]>>
    BY <1>1, <1>2
  <2> QED
    BY <1>1, <2>1
<1>3. CASE t[1] # d
  BY <1>1, <1>3, SameBody
<1> QED
  BY <1>2, <1>3

LEMMA InsertEdits ==
    ASSUME NEW D, NEW F, NEW d \in Inos, NEW n \in Names, NEW i \in Inos, i # d, NEW kind \in Kinds,
           Body(D, d) \in EntriesOf(d, MaxIno), Body(F, d) = Insert(Body(D, d), n, i, kind),
           \A x \in Inos : x # d => Body(F, x) = Body(D, x)
    PROVE  Edited(D, F, <<d, n>>) /\ BoundTo(F, <<d, n>>, i, kind)
<1> DEFINE b == Body(D, d)
           c == Body(F, d)
           s == <<d, n>>
<1>1. n \in Names \cup {".", ".."} /\ i \in 1 .. MaxIno /\ n # "." /\ n # ".." /\ s[1] = d
  BY NamesAssumption DEF Inos, ROOT
<1>2. c = Insert(b, n, i, kind) /\ b \in EntriesOf(d, MaxIno)
  OBVIOUS
<1> HIDE DEF b, c
<1>3. c \in EntriesOf(d, MaxIno)
  BY <1>1, <1>2, InsertEntries
<1>4. SameEntry(b, c, ".") /\ SameEntry(b, c, "..")
  BY <1>1, <1>2 DEF SameEntry, Insert
<1>5. BoundTo(F, s, i, kind) /\ \A y \in Names : y # n => SameName(D, F, <<d, y>>)
  BY <1>3, InsertName DEF c
<1>6. \A t \in AllSlots : t # s => SameName(D, F, t)
  BY <1>5, EditedSlots
<1> HIDE DEF s
<1>7. Edited(D, F, s)
  BY <1>1, <1>3, <1>4, <1>6 DEF Edited, b, c
<1> QED
  BY <1>5, <1>7 DEF s

LEMMA RemoveEdits ==
    ASSUME NEW D, NEW F, NEW d \in Inos, NEW n \in Names,
           Body(D, d) \in EntriesOf(d, MaxIno), Body(F, d) = Remove(Body(D, d), n),
           \A x \in Inos : x # d => Body(F, x) = Body(D, x)
    PROVE  Edited(D, F, <<d, n>>) /\ Named(F, <<d, n>>) = {}
<1> DEFINE b == Body(D, d)
           c == Body(F, d)
           s == <<d, n>>
<1>1. n # "." /\ n # ".." /\ s[1] = d
  BY NamesAssumption
<1>2. c = Remove(b, n) /\ b \in EntriesOf(d, MaxIno)
  OBVIOUS
<1> HIDE DEF b, c
<1>3. c \in EntriesOf(d, MaxIno)
  BY <1>2, RemoveEntries
<1>4. SameEntry(b, c, ".") /\ SameEntry(b, c, "..")
  BY <1>1, <1>2 DEF SameEntry, Remove
<1>5. Named(F, s) = {} /\ \A y \in Names : y # n => SameName(D, F, <<d, y>>)
  BY <1>3, RemoveName DEF c
<1>6. \A t \in AllSlots : t # s => SameName(D, F, t)
  BY <1>5, EditedSlots
<1> HIDE DEF s
<1>7. Edited(D, F, s)
  BY <1>1, <1>3, <1>4, <1>6 DEF Edited, b, c
<1> QED
  BY <1>5, <1>7 DEF s

(* A moved directory keeps its names.                                      *)
LEMMA ReparentedNames ==
    ASSUME NEW D, NEW E, NEW x \in Inos, Shaped(D, x), NEW d \in Inos, Reparented(D, E, x, d),
           NEW s \in AllSlots, s[1] = x
    PROVE  SameName(D, E, s)
<1>1. CASE ~IsDir(D, x)
  BY <1>1, SameBody DEF Reparented
<1>2. CASE IsDir(D, x)
  <2>1. Body(D, x) \in EntriesOf(x, MaxIno) /\ Body(E, x) = Insert(Body(D, x), "..", d, "Directory")
    BY <1>2, KindsRead DEF Reparented
  <2>2. ".." \in Names \cup {".", ".."} /\ ".." \notin Names /\ d \in 1 .. MaxIno /\ "Directory" \in Kinds
    BY NamesAssumption DEF Inos, ROOT, Kinds
  <2>3. Body(E, x) \in EntriesOf(x, MaxIno)
    BY <2>1, <2>2, InsertEntries
  <2>4. \A y \in Names : y # ".." => SameName(D, E, <<x, y>>)
    BY <2>1, <2>3, InsertName
  <2>5. s[2] \in Names /\ s = <<x, s[2]>>
    BY SlotParts
  <2> QED
    BY <2>2, <2>4, <2>5
<1> QED
  BY <1>1, <1>2

(* Two entries are edited, in either order.                                *)
LEMMA RebindTidy ==
    ASSUME NEW D, NEW F, NEW K, NEW E, NEW H, Tidy(D, H), NEW p \in AllSlots, NEW q \in AllSlots,
           InTree(D, p[1]), InTree(D, q[1]), NEW i \in Named(D, p), i \notin Named(D, q), i # q[1],
           \A j \in Named(D, q) : j # p[1],
           \/ Edited(D, F, p) /\ Edited(F, K, q)
           \/ Edited(D, F, q) /\ Edited(F, K, p),
           BoundTo(K, q, i, Node(D, i).kind), Named(K, p) = Named(D, q),
           \A j \in Named(D, q) : Marked(K, p) = Node(D, j).kind,
           \A x \in Inos : Node(E, x) = Node(D, x),
           \A x \in Inos : x # i /\ x \notin Named(D, q) => Body(E, x) = Body(K, x),
           Reparented(D, E, i, q[1]), \A j \in Named(D, q) : Reparented(D, E, j, p[1])
    PROVE  Tidy(E, H)
<1>1. /\ i \in Inos /\ i # p[1] /\ p[1] \in Inos /\ q[1] \in Inos
      /\ \A j \in Named(D, q) : j \in Inos /\ j # q[1]
  BY NamedInode, SlotParts
<1>2. \A x \in Inos : Shaped(D, x)
  BY DEF Tidy, Sound
<1>3. \A x \in Inos : x # p[1] /\ x # q[1] => Body(K, x) = Body(D, x)
  BY DEF Edited
<1>4. \A s \in AllSlots : s # p /\ s # q => SameName(D, K, s)
  BY DEF Edited, SameName
<1>5. ASSUME NEW s \in AllSlots PROVE SameName(K, E, s)
  <2>1. s[1] \in Inos
    BY SlotParts
  <2>2. CASE s[1] # i /\ s[1] \notin Named(D, q)
    BY <2>1, <2>2, SameBody
  <2>3. CASE s[1] = i \/ s[1] \in Named(D, q)
    <3>1. Body(K, s[1]) = Body(D, s[1])
      BY <1>1, <1>3, <2>3
    <3>2. SameName(D, K, s)
      BY <3>1, SameBody
    <3>3. Reparented(D, E, s[1], p[1]) \/ Reparented(D, E, s[1], q[1])
      BY <2>3
    <3>4. SameName(D, E, s)
      BY <1>1, <1>2, <2>1, <3>3, ReparentedNames
    <3> QED
      BY <3>2, <3>4 DEF SameName
  <2> QED
    BY <2>2, <2>3
<1>6. \A s \in AllSlots : s # p /\ s # q => SameName(D, E, s)
  BY <1>4, <1>5 DEF SameName
<1>7. BoundTo(E, q, i, Node(D, i).kind)
  <2>1. SameName(K, E, q) /\ Named(K, q) = {i} /\ Marked(K, q) = Node(D, i).kind
    BY <1>5 DEF BoundTo
  <2>2. Named(K, q) # {}
    BY <2>1
  <2> QED
    BY <2>1, <2>2 DEF BoundTo, SameName
<1>8. Named(E, p) = Named(D, q) /\ \A j \in Named(D, q) : Marked(E, p) = Node(D, j).kind
  <2>1. SameName(K, E, p)
    BY <1>5
  <2>2. Named(E, p) = Named(D, q)
    BY <2>1 DEF SameName
  <2>3. ASSUME NEW j \in Named(D, q) PROVE Marked(E, p) = Node(D, j).kind
    BY <2>1, <2>3 DEF SameName
  <2> QED
    BY <2>2, <2>3
<1>9. ASSUME NEW x \in Inos, x # i, x \notin Named(D, q) PROVE KeepsDots(D, E, x)
  <2>1. Body(E, x) = Body(K, x)
    BY <1>9
  <2>2. CASE x # p[1] /\ x # q[1]
    BY <1>3, <2>1, <2>2 DEF KeepsDots
  <2>3. CASE x = p[1] \/ x = q[1]
    <3>1. IsDir(D, x) /\ (x = ROOT \/ NamesOf(D, x) # {})
      BY <2>3 DEF InTree
    <3>2. ASSUME NEW s, NEW t, Edited(D, F, s), Edited(F, K, t), x = s[1] \/ x = t[1]
          PROVE  KeepsDots(D, E, x)
      <4> DEFINE b == Body(D, x)
                 f == Body(F, x)
                 k == Body(K, x)
      <4>1. /\ x = s[1] => f \in EntriesOf(x, MaxIno) /\ SameEntry(b, f, ".") /\ SameEntry(b, f, "..")
            /\ x # s[1] => f = b
        BY <3>2 DEF Edited
      <4>2. /\ x = t[1] => k \in EntriesOf(x, MaxIno) /\ SameEntry(f, k, ".") /\ SameEntry(f, k, "..")
            /\ x # t[1] => k = f
        BY <3>2 DEF Edited
      <4> HIDE DEF b, f, k
      <4>3. SameEntry(b, k, ".") /\ SameEntry(b, k, "..") /\ k \in EntriesOf(x, MaxIno)
        BY <3>2, <4>1, <4>2 DEF SameEntry
      <4> QED
        BY <2>1, <3>1, <4>3 DEF KeepsDots, b, k
    <3> QED
      BY <2>3, <3>2
  <2> QED
    BY <2>2, <2>3
<1> QED
  BY <1>6, <1>7, <1>8, <1>9, MoveTidy

(* What a name of the disk leads to, read by a request.                    *)
LEMMA NameRead ==
    ASSUME Tidy(disk, handles), NEW d \in Directories, NEW n \in Names, NEW i \in LookupName(d, n)
    PROVE  /\ InTree(disk, d) /\ d \in Inos /\ <<d, n>> \in AllSlots /\ <<d, n>>[1] = d /\ <<d, n>>[2] = n
           /\ i \in Named(disk, <<d, n>>) /\ Named(disk, <<d, n>>) = {i}
           /\ i \in Inos /\ i # d /\ i # ROOT /\ Node(disk, i) = inode(i) /\ inode(i) # Absent
           /\ inode(i).kind \in Kinds /\ (IsDir(disk, i) <=> inode(i).kind = "Directory")
           /\ Body(disk, i) = content(i)
<1>1. InTree(disk, d) /\ d \in Inos /\ <<d, n>> \in AllSlots /\ <<d, n>>[1] = d /\ <<d, n>>[2] = n
  BY DirectoryInTree, SlotParts DEF InTree
<1>2. i \in Named(disk, <<d, n>>)
  BY <1>1, FreeName
<1>3. /\ i \in Inos /\ i # d /\ i # ROOT /\ Node(disk, i) # Absent /\ Node(disk, i).kind \in Kinds
      /\ Named(disk, <<d, n>>) = {i}
  BY <1>1, <1>2, NamedInode
<1>4. Node(disk, i) = inode(i) /\ Body(disk, i) = content(i)
  BY NamedIsBound
<1> QED
  BY <1>1, <1>2, <1>3, <1>4 DEF IsDir

LEMMA DirectoryBody ==
    ASSUME NEW D, NEW H, Tidy(D, H), NEW d, InTree(D, d)
    PROVE  d \in Inos /\ Body(D, d) \in EntriesOf(d, MaxIno)
<1>1. d \in Inos /\ Shaped(D, d) /\ IsDir(D, d)
  BY DEF Tidy, Sound, InTree
<1> QED
  BY <1>1, KindsRead

(* The last writes of a rename.                                            *)
ReparentedIn(D, E, i, e) ==
    /\ \A x \in Inos : Node(E, x) = Node(D, x) /\ (x # i => Body(E, x) = Body(D, x))
    /\ inode(i).kind = "Directory" => Body(E, i) = Insert(content(i), "..", e, "Directory")
    /\ inode(i).kind # "Directory" => Body(E, i) = Body(D, i)

LEMMA AfterReparent ==
    ASSUME NEW D, D = [f \in Files |-> D[f]], NEW i \in Inos, NEW e, NEW E, E = After(D, Reparent(i, e))
    PROVE  /\ ReparentedIn(D, E, i, e)
           /\ E = [f \in Files |-> E[f]]
           /\ Reparent(i, e) \in Seq({<<ContentFile(i), Insert(content(i), "..", e, "Directory")>>})
           /\ \A x \in Inos : Node(E, x) = Node(D, x) /\ (x # i => Body(E, x) = Body(D, x))
           /\ inode(i).kind = "Directory" => Body(E, i) = Insert(content(i), "..", e, "Directory")
           /\ inode(i).kind # "Directory" => Body(E, i) = Body(D, i)
<1> DEFINE l == Insert(content(i), "..", e, "Directory")
           a == <<ContentFile(i), l>>
           D1 == Put(D, ContentFile(i), l)
<1>0. E = [f \in Files |-> E[f]]
  BY DEF After
<1>1. a[1] = ContentFile(i) /\ a[2] = l /\ Reparent(i, e) = IF inode(i).kind = "Directory" THEN <<a>> ELSE <<>>
  BY DEF Reparent
<1> HIDE DEF l
<1>2. /\ \A x \in Inos : Node(D1, x) = Node(D, x) /\ (x # i => Body(D1, x) = Body(D, x))
      /\ Body(D1, i) = l
  BY PutContent
<1> HIDE DEF a
<1>3. <<a>> \in Seq({a}) /\ <<>> \in Seq({a})
  OBVIOUS
<1>4. Reparent(i, e) \in Seq({a})
  BY <1>1, <1>3
<1>5. After(D, <<a>>) = D1 /\ After(D, <<>>) = D
  BY <1>1, AfterOne, AfterNone
<1> HIDE DEF D1
<1>6. CASE inode(i).kind = "Directory"
  <2>1. E = D1
    BY <1>1, <1>5, <1>6
  <2> QED
    BY <1>0, <1>2, <1>4, <1>6, <2>1 DEF l, a, ReparentedIn
<1>7. CASE inode(i).kind # "Directory"
  <2>1. E = D
    BY <1>1, <1>5, <1>7
  <2> QED
    BY <1>0, <1>4, <1>7, <2>1 DEF l, a, ReparentedIn
<1> QED
  BY <1>6, <1>7

LEMMA ExchangeServed ==
    ASSUME Inv, Tidy(disk, handles), NEW d \in Directories, NEW n \in Names, NEW i \in LookupName(d, n),
           NEW e \in Directories, NEW m \in Names, NEW j \in LookupName(e, m), i # e, j # i, j # d
    PROVE  Served(Exchange(d, n, i, e, m, j), handles)
<1> DEFINE there == Insert(content(e), m, i, inode(i).kind)
           here == Insert(IF d = e THEN there ELSE content(d), n, j, inode(j).kind)
           a == <<ContentFile(e), there>>
           b == <<ContentFile(d), here>>
           a1 == <<InodeFile(d), inode(d)>>
           a2 == <<InodeFile(e), inode(e)>>
           a3 == <<InodeFile(i), inode(i)>>
           a4 == <<InodeFile(j), inode(j)>>
           u == <<a, b, a1, a2, a3, a4>>
           ri == Reparent(i, e)
           rj == Reparent(j, d)
           p == <<d, n>>
           q == <<e, m>>
           F == Put(disk, ContentFile(e), there)
           K == Put(F, ContentFile(d), here)
           K1 == Put(K, InodeFile(d), inode(d))
           K2 == Put(K1, InodeFile(e), inode(e))
           K3 == Put(K2, InodeFile(i), inode(i))
           K4 == Put(K3, InodeFile(j), inode(j))
           E1 == After(K4, ri)
           E == After(E1, rj)
<1>1. /\ InTree(disk, d) /\ d \in Inos /\ p \in AllSlots /\ p[1] = d /\ p[2] = n
      /\ i \in Named(disk, p) /\ Named(disk, p) = {i}
      /\ i \in Inos /\ i # d /\ i # ROOT /\ Node(disk, i) = inode(i) /\ inode(i) # Absent
      /\ inode(i).kind \in Kinds /\ (IsDir(disk, i) <=> inode(i).kind = "Directory") /\ Body(disk, i) = content(i)
  BY NameRead
<1>2. /\ InTree(disk, e) /\ e \in Inos /\ q \in AllSlots /\ q[1] = e /\ q[2] = m
      /\ j \in Named(disk, q) /\ Named(disk, q) = {j}
      /\ j \in Inos /\ j # e /\ j # ROOT /\ Node(disk, j) = inode(j) /\ inode(j) # Absent
      /\ inode(j).kind \in Kinds /\ (IsDir(disk, j) <=> inode(j).kind = "Directory") /\ Body(disk, j) = content(j)
  BY NameRead
<1>3. /\ content(e) \in EntriesOf(e, MaxIno) /\ content(d) \in EntriesOf(d, MaxIno)
      /\ content(e) = Body(disk, e) /\ content(d) = Body(disk, d)
      /\ inode(e) = Node(disk, e) /\ inode(d) = Node(disk, d)
  BY <1>1, <1>2, DirectoryBody, NamedIsBound
<1>4. Exchange(d, n, i, e, m, j) =
         IF ReparentPanics(i) THEN Panic(u)
         ELSE IF ReparentPanics(j) THEN Panic(u \o ri) ELSE Done(u \o ri \o rj)
  BY DEF Exchange
<1>5. /\ a[1] = ContentFile(e) /\ a[2] = there /\ b[1] = ContentFile(d) /\ b[2] = here
      /\ a1[1] = InodeFile(d) /\ a1[2] = inode(d) /\ a2[1] = InodeFile(e) /\ a2[2] = inode(e)
      /\ a3[1] = InodeFile(i) /\ a3[2] = inode(i) /\ a4[1] = InodeFile(j) /\ a4[2] = inode(j)
  OBVIOUS
<1>6. /\ Body(F, e) = there /\ \A x \in Inos : Node(F, x) = Node(disk, x) /\ (x # e => Body(F, x) = Body(disk, x))
  BY <1>2, PutContent
<1>7. /\ Body(K, d) = here /\ \A x \in Inos : Node(K, x) = Node(F, x) /\ (x # d => Body(K, x) = Body(F, x))
  BY <1>1, PutContent
<1>8. here = Insert(Body(F, d), n, j, inode(j).kind)
  BY <1>1, <1>3, <1>6
<1>9. there = Insert(Body(disk, e), m, i, inode(i).kind)
  BY <1>3
<1> HIDE DEF a, b, a1, a2, a3, a4, there, here, p, q
<1>10. After(disk, u) = K4 /\ u \in Seq({a, b, a1, a2, a3, a4})
  <2>1. After(disk, u) = K4
    BY <1>5, DiskIsDisk, AfterSix
  <2> QED
    BY <2>1
<1> HIDE DEF F, K, u
<1>11. \A x \in Inos : Node(K, x) = Node(disk, x)
  BY <1>6, <1>7
<1>12. \A x \in Inos : Node(K1, x) = Node(K, x) /\ Body(K1, x) = Body(K, x)
  BY <1>1, <1>3, <1>11, PutOwn
<1> HIDE DEF K1
<1>13. \A x \in Inos : Node(K2, x) = Node(K1, x) /\ Body(K2, x) = Body(K1, x)
  BY <1>2, <1>3, <1>11, <1>12, PutOwn
<1> HIDE DEF K2
<1>14. \A x \in Inos : Node(K3, x) = Node(K2, x) /\ Body(K3, x) = Body(K2, x)
  BY <1>1, <1>11, <1>12, <1>13, PutOwn
<1> HIDE DEF K3
<1>15. /\ \A x \in Inos : Node(K4, x) = Node(K3, x) /\ Body(K4, x) = Body(K3, x)
       /\ K4 = [f \in Files |-> K4[f]]
  BY <1>2, <1>11, <1>12, <1>13, <1>14, PutOwn, PutIsDisk
<1> HIDE DEF K4
<1>16. \A x \in Inos : Node(K4, x) = Node(disk, x) /\ Body(K4, x) = Body(K, x)
  BY <1>11, <1>12, <1>13, <1>14, <1>15
<1> DEFINE li == Insert(content(i), "..", e, "Directory")
           lj == Insert(content(j), "..", d, "Directory")
<1>17. /\ E1 = [f \in Files |-> E1[f]] /\ ri \in Seq({<<ContentFile(i), li>>})
       /\ \A x \in Inos : Node(E1, x) = Node(K4, x) /\ (x # i => Body(E1, x) = Body(K4, x))
       /\ inode(i).kind = "Directory" => Body(E1, i) = li
       /\ inode(i).kind # "Directory" => Body(E1, i) = Body(K4, i)
  <2>1. i \in Inos /\ K4 = [f \in Files |-> K4[f]]
    BY <1>1, <1>15
  <2>2. E1 = [f \in Files |-> E1[f]] /\ ri \in Seq({<<ContentFile(i), li>>})
    BY <2>1, AfterReparent DEF After
  <2>3. ReparentedIn(K4, E1, i, e)
    BY <2>1, AfterReparent
  <2> HIDE DEF E1
  <2> QED
    BY <2>2, <2>3 DEF ReparentedIn
<1> HIDE DEF E1
<1>18. /\ rj \in Seq({<<ContentFile(j), lj>>})
       /\ \A x \in Inos : Node(E, x) = Node(E1, x) /\ (x # j => Body(E, x) = Body(E1, x))
       /\ inode(j).kind = "Directory" => Body(E, j) = lj
       /\ inode(j).kind # "Directory" => Body(E, j) = Body(E1, j)
  <2>1. j \in Inos /\ E1 = [f \in Files |-> E1[f]]
    BY <1>2, <1>17
  <2>2. rj \in Seq({<<ContentFile(j), lj>>})
    BY <2>1, AfterReparent
  <2>3. ReparentedIn(E1, E, j, d)
    BY <2>1, AfterReparent
  <2> HIDE DEF E
  <2> QED
    BY <2>2, <2>3 DEF ReparentedIn
<1>19. After(disk, u \o ri \o rj) = E
  <2> HIDE DEF ri, rj
  <2> DEFINE S == {a, b, a1, a2, a3, a4} \cup {<<ContentFile(i), li>>}
             v == u \o ri
  <2>1. u \in Seq(S) /\ ri \in Seq(S)
    BY <1>10, <1>17
  <2> HIDE DEF S
  <2>2. v \in Seq(S)
    BY <2>1
  <2>3. After(disk, v) = E1
    BY <1>10, <2>1, AfterConcat DEF E1
  <2> HIDE DEF v
  <2>4. After(disk, v \o rj) = After(After(disk, v), rj)
    BY <1>18, <2>2, AfterConcat
  <2> QED
    BY <2>3, <2>4 DEF v
<1> HIDE DEF E, li, lj, ri, rj
<1>20. Edited(disk, F, q) /\ BoundTo(F, q, i, inode(i).kind)
  BY <1>1, <1>2, <1>3, <1>6, <1>9, InsertEdits DEF q
<1>21. Body(F, d) \in EntriesOf(d, MaxIno)
  <2>1. CASE d = e
    BY <1>2, <1>20, <2>1 DEF Edited
  <2>2. CASE d # e
    BY <1>1, <1>3, <1>6, <2>2
  <2> QED
    BY <2>1, <2>2
<1>22. Edited(F, K, p) /\ BoundTo(K, p, j, inode(j).kind)
  BY <1>1, <1>2, <1>7, <1>8, <1>21, InsertEdits DEF p
<1>23. p # q
  BY <1>1, <1>2
<1>24. BoundTo(K, q, i, Node(disk, i).kind)
  <2>1. SameName(F, K, q) /\ Named(F, q) = {i} /\ Marked(F, q) = inode(i).kind
    BY <1>2, <1>20, <1>22, <1>23 DEF Edited, BoundTo
  <2>2. Named(F, q) # {}
    BY <2>1
  <2> QED
    BY <1>1, <2>1, <2>2 DEF SameName, BoundTo
<1>25. Named(K, p) = Named(disk, q) /\ \A y \in Named(disk, q) : Marked(K, p) = Node(disk, y).kind
  BY <1>2, <1>22 DEF BoundTo
<1>26. \A x \in Inos : Node(E, x) = Node(disk, x)
  BY <1>16, <1>17, <1>18
<1>27. \A x \in Inos : x # i /\ x \notin Named(disk, q) => Body(E, x) = Body(K, x)
  BY <1>2, <1>16, <1>17, <1>18
<1>28. Reparented(disk, E, i, q[1])
  <2>1. Body(K, i) = Body(disk, i)
    BY <1>1, <1>6, <1>7
  <2> QED
    BY <1>1, <1>2, <1>16, <1>17, <1>18, <2>1 DEF Reparented, li
<1>29. \A y \in Named(disk, q) : Reparented(disk, E, y, p[1])
  <2>1. Body(K, j) = Body(disk, j)
    BY <1>2, <1>6, <1>7
  <2>2. Reparented(disk, E, j, d)
    BY <1>1, <1>2, <1>16, <1>17, <1>18, <2>1 DEF Reparented, lj
  <2> QED
    BY <1>1, <1>2, <2>2
<1>30. /\ InTree(disk, p[1]) /\ InTree(disk, q[1]) /\ i # q[1]
       /\ i \notin Named(disk, q) /\ \A y \in Named(disk, q) : y # p[1]
  BY <1>1, <1>2
<1>31. Tidy(E, handles)
  <2>1. p \in AllSlots /\ q \in AllSlots /\ i \in Named(disk, p) /\ Edited(disk, F, q) /\ Edited(F, K, p)
    BY <1>1, <1>2, <1>20, <1>22
  <2> QED
    BY <2>1, <1>24, <1>25, <1>26, <1>27, <1>28, <1>29, <1>30, RebindTidy
<1>32. Served(Done(u \o ri \o rj), handles)
  BY <1>19, <1>31, DoneServed
<1> QED
  BY <1>4, <1>32, PanicServed

(* A directory in the tree stays there while its link count does.          *)
LEMMA InTreeKept ==
    ASSUME NEW D, NEW E, NEW H, NEW G, Tidy(D, H), Tidy(E, G), NEW d, InTree(D, d), Node(E, d) = Node(D, d)
    PROVE  InTree(E, d)
<1>1. d \in Inos /\ IsDir(D, d) /\ (d = ROOT \/ NamesOf(D, d) # {}) /\ IsDir(E, d)
  BY DEF InTree, IsDir
<1>2. Counted(D, d) /\ Counted(E, d)
  BY <1>1 DEF Tidy, Sound
<1>3. ASSUME d # ROOT PROVE NamesOf(E, d) # {}
  <2>1. Node(D, d).hardlinks = 2
    BY <1>1, <1>2, <1>3 DEF Counted
  <2>2. \/ Node(E, d).hardlinks = 2 /\ \E s \in AllSlots : NamesOf(E, d) = {s}
        \/ Node(E, d).hardlinks = 0
    BY <1>1, <1>2, <1>3 DEF Counted
  <2> QED
    BY <2>1, <2>2
<1> QED
  BY <1>1, <1>3 DEF InTree

(* A move to a name that is free, and what it makes of the two bodies.     *)
MovesFrom(D, d, n, e, m, i) ==
    /\ InTree(D, d) /\ InTree(D, e) /\ n \in Names /\ m \in Names
    /\ i \in Named(D, <<d, n>>) /\ Named(D, <<e, m>>) = {} /\ i # e
MovesTo(D, E, d, e, m, i, left) ==
    /\ d # e => Body(E, d) = left /\ Body(E, e) = Insert(Body(D, e), m, i, Node(D, i).kind)
    /\ d = e => Body(E, d) = Insert(left, m, i, Node(D, i).kind)
    /\ Reparented(D, E, i, e)
Moved(D, E, d, n, e, m, i) ==
    /\ MovesFrom(D, d, n, e, m, i) /\ MovesTo(D, E, d, e, m, i, Remove(Body(D, d), n))
    /\ \A x \in Inos : Node(E, x) = Node(D, x)
    /\ \A x \in Inos : x # d /\ x # e /\ x # i => Body(E, x) = Body(D, x)

LEMMA MovedTidy ==
    ASSUME NEW D, NEW E, NEW H, NEW d, NEW n, NEW e, NEW m, NEW i, Tidy(D, H), Moved(D, E, d, n, e, m, i)
    PROVE  Tidy(E, H) /\ Named(E, <<d, n>>) = {} /\ InTree(E, d)
<1> DEFINE p == <<d, n>>
           q == <<e, m>>
           left == Remove(Body(D, d), n)
           F == Put(D, ContentFile(d), left)
           l == Insert(Body(F, e), m, i, Node(D, i).kind)
           K == Put(F, ContentFile(e), l)
<1>0. /\ InTree(D, d) /\ InTree(D, e) /\ n \in Names /\ m \in Names
      /\ i \in Named(D, p) /\ Named(D, q) = {} /\ i # e
      /\ d # e => Body(E, d) = left /\ Body(E, e) = Insert(Body(D, e), m, i, Node(D, i).kind)
      /\ d = e => Body(E, d) = Insert(left, m, i, Node(D, i).kind)
      /\ Reparented(D, E, i, e)
      /\ \A x \in Inos : Node(E, x) = Node(D, x)
      /\ \A x \in Inos : x # d /\ x # e /\ x # i => Body(E, x) = Body(D, x)
  BY DEF Moved, MovesFrom, MovesTo
<1> HIDE DEF left
<1>1. /\ d \in Inos /\ Body(D, d) \in EntriesOf(d, MaxIno)
      /\ e \in Inos /\ Body(D, e) \in EntriesOf(e, MaxIno)
  BY <1>0, DirectoryBody
<1>2. p \in AllSlots /\ p[1] = d /\ p[2] = n /\ q \in AllSlots /\ q[1] = e /\ q[2] = m
  BY <1>0, <1>1, SlotParts
<1>3. i \in Inos /\ i # d /\ Node(D, i).kind \in Kinds
  BY <1>0, <1>2, NamedInode
<1>4. p # q
  BY <1>0
<1>5. Body(F, d) = left /\ \A x \in Inos : x # d => Body(F, x) = Body(D, x)
  BY <1>1, PutContent
<1> HIDE DEF F, p, q
<1>6. Edited(D, F, p) /\ Named(F, p) = {}
  BY <1>0, <1>1, <1>5, RemoveEdits DEF p, left
<1>7. Body(F, e) \in EntriesOf(e, MaxIno)
  <2>1. CASE d = e
    BY <1>2, <1>6, <2>1 DEF Edited
  <2>2. CASE d # e
    BY <1>1, <1>5, <2>2
  <2> QED
    BY <2>1, <2>2
<1>8. Body(K, e) = l /\ \A x \in Inos : x # e => Body(K, x) = Body(F, x)
  BY <1>1, PutContent
<1> HIDE DEF K
<1>9. Edited(F, K, q) /\ BoundTo(K, q, i, Node(D, i).kind)
  BY <1>0, <1>1, <1>3, <1>7, <1>8, InsertEdits DEF q
<1>10. Named(K, p) = {}
  BY <1>2, <1>4, <1>6, <1>9 DEF Edited, SameName
<1>11. \A x \in Inos : x # i => Body(E, x) = Body(K, x)
  <2>1. Body(E, d) = Body(K, d) /\ Body(E, e) = Body(K, e)
    <3>1. CASE d = e
      BY <1>0, <1>5, <1>8, <3>1
    <3>2. CASE d # e
      BY <1>0, <1>1, <1>5, <1>8, <3>2
    <3> QED
      BY <3>1, <3>2
  <2>2. \A x \in Inos : x # d /\ x # e => Body(K, x) = Body(D, x)
    BY <1>5, <1>8
  <2> QED
    BY <1>0, <2>1, <2>2
<1>12. Tidy(E, H)
  <2>1. /\ InTree(D, p[1]) /\ InTree(D, q[1]) /\ i \in Named(D, p) /\ Named(D, q) = {} /\ i # q[1]
        /\ Reparented(D, E, i, q[1])
    BY <1>0, <1>2 DEF p, q
  <2>2. /\ i \notin Named(D, q) /\ \A j \in Named(D, q) : FALSE
    BY <2>1
  <2>3. Named(K, p) = Named(D, q)
    BY <1>10, <2>1
  <2>4. /\ \A j \in Named(D, q) : j # p[1]
        /\ \A j \in Named(D, q) : Marked(K, p) = Node(D, j).kind
        /\ \A j \in Named(D, q) : Reparented(D, E, j, p[1])
        /\ \A x \in Inos : x # i /\ x \notin Named(D, q) => Body(E, x) = Body(K, x)
    BY <1>11, <2>2
  <2> QED
    BY <1>0, <1>2, <1>6, <1>9, <2>1, <2>2, <2>3, <2>4, RebindTidy
<1>13. Named(E, p) = {}
  <2>1. Body(E, p[1]) = Body(K, p[1])
    BY <1>1, <1>2, <1>3, <1>11
  <2>2. SameName(K, E, p)
    BY <2>1, SameBody
  <2> QED
    BY <1>10, <2>2 DEF SameName
<1>14. InTree(E, d)
  BY <1>0, <1>1, <1>12, InTreeKept
<1> QED
  BY <1>12, <1>13, <1>14 DEF p

LEMMA InsertsCommute ==
    ASSUME NEW b, NEW n, NEW m, n # m, NEW i, NEW k, NEW ki, NEW kk
    PROVE  Insert(Insert(b, n, k, kk), m, i, ki) = Insert(Insert(b, m, i, ki), n, k, kk)
<1> DEFINE x == Insert(b, n, k, kk)
           y == Insert(b, m, i, ki)
           X == Insert(x, m, i, ki)
           Y == Insert(y, n, k, kk)
<1>1. DOMAIN x = DOMAIN b \cup {n} /\ DOMAIN y = DOMAIN b \cup {m}
  BY DEF Insert
<1>2. /\ x[n] = <<k, kk>> /\ y[m] = <<i, ki>>
      /\ \A z \in DOMAIN b : (z # n => x[z] = b[z]) /\ (z # m => y[z] = b[z])
  BY DEF Insert
<1> HIDE DEF x, y
<1>3. /\ X = [z \in DOMAIN x \cup {m} |-> IF z = m THEN <<i, ki>> ELSE x[z]]
      /\ Y = [z \in DOMAIN y \cup {n} |-> IF z = n THEN <<k, kk>> ELSE y[z]]
  BY DEF Insert
<1>4. DOMAIN x \cup {m} = DOMAIN y \cup {n}
  BY <1>1
<1>5. \A z \in DOMAIN x \cup {m} :
         (IF z = m THEN <<i, ki>> ELSE x[z]) = (IF z = n THEN <<k, kk>> ELSE y[z])
  BY <1>1, <1>2
<1>6. X = Y
  BY <1>3, <1>4, <1>5
<1> QED
  BY <1>6 DEF x, y

(* A move that leaves a whiteout under the old name.                       *)
LEMMA WhiteoutTidy ==
    ASSUME NEW D, NEW E, NEW H, NEW d, NEW n, NEW e, NEW m, NEW i, Tidy(D, H), MovesFrom(D, d, n, e, m, i),
           NEW k \in Inos, Node(D, k) = Absent,
           MovesTo(D, E, d, e, m, i, Insert(Remove(Body(D, d), n), n, k, "File")),
           \A x \in Inos : x # k => Node(E, x) = Node(D, x),
           \A x \in Inos : x # d /\ x # e /\ x # i /\ x # k => Body(E, x) = Body(D, x),
           Node(E, k) = Attrs("File", 1, 0), Body(E, k) = Data
    PROVE  Tidy(E, H)
<1> DEFINE ki == Node(D, i).kind
           left == Remove(Body(D, d), n)
           hole == Insert(left, n, k, "File")
           b == IF d = e THEN Insert(left, m, i, ki) ELSE left
           M1 == Put(E, InodeFile(k), Absent)
           M2 == Put(M1, ContentFile(k), Absent)
           M == Put(M2, ContentFile(d), b)
<1>0. /\ InTree(D, d) /\ InTree(D, e) /\ n \in Names /\ m \in Names
      /\ i \in Named(D, <<d, n>>) /\ Named(D, <<e, m>>) = {} /\ i # e
      /\ d # e => Body(E, d) = hole /\ Body(E, e) = Insert(Body(D, e), m, i, ki)
      /\ d = e => Body(E, d) = Insert(hole, m, i, ki)
      /\ Reparented(D, E, i, e)
  BY DEF MovesFrom, MovesTo
<1> HIDE DEF left, ki
<1>1. d \in Inos /\ e \in Inos /\ <<d, n>> \in AllSlots /\ <<d, n>>[1] = d
  BY <1>0, SlotParts DEF InTree
<1>2. i \in Inos /\ i # d /\ Node(D, i) # Absent
  BY <1>0, <1>1, NamedInode
<1>3. k # d /\ k # e /\ k # i
  BY <1>0, <1>2 DEF InTree, IsDir
<1>4. Body(D, k) = Absent /\ H[k] = 0
  BY KindsRead DEF Tidy, Sound, Held
<1>5. Node(M1, k) = Absent /\ \A x \in Inos : (x # k => Node(M1, x) = Node(E, x)) /\ Body(M1, x) = Body(E, x)
  BY PutInode
<1> HIDE DEF M1
<1>6. Body(M2, k) = Absent /\ \A x \in Inos : Node(M2, x) = Node(M1, x) /\ (x # k => Body(M2, x) = Body(M1, x))
  BY PutContent
<1> HIDE DEF M2
<1>7. Body(M, d) = b /\ \A x \in Inos : Node(M, x) = Node(M2, x) /\ (x # d => Body(M, x) = Body(M2, x))
  BY <1>1, PutContent
<1> HIDE DEF M
<1>8. \A x \in Inos : Node(M, x) = Node(D, x)
  BY <1>5, <1>6, <1>7
<1>9. \A x \in Inos : x # d /\ x # k => Body(M, x) = Body(E, x)
  BY <1>5, <1>6, <1>7
<1>10. \A x \in Inos : x # d /\ x # e /\ x # i => Body(M, x) = Body(D, x)
  <2>1. Body(M, k) = Absent
    BY <1>3, <1>6, <1>7
  <2> QED
    BY <1>4, <1>9, <2>1
<1>11. Reparented(D, M, i, e)
  <2>1. Body(M, i) = Body(E, i)
    BY <1>2, <1>3, <1>9
  <2> QED
    BY <1>0, <2>1 DEF Reparented
<1>12. /\ d # e => Body(M, d) = left /\ Body(M, e) = Insert(Body(D, e), m, i, ki)
       /\ d = e => Body(M, d) = Insert(left, m, i, ki)
  <2>1. d # e => Body(M, e) = Body(E, e)
    BY <1>1, <1>3, <1>9
  <2>2. (d # e => b = left) /\ (d = e => b = Insert(left, m, i, ki))
    OBVIOUS
  <2> HIDE DEF b
  <2> QED
    BY <1>0, <1>7, <2>1, <2>2
<1>13. Tidy(M, H) /\ Named(M, <<d, n>>) = {} /\ InTree(M, d)
  <2>1. MovesTo(D, M, d, e, m, i, left)
    BY <1>11, <1>12 DEF MovesTo, ki
  <2>2. Moved(D, M, d, n, e, m, i)
    BY <1>8, <1>10, <2>1 DEF Moved, left
  <2> QED
    BY <2>2, MovedTidy
<1>14. Body(E, d) = Insert(Body(M, d), n, k, "File")
  <2>1. CASE d # e
    BY <1>0, <1>12, <2>1
  <2>2. CASE d = e
    <3>1. n # m
      BY <1>0, <2>2
    <3>2. Insert(Insert(left, n, k, "File"), m, i, ki) = Insert(Insert(left, m, i, ki), n, k, "File")
      BY <3>1, InsertsCommute
    <3> QED
      BY <1>0, <1>12, <2>2, <3>2
  <2> QED
    BY <2>1, <2>2
<1>15. \A x \in Inos : x # k => Node(E, x) = Node(M, x) /\ H[x] = H[x]
  BY <1>8
<1>16. \A x \in Inos : x # k /\ x # d => Body(E, x) = Body(M, x)
  BY <1>9
<1>17. "File" \in Kinds /\ Node(E, k) = Attrs("File", IF "File" = "File" THEN 1 ELSE 2, H[k]) /\ H[k] \in Nat
  BY <1>4 DEF Kinds
<1>18. Node(M, k) = Absent
  BY <1>8
<1> QED
  BY <1>0, <1>13, <1>14, <1>15, <1>16, <1>17, <1>18, NewTidy

IsWrites(w) == \E S : w \in Seq(S)

LEMMA AfterJoin ==
    ASSUME NEW D, NEW u, NEW v, IsWrites(u), IsWrites(v)
    PROVE  After(D, u \o v) = After(After(D, u), v) /\ IsWrites(u \o v)
<1>1. PICK S : u \in Seq(S)
  BY DEF IsWrites
<1>2. PICK T : v \in Seq(T)
  BY DEF IsWrites
<1>3. After(D, u \o v) = After(After(D, u), v)
  BY <1>1, <1>2, AfterConcat
<1>4. u \in Seq(S \cup T) /\ v \in Seq(S \cup T)
  BY <1>1, <1>2
<1>5. u \o v \in Seq(S \cup T)
  BY <1>4
<1> QED
  BY <1>3, <1>5 DEF IsWrites

(* What the target of a rename leaves, when it has one.                    *)
ReplacedBy(D, d, n, i, e, m, target) ==
    /\ D = [f \in Files |-> D[f]] /\ Tidy(D, handles) /\ MovesFrom(D, d, n, e, m, i)
    /\ Body(D, e) = IF target = {} THEN content(e) ELSE Remove(content(e), m)
    /\ \A x \in Inos : x \notin target => Node(D, x) = Node(disk, x) /\ (x # e => Body(D, x) = Body(disk, x))

LEMMA ReplacedTidy ==
    ASSUME Inv, Tidy(disk, handles), NEW d \in Directories, NEW n \in Names, NEW i \in LookupName(d, n),
           NEW e \in Directories, NEW m \in Names, i # e, NEW j \in LookupName(e, m), j # i, j # d,
           inode(j).kind = "Directory" => ~(Cardinality(DOMAIN content(j)) > 2)
    PROVE  /\ IsWrites(Replaced(e, m, j))
           /\ ReplacedBy(After(disk, Replaced(e, m, j)), d, n, i, e, m, {j})
<1> DEFINE r == IF inode(j).kind = "Directory" THEN [inode(j) EXCEPT !.hardlinks = 0]
                ELSE DecrementLinks(inode(j))
           l == Remove(content(e), m)
           a == <<ContentFile(e), l>>
           u == <<a>>
           dr == Drop(j, r)
           p == <<d, n>>
           q == <<e, m>>
           F == Put(disk, ContentFile(e), l)
           D == After(F, dr)
<1>1. /\ InTree(disk, d) /\ d \in Inos /\ p \in AllSlots /\ p[1] = d
      /\ i \in Named(disk, p) /\ Named(disk, p) = {i} /\ i \in Inos
  BY NameRead
<1>2. /\ InTree(disk, e) /\ e \in Inos /\ q \in AllSlots /\ q[1] = e
      /\ j \in Named(disk, q) /\ Named(disk, q) = {j}
      /\ j \in Inos /\ j # e /\ j # ROOT /\ Node(disk, j) = inode(j)
      /\ (IsDir(disk, j) <=> inode(j).kind = "Directory") /\ Body(disk, j) = content(j)
  BY NameRead
<1>3. content(e) = Body(disk, e) /\ Body(disk, e) \in EntriesOf(e, MaxIno)
  BY <1>2, DirectoryBody, NamedIsBound
<1>4. IsDir(disk, j) => \A y \in Names : y \notin DOMAIN Body(disk, j)
  <2>1. Sound(disk, handles, j)
    BY <1>2 DEF Tidy
  <2> QED
    BY <1>2, <2>1, EmptyDirectory
<1>5. a[1] = ContentFile(e) /\ a[2] = l /\ Replaced(e, m, j) = u \o dr
  BY DEF Replaced
<1>6. l = Remove(Body(disk, e), m)
  BY <1>3
<1>7. Body(F, e) = l /\ \A x \in Inos : Node(F, x) = Node(disk, x) /\ (x # e => Body(F, x) = Body(disk, x))
  BY <1>2, PutContent
<1>8. F = [f \in Files |-> F[f]]
  BY PutIsDisk
<1>9. IsWrites(dr)
  BY DropIsSeq DEF IsWrites
<1>10. r = IF IsDir(disk, j) THEN [Node(disk, j) EXCEPT !.hardlinks = 0] ELSE DecrementLinks(Node(disk, j))
  BY <1>2
<1> HIDE DEF a, l, r
<1>11. u \in Seq({a}) /\ After(disk, u) = F
  BY <1>5, DiskIsDisk, AfterOne
<1>12. IsWrites(u)
  BY <1>11 DEF IsWrites
<1> HIDE DEF u, F
<1>13. /\ D = [f \in Files |-> D[f]]
       /\ Collects(r) => Node(D, j) = Absent /\ Body(D, j) = Absent
       /\ ~Collects(r) => Node(D, j) = r /\ Body(D, j) = Body(F, j)
       /\ \A x \in Inos : x # j => Node(D, x) = Node(F, x) /\ Body(D, x) = Body(F, x)
  BY <1>2, <1>8, AfterDrop
<1> HIDE DEF dr
<1>14. After(disk, Replaced(e, m, j)) = D /\ IsWrites(Replaced(e, m, j))
  BY <1>5, <1>9, <1>11, <1>12, AfterJoin
<1> HIDE DEF D, p, q
<1>15. Edited(disk, F, q) /\ Named(F, q) = {}
  BY <1>2, <1>3, <1>6, <1>7, RemoveEdits DEF q
<1>16. Named(D, q) = {} /\ Named(D, p) = {i}
  <2>1. p # q
    BY <1>1, <1>2
  <2>2. Named(F, p) = {i}
    BY <1>1, <1>15, <2>1 DEF Edited, SameName
  <2>3. Body(D, p[1]) = Body(F, p[1]) /\ Body(D, q[1]) = Body(F, q[1])
    BY <1>1, <1>2, <1>13
  <2>4. SameName(F, D, p) /\ SameName(F, D, q)
    BY <2>3, SameBody
  <2> QED
    BY <1>15, <2>2, <2>4 DEF SameName
<1>17. Tidy(D, handles)
  <2>1. /\ Collects(r) => Node(D, j) = Absent /\ Body(D, j) = Absent
        /\ ~Collects(r) => Node(D, j) = r /\ Body(D, j) = Body(disk, j)
    BY <1>2, <1>7, <1>13
  <2>2. /\ \A x \in Inos : handles[x] = handles[x] /\ (x # j => Node(D, x) = Node(disk, x))
        /\ \A x \in Inos : x # e /\ x # j => Body(D, x) = Body(disk, x)
    BY <1>7, <1>13
  <2>3. Body(D, e) = Remove(Body(disk, e), m) /\ j \in Named(disk, <<e, m>>)
    BY <1>2, <1>6, <1>7, <1>13 DEF q
  <2> QED
    BY <1>2, <1>4, <1>10, <2>1, <2>2, <2>3, UnnameTidy
<1>18. \A x \in Inos : x # j => Node(D, x) = Node(disk, x) /\ (x # e => Body(D, x) = Body(disk, x))
  BY <1>7, <1>13
<1>19. InTree(D, d) /\ InTree(D, e)
  BY <1>1, <1>2, <1>17, <1>18, InTreeKept
<1>20. Body(D, e) = Remove(content(e), m)
  BY <1>2, <1>7, <1>13 DEF l
<1>21. MovesFrom(D, d, n, e, m, i)
  BY <1>16, <1>19 DEF MovesFrom, p, q
<1>22. ReplacedBy(D, d, n, i, e, m, {j})
  BY <1>13, <1>17, <1>18, <1>20, <1>21 DEF ReplacedBy
<1> QED
  BY <1>14, <1>22

(* The whiteout's inode.                                                   *)
LEMMA AfterHole ==
    ASSUME NEW D, D = [f \in Files |-> D[f]], NextInode \in Inos, NEW E, E = After(D, Hole)
    PROVE  /\ E = [f \in Files |-> E[f]] /\ IsWrites(Hole)
           /\ Node(E, NextInode) = Attrs("File", 1, 0) /\ Body(E, NextInode) = Data
           /\ \A x \in Inos : x # NextInode => Node(E, x) = Node(D, x) /\ Body(E, x) = Body(D, x)
<1> DEFINE k == NextInode
           v == Attrs("File", 1, 0)
           a == <<Superblock, k>>
           b == <<InodeFile(k), v>>
           c == <<ContentFile(k), Data>>
           w == <<a, b, c>>
           D1 == Put(D, Superblock, k)
           D2 == Put(D1, InodeFile(k), v)
           D3 == Put(D2, ContentFile(k), Data)
<1>1. Hole = w /\ k \in Inos
  BY DEF Hole
<1>2. /\ a[1] = Superblock /\ a[2] = k /\ b[1] = InodeFile(k) /\ b[2] = v
      /\ c[1] = ContentFile(k) /\ c[2] = Data
  OBVIOUS
<1> HIDE DEF a, b, c, k, v
<1>3. w \in Seq({a, b, c}) /\ After(D, w) = D3
  <2>1. After(D, w) = D3
    BY <1>2, AfterThree
  <2> QED
    BY <2>1
<1>4. \A x \in Inos : Node(D1, x) = Node(D, x) /\ Body(D1, x) = Body(D, x)
  BY PutSuperblock
<1> HIDE DEF D1, w
<1>5. Node(D2, k) = v /\ \A x \in Inos : (x # k => Node(D2, x) = Node(D1, x)) /\ Body(D2, x) = Body(D1, x)
  BY <1>1, PutInode
<1> HIDE DEF D2
<1>6. Body(D3, k) = Data /\ \A x \in Inos : Node(D3, x) = Node(D2, x) /\ (x # k => Body(D3, x) = Body(D2, x))
  BY <1>1, PutContent
<1>7. D3 = [f \in Files |-> D3[f]]
  BY PutIsDisk
<1> HIDE DEF D3
<1>8. E = D3 /\ IsWrites(Hole)
  BY <1>1, <1>3 DEF IsWrites
<1>9. Node(D3, k) = v /\ \A x \in Inos : x # k => Node(D3, x) = Node(D, x) /\ Body(D3, x) = Body(D, x)
  BY <1>1, <1>4, <1>5, <1>6
<1> QED
  BY <1>6, <1>7, <1>8, <1>9 DEF k, v

(* The target, if any, is replaced first.                                  *)
Replaceable(d, i, e, m) ==
    \A j \in LookupName(e, m) :
       j # i /\ j # d /\ (inode(j).kind = "Directory" => ~(Cardinality(DOMAIN content(j)) > 2))

AllReplaced(e, m) ==
    LET removed == UNION {{Replaced(e, m, j)} : j \in LookupName(e, m)}
    IN  IF removed = {} THEN <<>> ELSE CHOOSE w \in removed : TRUE

LEMMA TargetReplaced ==
    ASSUME Inv, Tidy(disk, handles), NEW d \in Directories, NEW n \in Names, NEW i \in LookupName(d, n),
           NEW e \in Directories, NEW m \in Names, i # e,
           Replaceable(d, i, e, m)
    PROVE  /\ IsWrites(AllReplaced(e, m))
           /\ ReplacedBy(After(disk, AllReplaced(e, m)), d, n, i, e, m, LookupName(e, m))
<1> DEFINE target == LookupName(e, m)
           removed == UNION {{Replaced(e, m, j)} : j \in target}
           replaced == AllReplaced(e, m)
<1>0. replaced = IF removed = {} THEN <<>> ELSE CHOOSE w \in removed : TRUE
  BY DEF AllReplaced
<1> HIDE DEF replaced
<1>1. CASE target = {}
  <2>1. replaced = <<>>
    BY <1>0, <1>1
  <2>2. <<>> \in Seq({})
    OBVIOUS
  <2>3. IsWrites(replaced)
    BY <2>1, <2>2 DEF IsWrites
  <2>4. After(disk, replaced) = disk /\ disk = [f \in Files |-> disk[f]]
    BY <2>1, DiskIsDisk, AfterNone
  <2>5. InTree(disk, d) /\ i \in Named(disk, <<d, n>>)
    BY NameRead
  <2>6. InTree(disk, e) /\ e \in Inos
    BY DirectoryInTree DEF InTree
  <2>7. Named(disk, <<e, m>>) = {} /\ Body(disk, e) = content(e)
    BY <1>1, <2>6, FreeName, NamedIsBound
  <2>8. MovesFrom(disk, d, n, e, m, i)
    BY <2>5, <2>6, <2>7 DEF MovesFrom
  <2>9. ReplacedBy(disk, d, n, i, e, m, target)
    BY <1>1, <2>4, <2>7, <2>8 DEF ReplacedBy
  <2> QED
    BY <2>3, <2>4, <2>9 DEF replaced
<1>2. CASE target # {}
  <2>1. PICK j \in target : TRUE
    BY <1>2
  <2>2. target = {j}
    BY <2>1 DEF LookupName, Bound
  <2>3. removed = {Replaced(e, m, j)}
    BY <2>2
  <2>4. replaced = Replaced(e, m, j)
    <3> HIDE DEF removed
    <3> QED
      BY <1>0, <2>3
  <2>5. j \in LookupName(e, m) /\ j # i /\ j # d
    BY <2>1 DEF Replaceable
  <2>6. inode(j).kind = "Directory" => ~(Cardinality(DOMAIN content(j)) > 2)
    BY <2>5 DEF Replaceable
  <2>7. /\ IsWrites(Replaced(e, m, j))
        /\ ReplacedBy(After(disk, Replaced(e, m, j)), d, n, i, e, m, {j})
    BY <2>5, <2>6, ReplacedTidy
  <2> QED
    BY <2>2, <2>4, <2>7 DEF replaced
<1> QED
  BY <1>1, <1>2 DEF replaced

(* A rename without RENAME_EXCHANGE.                                       *)
MayWhiteout(whiteout) ==
    whiteout \in BOOLEAN /\ (whiteout => disk[Superblock] # Torn /\ NextInode \in Inos)

LEMMA MoveServed ==
    ASSUME Inv, Tidy(disk, handles), NEW d \in Directories, NEW n \in Names, NEW i \in LookupName(d, n),
           NEW e \in Directories, NEW m \in Names, i # e,
           Replaceable(d, i, e, m), NEW whiteout, MayWhiteout(whiteout), NEW owned
    PROVE  Served(Move(d, n, i, e, m, LookupName(e, m), whiteout, owned), handles)
<1> DEFINE target == LookupName(e, m)
           removed == UNION {{Replaced(e, m, j)} : j \in target}
           replaced == IF removed = {} THEN <<>> ELSE CHOOSE w \in removed : TRUE
           gone(x) == IF x = e /\ target # {} THEN Remove(content(x), m) ELSE content(x)
           left == IF whiteout THEN Insert(Remove(gone(d), n), n, NextInode, "File")
                   ELSE Remove(gone(d), n)
           there == Insert(IF d = e THEN left ELSE gone(e), m, i, inode(i).kind)
           hole == IF whiteout THEN Hole ELSE <<>>
           x1 == <<ContentFile(d), left>>
           x2 == <<ContentFile(e), there>>
           a1 == <<InodeFile(d), inode(d)>>
           a2 == <<InodeFile(e), inode(e)>>
           a3 == <<InodeFile(i), inode(i)>>
           one == <<x1>>
           rest == <<x2, a1, a2, a3>>
           taken == replaced \o hole \o one
           moved == taken \o rest
           ri == Reparent(i, e)
           stops == \E j \in target : ReplacePanics(j)
           k == NextInode
           D1 == After(disk, replaced)
           D2 == After(D1, hole)
           F == Put(D2, ContentFile(d), left)
           K == Put(F, ContentFile(e), there)
           K1 == Put(K, InodeFile(d), inode(d))
           K2 == Put(K1, InodeFile(e), inode(e))
           K3 == Put(K2, InodeFile(i), inode(i))
           E == After(K3, ri)
<1>1. Move(d, n, i, e, m, target, whiteout, owned) =
        IF stops THEN Panic(replaced)
        ELSE IF whiteout /\ ~owned THEN [reply |-> "EIO", writes |-> replaced]
        ELSE IF whiteout /\ disk[Superblock] = Torn THEN Panic(replaced)
        ELSE IF content(e) = Absent THEN Panic(taken)
        ELSE IF ReparentPanics(i) THEN Panic(moved)
        ELSE Done(moved \o ri)
  BY DEF Move, Hole
<1>2. IsWrites(replaced) /\ ReplacedBy(D1, d, n, i, e, m, target)
  <2>1. replaced = AllReplaced(e, m)
    BY DEF AllReplaced
  <2> HIDE DEF replaced
  <2> QED
    BY <2>1, TargetReplaced
<1>3. /\ d \in Inos /\ i \in Inos /\ i # d /\ Node(disk, i) = inode(i) /\ inode(i) # Absent
      /\ (IsDir(disk, i) <=> inode(i).kind = "Directory") /\ Body(disk, i) = content(i)
      /\ InTree(disk, d) /\ i \notin target
  <2>1. i \notin target
    BY DEF Replaceable
  <2>2. /\ InTree(disk, d) /\ d \in Inos
        /\ i \in Named(disk, <<d, n>>) /\ Named(disk, <<d, n>>) = {i}
        /\ i \in Inos /\ i # d /\ Node(disk, i) = inode(i) /\ inode(i) # Absent
        /\ (IsDir(disk, i) <=> inode(i).kind = "Directory") /\ Body(disk, i) = content(i)
    BY NameRead
  <2> QED
    BY <2>1, <2>2
<1>4. e \in Inos /\ InTree(disk, e)
  BY DirectoryInTree DEF InTree
<1>5. \A j \in target : j \in Inos /\ j # e /\ Node(disk, j) # Absent
  <2> SUFFICES ASSUME NEW j \in LookupName(e, m) PROVE j \in Inos /\ j # e /\ Node(disk, j) # Absent
    OBVIOUS
  <2>1. /\ j \in Named(disk, <<e, m>>) /\ j \in Inos /\ j # e
        /\ Node(disk, j) = inode(j) /\ inode(j) # Absent
    BY NameRead
  <2> QED
    BY <2>1
<1>6. d \notin target /\ e \notin target
  BY <1>5 DEF Replaceable
<1>7. whiteout => /\ k \in Inos /\ Node(disk, k) = Absent /\ k # d /\ k # e /\ k # i /\ k \notin target
                  /\ disk[Superblock] # Torn
  <2>1. whiteout => k \in Inos /\ Node(disk, k) = Absent
    BY FreshInode DEF MayWhiteout
  <2> QED
    BY <1>3, <1>4, <1>5, <2>1 DEF InTree, IsDir, MayWhiteout
<1>8. /\ inode(d) = Node(disk, d) /\ inode(e) = Node(disk, e)
      /\ content(d) = Body(disk, d)
  BY NamedIsBound
<1> HIDE DEF target, removed, replaced, D1
<1>9. /\ D1 = [f \in Files |-> D1[f]] /\ Tidy(D1, handles) /\ MovesFrom(D1, d, n, e, m, i)
      /\ Body(D1, e) = gone(e)
      /\ \A x \in Inos : x \notin target => Node(D1, x) = Node(disk, x) /\ (x # e => Body(D1, x) = Body(disk, x))
  BY <1>2 DEF ReplacedBy
<1>10. Body(D1, d) = gone(d)
  <2>1. CASE d = e
    BY <1>9, <2>1
  <2>2. CASE d # e
    BY <1>3, <1>6, <1>8, <1>9, <2>2
  <2> QED
    BY <2>1, <2>2
<1>11. /\ whiteout => left = Insert(Remove(Body(D1, d), n), n, k, "File")
       /\ ~whiteout => left = Remove(Body(D1, d), n)
       /\ d = e => there = Insert(left, m, i, inode(i).kind)
       /\ d # e => there = Insert(Body(D1, e), m, i, inode(i).kind)
  BY <1>9, <1>10
<1>12. /\ x1[1] = ContentFile(d) /\ x1[2] = left /\ x2[1] = ContentFile(e) /\ x2[2] = there
       /\ a1[1] = InodeFile(d) /\ a1[2] = inode(d) /\ a2[1] = InodeFile(e) /\ a2[2] = inode(e)
       /\ a3[1] = InodeFile(i) /\ a3[2] = inode(i)
  OBVIOUS
<1> HIDE DEF gone, left, there, x1, x2, a1, a2, a3, stops, k
(* The disk after each group of writes.                                    *)
<1>13. /\ D2 = [f \in Files |-> D2[f]] /\ IsWrites(hole)
       /\ whiteout => Node(D2, k) = Attrs("File", 1, 0) /\ Body(D2, k) = Data
       /\ \A x \in Inos : ~(whiteout /\ x = k) => Node(D2, x) = Node(D1, x) /\ Body(D2, x) = Body(D1, x)
  <2>1. CASE whiteout
    <3>1. hole = Hole /\ NextInode \in Inos
      BY <1>7, <2>1 DEF k
    <3> HIDE DEF hole
    <3>2. D2 = After(D1, Hole)
      BY <3>1
    <3> HIDE DEF D2
    <3>3. /\ D2 = [f \in Files |-> D2[f]] /\ IsWrites(Hole)
          /\ Node(D2, NextInode) = Attrs("File", 1, 0) /\ Body(D2, NextInode) = Data
          /\ \A x \in Inos : x # NextInode => Node(D2, x) = Node(D1, x) /\ Body(D2, x) = Body(D1, x)
      BY <1>9, <3>1, <3>2, AfterHole
    <3> QED
      BY <2>1, <3>1, <3>3 DEF k
  <2>2. CASE ~whiteout
    <3>1. hole = <<>> /\ <<>> \in Seq({})
      BY <2>2
    <3> HIDE DEF hole
    <3>2. D2 = D1 /\ IsWrites(hole)
      BY <1>9, <3>1, AfterNone DEF IsWrites
    <3> HIDE DEF D2
    <3> QED
      BY <1>9, <2>2, <3>2
  <2> QED
    BY <2>1, <2>2
<1> HIDE DEF hole, D2
<1>14. one \in Seq({x1}) /\ rest \in Seq({x2, a1, a2, a3})
  OBVIOUS
<1>15. IsWrites(one) /\ IsWrites(rest)
  BY <1>14 DEF IsWrites
<1>16. After(D2, one) = F /\ F = [f \in Files |-> F[f]]
  BY <1>12, <1>13, AfterOne, PutIsDisk
<1>17. Body(F, d) = left /\ \A x \in Inos : Node(F, x) = Node(D2, x) /\ (x # d => Body(F, x) = Body(D2, x))
  BY <1>3, PutContent
<1> HIDE DEF F, one
<1>18. After(F, rest) = K3
  BY <1>12, <1>16, AfterFour
<1>19. Body(K, e) = there /\ \A x \in Inos : Node(K, x) = Node(F, x) /\ (x # e => Body(K, x) = Body(F, x))
  BY <1>4, PutContent
<1> HIDE DEF K, rest
<1>20. \A x \in Inos : x \notin target /\ ~(whiteout /\ x = k) => Node(K, x) = Node(disk, x)
  BY <1>9, <1>13, <1>17, <1>19
<1>21. Node(K, d) = inode(d) /\ Node(K, e) = inode(e) /\ Node(K, i) = inode(i)
  BY <1>3, <1>4, <1>6, <1>7, <1>8, <1>20
<1>22. \A x \in Inos : Node(K1, x) = Node(K, x) /\ Body(K1, x) = Body(K, x)
  BY <1>3, <1>21, PutOwn
<1> HIDE DEF K1
<1>23. \A x \in Inos : Node(K2, x) = Node(K1, x) /\ Body(K2, x) = Body(K1, x)
  BY <1>4, <1>21, <1>22, PutOwn
<1> HIDE DEF K2
<1>24. /\ \A x \in Inos : Node(K3, x) = Node(K2, x) /\ Body(K3, x) = Body(K2, x)
       /\ K3 = [f \in Files |-> K3[f]]
  BY <1>3, <1>21, <1>22, <1>23, PutOwn, PutIsDisk
<1> HIDE DEF K3
<1>25. \A x \in Inos : Node(K3, x) = Node(K, x) /\ Body(K3, x) = Body(K, x)
  BY <1>22, <1>23, <1>24
<1> DEFINE li == Insert(content(i), "..", e, "Directory")
<1>26. /\ \A x \in Inos : Node(E, x) = Node(K3, x) /\ (x # i => Body(E, x) = Body(K3, x))
       /\ inode(i).kind = "Directory" => Body(E, i) = li
       /\ inode(i).kind # "Directory" => Body(E, i) = Body(K3, i)
       /\ IsWrites(ri)
  <2>1. i \in Inos /\ K3 = [f \in Files |-> K3[f]]
    BY <1>3, <1>24
  <2>2. ri \in Seq({<<ContentFile(i), li>>})
    BY <2>1, AfterReparent
  <2>3. ReparentedIn(K3, E, i, e)
    BY <2>1, AfterReparent
  <2>4. IsWrites(ri)
    BY <2>2 DEF IsWrites
  <2> HIDE DEF ri, E
  <2> QED
    BY <2>3, <2>4 DEF ReparentedIn, li
<1> HIDE DEF ri
<1>28. After(disk, moved \o ri) = E
  <2> DEFINE v == replaced \o hole
             w == v \o one
             z == w \o rest
  <2>1. After(disk, v) = D2 /\ IsWrites(v)
    BY <1>2, <1>13, AfterJoin DEF D1, D2
  <2> HIDE DEF v
  <2>2. After(disk, w) = F /\ IsWrites(w)
    BY <1>15, <1>16, <2>1, AfterJoin
  <2> HIDE DEF w
  <2>3. After(disk, z) = K3 /\ IsWrites(z)
    BY <1>15, <1>18, <2>2, AfterJoin
  <2> HIDE DEF z
  <2>4. After(disk, z \o ri) = E
    BY <1>26, <2>3, AfterJoin DEF E
  <2> QED
    BY <2>4 DEF z, w, v
<1> HIDE DEF E, moved, taken
(* What has changed since the target was replaced.                         *)
<1>29. \A x \in Inos : ~(whiteout /\ x = k) => Node(E, x) = Node(D1, x)
  BY <1>13, <1>17, <1>19, <1>25, <1>26
<1>30. \A x \in Inos : x # d /\ x # e /\ x # i /\ ~(whiteout /\ x = k) => Body(E, x) = Body(D1, x)
  BY <1>13, <1>17, <1>19, <1>25, <1>26
<1>31. MovesTo(D1, E, d, e, m, i, left)
  <2>1. Node(D1, i) = inode(i) /\ Body(D1, i) = content(i)
    BY <1>3, <1>9
  <2>2. Body(K3, i) = content(i)
    BY <1>3, <1>7, <1>13, <1>17, <1>19, <1>25, <2>1
  <2>3. Reparented(D1, E, i, e)
    BY <1>3, <1>26, <2>1, <2>2 DEF Reparented, IsDir, li
  <2>4. Body(E, e) = there /\ (d # e => Body(E, d) = left)
    BY <1>3, <1>4, <1>17, <1>19, <1>25, <1>26
  <2> QED
    BY <1>11, <2>1, <2>3, <2>4 DEF MovesTo
<1>32. Tidy(E, handles)
  <2>1. CASE ~whiteout
    <3>1. MovesTo(D1, E, d, e, m, i, Remove(Body(D1, d), n))
      BY <1>11, <1>31, <2>1
    <3>2. /\ \A x \in Inos : Node(E, x) = Node(D1, x)
          /\ \A x \in Inos : x # d /\ x # e /\ x # i => Body(E, x) = Body(D1, x)
      BY <1>29, <1>30, <2>1
    <3>3. Tidy(D1, handles) /\ MovesFrom(D1, d, n, e, m, i)
      BY <1>9
    <3>4. Moved(D1, E, d, n, e, m, i)
      BY <3>1, <3>2, <3>3 DEF Moved
    <3> QED
      BY <3>3, <3>4, MovedTidy
  <2>2. CASE whiteout
    <3>1. MovesTo(D1, E, d, e, m, i, Insert(Remove(Body(D1, d), n), n, k, "File"))
      BY <1>11, <1>31, <2>2
    <3>2. /\ \A x \in Inos : x # k => Node(E, x) = Node(D1, x)
          /\ \A x \in Inos : x # d /\ x # e /\ x # i /\ x # k => Body(E, x) = Body(D1, x)
      BY <1>29, <1>30
    <3>3. Tidy(D1, handles) /\ MovesFrom(D1, d, n, e, m, i) /\ k \in Inos /\ Node(D1, k) = Absent
      BY <1>7, <1>9, <2>2
    <3>4. Node(E, k) = Attrs("File", 1, 0) /\ Body(E, k) = Data
      BY <1>7, <1>13, <1>17, <1>19, <1>25, <1>26, <2>2
    <3> QED
      BY <3>1, <3>2, <3>3, <3>4, WhiteoutTidy
  <2> QED
    BY <2>1, <2>2
<1>33. Served(Done(moved \o ri), handles)
  BY <1>28, <1>32, DoneServed
<1>35. Served([reply |-> "EIO", writes |-> replaced], handles)
  BY <1>9 DEF Served, D1
<1>34. Served(Move(d, n, i, e, m, target, whiteout, owned), handles)
  BY <1>1, <1>33, <1>35, PanicServed
<1> QED
  BY <1>34 DEF target

LEMMA RenameTidy == ASSUME Inv, TreeInv, NoPanic', Rename PROVE TreeInv'
<1>1. PICK d \in Directories, n \in Names : \E i \in LookupName(d, n) :
         \E e \in Directories \ Below(i), m \in Names :
            /\ \A j \in LookupName(e, m) : j # i /\ d \notin Below(j)
            /\ \E flags \in RenameFlags, owned \in BOOLEAN :
                  /\ "WHITEOUT" \in flags => CanAllocate
                  /\ Serve(ReadsTorn(d, n) \/ ReadsTorn(e, m), rename(d, n, i, e, m, flags, owned), handles)
  BY DEF Rename
<1>2. PICK i \in LookupName(d, n) : \E e \in Directories \ Below(i), m \in Names :
            /\ \A j \in LookupName(e, m) : j # i /\ d \notin Below(j)
            /\ \E flags \in RenameFlags, owned \in BOOLEAN :
                  /\ "WHITEOUT" \in flags => CanAllocate
                  /\ Serve(ReadsTorn(d, n) \/ ReadsTorn(e, m), rename(d, n, i, e, m, flags, owned), handles)
  BY <1>1
<1>3. PICK e \in Directories \ Below(i), m \in Names :
            /\ \A j \in LookupName(e, m) : j # i /\ d \notin Below(j)
            /\ \E flags \in RenameFlags, owned \in BOOLEAN :
                  /\ "WHITEOUT" \in flags => CanAllocate
                  /\ Serve(ReadsTorn(d, n) \/ ReadsTorn(e, m), rename(d, n, i, e, m, flags, owned), handles)
  BY <1>2
<1>4. PICK flags \in RenameFlags, owned \in BOOLEAN :
            /\ "WHITEOUT" \in flags => CanAllocate
            /\ Serve(ReadsTorn(d, n) \/ ReadsTorn(e, m), rename(d, n, i, e, m, flags, owned), handles)
  BY <1>3
<1>5. e \in Directories /\ i # e /\ \A j \in LookupName(e, m) : j # i /\ j # d
  BY <1>3, BelowRoot
<1>6. ASSUME clean, Tidy(disk, handles) PROVE Served(rename(d, n, i, e, m, flags, owned), handles)
  <2> DEFINE target == LookupName(e, m)
             full == \E j \in target : inode(j).kind = "Directory" /\ Cardinality(DOMAIN content(j)) > 2
             panics == \E j \in target : ReparentPanics(j)
             whiteout == "WHITEOUT" \in flags
  <2>1. rename(d, n, i, e, m, flags, owned) =
          IF "EXCHANGE" \in flags /\ flags # {"EXCHANGE"} THEN Refuse("EINVAL")
          ELSE IF "EXCHANGE" \in flags
          THEN IF target = {} THEN Refuse("ENOENT")
               ELSE Exchange(d, n, i, e, m, CHOOSE j \in target : TRUE)
          ELSE IF "NOREPLACE" \in flags /\ target # {} THEN Refuse("EEXIST")
          ELSE IF panics THEN Panic(<<>>)
          ELSE IF full THEN Refuse("ENOTEMPTY")
          ELSE Move(d, n, i, e, m, target, whiteout, owned)
    BY DEF rename
  <2>2. \A error \in {"EINVAL", "ENOENT", "EEXIST", "ENOTEMPTY"} : Served(Refuse(error), handles)
    BY <1>6, RefuseServed DEF Errors
  <2>3. ASSUME target # {} PROVE Served(Exchange(d, n, i, e, m, CHOOSE j \in target : TRUE), handles)
    <3> DEFINE j == CHOOSE k \in target : TRUE
    <3>1. j \in LookupName(e, m)
      BY <2>3
    <3> HIDE DEF j
    <3>2. Served(Exchange(d, n, i, e, m, j), handles)
      BY <1>5, <1>6, <3>1, ExchangeServed
    <3> QED
      BY <3>2 DEF j
  <2>4. Served(Panic(<<>>), handles)
    BY PanicServed
  <2>5. ~full => Served(Move(d, n, i, e, m, target, whiteout, owned), handles)
    <3>1. whiteout \in BOOLEAN /\ (whiteout /\ disk[Superblock] # Torn => NextInode \in Inos)
      BY <1>4, AllocatedIno
    <3>2. whiteout => disk[Superblock] # Torn /\ NextInode \in Inos
      BY <1>6, <3>1, CleanReads
    <3>3. ~full => Replaceable(d, i, e, m)
      BY <1>5 DEF Replaceable
    <3> HIDE DEF whiteout, full
    <3>4. MayWhiteout(whiteout)
      BY <3>1, <3>2 DEF MayWhiteout
    <3> QED
      BY <1>5, <1>6, <3>3, <3>4, MoveServed
  <2> HIDE DEF target, full, panics, whiteout
  <2> QED
    BY <2>1, <2>2, <2>3, <2>4, <2>5
<1> DEFINE torn == ReadsTorn(d, n) \/ ReadsTorn(e, m)
<1>7. Serve(torn, rename(d, n, i, e, m, flags, owned), handles)
  BY <1>4
<1> HIDE DEF torn
<1> QED
  BY <1>6, <1>7, ServeTidy

---------------------------------------------------------------------------
(* The theorems.                                                           *)

LEMMA StepTree == ASSUME Room, Inv, TreeInv, [Next]_vars PROVE TreeInv'
<1>1. Inv'
  BY StepInv
<1>2. NoPanic'
  BY <1>1 DEF Inv
<1>3. CASE Deny
  BY <1>3, QuietTidy DEF Deny
<1>4. CASE Unmount
  BY <1>4, QuietTidy DEF Unmount
<1>5. CASE UNCHANGED vars
  BY <1>5, QuietTidy DEF vars
<1>6. CASE \/ Mknod \/ Create \/ Mkdir \/ Symlink \/ Tmpfile \/ Link
           \/ Unlink \/ Rmdir \/ Rename \/ Open \/ Release \/ Rewrite \/ Mount
  BY <1>2, <1>6, MknodTidy, CreateTidy, MkdirTidy, SymlinkTidy, TmpfileTidy, LinkKeepsTidy,
     UnlinkTidy, RmdirTidy, RenameTidy, OpenTidy, ReleaseTidy, RewriteTidy, MountTidy
<1> QED
  BY <1>3, <1>4, <1>5, <1>6 DEF Next

(* The disk is tidy between the requests of a process that is not killed,  *)
(* as long as the link count, a u32, has room for all the names.           *)
THEOREM TreeInvariance == Room => (Spec => []TreeInv)
<1> SUFFICES ASSUME Room PROVE Spec => []TreeInv
  OBVIOUS
<1>1. Init => Inv /\ TreeInv
  BY InitialInv, InitialTree
<1>2. Inv /\ TreeInv /\ [Next]_vars => Inv' /\ TreeInv'
  BY StepInv, StepTree
<1> QED
  BY <1>1, <1>2, PTL DEF Spec

(* The link count of a file is the number of its names, and a directory    *)
(* has the one name it is counted for: no order of link, unlink, rmdir and *)
(* the kinds of rename lets add_hard_link and the entries drift apart.     *)
THEOREM LinkCountsCorrect == Room => (Spec => []LinkCountsExact)
<1>1. ASSUME TreeInv PROVE LinkCountsExact
  <2> SUFFICES ASSUME clean, NEW i \in Inos \ {ROOT}, Exists(inode(i))
               PROVE  IF inode(i).kind = "Directory"
                      THEN \/ inode(i).hardlinks = 2 /\ Cardinality(Links(i)) = 1
                           \/ inode(i).hardlinks = 0 /\ Links(i) = {}
                      ELSE inode(i).hardlinks = Cardinality(Links(i))
    BY DEF LinkCountsExact
  <2>1. inode(i) # Absent /\ Node(disk, i) = inode(i) /\ NamesOf(disk, i) = Links(i)
    BY NamedIsBound DEF Exists
  <2>2. Tidy(disk, handles)
    <3>1. InodeFile(i) \in Files /\ disk[InodeFile(i)] # Absent
      BY <2>1 DEF inode, Files
    <3> QED
      BY <1>1, <3>1 DEF TreeInv
  <2>3. Counted(disk, i) /\ i # ROOT
    BY <2>2 DEF Tidy, Sound
  <2>4. CASE inode(i).kind = "Directory"
    <3>1. \/ inode(i).hardlinks = 2 /\ \E s \in AllSlots : Links(i) = {s}
          \/ inode(i).hardlinks = 0 /\ Links(i) = {}
      BY <2>1, <2>3, <2>4 DEF Counted, IsDir
    <3>2. ASSUME NEW s, Links(i) = {s} PROVE Cardinality(Links(i)) = 1
      BY <3>2, FS_Singleton
    <3> QED
      BY <2>4, <3>1, <3>2
  <2>5. CASE inode(i).kind # "Directory"
    BY <2>1, <2>3, <2>5 DEF Counted, IsDir
  <2> QED
    BY <2>4, <2>5
<1> QED
  BY <1>1, TreeInvariance, PTL

(* Storage is neither leaked nor freed too early: gc_inode collects an     *)
(* inode and its content with the last name or handle, and every entry     *)
(* records the kind of its inode.                                          *)
THEOREM StorageCorrect == Room => (Spec => []StorageExact)
<1>1. ASSUME TreeInv PROVE StorageExact
  <2> SUFFICES ASSUME clean, mounts > 0, NEW i \in Inos
               PROVE  /\ inode(i) # Absent <=> i = ROOT \/ Links(i) # {} \/ handles[i] > 0
                      /\ inode(i) # Absent <=> content(i) # Absent
                      /\ \A s \in Links(i) : content(s[1])[s[2]][2] = inode(i).kind
    BY DEF StorageExact
  <2>1. Node(disk, i) = inode(i) /\ NamesOf(disk, i) = Links(i) /\ Body(disk, i) = content(i)
    BY NamedIsBound
  <2>2. Shaped(disk, i) /\ Held(disk, handles, i) /\ Agrees(disk, i)
    BY <1>1 DEF TreeInv, Tidy, Sound
  <2>3. inode(i) # Absent <=> i = ROOT \/ Links(i) # {} \/ handles[i] > 0
    BY <2>1, <2>2, KindsRead DEF Held
  <2>4. inode(i) # Absent <=> content(i) # Absent
    BY <2>1, <2>2, KindsRead, EntriesAreContent, ContentsAssumption DEF Shaped, Kinds
  <2>5. \A s \in Links(i) : content(s[1])[s[2]][2] = inode(i).kind
    BY <2>1, <2>2, NamedIsBound DEF Agrees, Marked
  <2> QED
    BY <2>3, <2>4, <2>5
<1> QED
  BY <1>1, TreeInvariance, PTL

(* "." is the directory and ".." the one that names it, whatever renames   *)
(* and exchanges moved it.                                                 *)
THEOREM TreeCorrect == Room => (Spec => []TreeAgrees)
<1>1. ASSUME TreeInv PROVE TreeAgrees
  <2> SUFFICES ASSUME clean, NEW i \in Directories
               PROVE  /\ content(i)["."] = <<i, "Directory">>
                      /\ \A s \in Links(i) : content(i)[".."] = <<s[1], "Directory">>
    BY DEF TreeAgrees
  <2>1. Tidy(disk, handles)
    <3>1. Exists(inode(i)) /\ i \in Below(ROOT) /\ ROOT \in Inos
      BY BoundsAssumption DEF Directories, ROOT, Inos
    <3>2. i \in Inos
      BY <3>1, BelowReaches
    <3>3. InodeFile(i) \in Files /\ disk[InodeFile(i)] # Absent
      BY <3>1, <3>2 DEF Exists, inode, Files
    <3> QED
      BY <1>1, <3>3 DEF TreeInv
  <2>2. InTree(disk, i)
    BY <2>1, DirectoryInTree
  <2>3. Agrees(disk, i)
    BY <2>1, <2>2 DEF InTree, Tidy, Sound
  <2>4. Body(disk, i) = content(i) /\ NamesOf(disk, i) = Links(i)
    BY NamedIsBound
  <2> QED
    BY <2>2, <2>3, <2>4 DEF Agrees, InTree
<1> QED
  BY <1>1, TreeInvariance, PTL

=============================================================================
