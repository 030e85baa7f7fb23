----------------------------- MODULE WireProofs -----------------------------
(***************************************************************************)
(* Every request reaches its callback as it was meant, every time the wire *)
(* can carry survives, and every directory is listed once and in order:    *)
(* for all names, payloads and directories and every width and alignment.  *)
(*                                                                         *)
(* A message is its structure's fields, then names that end at the first   *)
(* 0, then data.  ParsedOne and the lemmas before it show that taking such *)
(* a message apart gives back what it was put together from.  Understood   *)
(* says of one opcode that what op::parse makes of the kernel's layout is  *)
(* read, through the accessors, as what was asked; it is shown opcode by   *)
(* opcode.  Served then follows dispatch, and the theorems need no other   *)
(* invariant than that a request was either not made or made so.           *)
(*                                                                         *)
(* For a listing, Chained says how the entries of a buffer follow each     *)
(* other; push keeps it (FillChained), and the kernel's walk over such a   *)
(* buffer finds just what was pushed (WalkFinds).                          *)
(***************************************************************************)
EXTENDS Wire, TLAPS, WellFoundedInduction

---------------------------------------------------------------------------
(* Times: the two conversions of src/time.rs are inverse to each other.    *)

(* The seconds and the rest of a Duration are those it was made of.        *)
LEMMA DurationParts ==
    ASSUME NEW s \in Nat, NEW n \in 0 .. Second - 1
    PROVE  as_secs(s * Second + n) = s /\ subsec_nanos(s * Second + n) = n
<1> DEFINE d == s * Second + n
<1>1. Second \in Nat \ {0, 1}
  BY TimesAssumption
<1>2. d \in Nat
  BY <1>1, SMT
<1>3. /\ d \div Second \in Int /\ d % Second \in 0 .. Second - 1
      /\ d = (d \div Second) * Second + (d % Second)
  BY <1>1, <1>2, SMT
<1> HIDE DEF d
<1>4. ASSUME NEW q \in Int, NEW r \in 0 .. Second - 1, q * Second + r = s * Second + n
      PROVE  q = s /\ r = n
  <2>1. CASE q < s
    <3>1. (s - q) * Second >= Second
      BY <1>1, <2>1, SMT
    <3> QED
      BY <1>1, <1>4, <3>1, SMT
  <2>2. CASE q > s
    <3>1. (q - s) * Second >= Second
      BY <1>1, <2>2, SMT
    <3> QED
      BY <1>1, <1>4, <3>1, SMT
  <2> QED
    BY <1>1, <1>4, <2>1, <2>2, SMT
<1> QED
  BY <1>3, <1>4 DEF d, as_secs, subsec_nanos

(* A time off the wire keeps its place on the line of nanoseconds: a       *)
(* fraction before the epoch counts forward there, back in a Duration.     *)
LEMMA PlaceOnTheLine ==
    ASSUME NEW secs \in I64, NEW nsecs \in 0 .. Second - 1
    PROVE  system_time_from_time(secs, nsecs) = secs * Second + nsecs
<1>1. Second \in Nat \ {0, 1} /\ secs \in Int /\ nsecs < Second
  BY TimesAssumption DEF I64, I64Min
<1>2. CASE secs >= 0
  BY <1>1, <1>2, SMT DEF system_time_from_time
<1>3. CASE secs < 0 /\ nsecs = 0
  BY <1>1, <1>3, SMT DEF system_time_from_time
<1>4. CASE secs < 0 /\ nsecs # 0
  BY <1>1, <1>4, SMT DEF system_time_from_time
<1> QED
  BY <1>1, <1>2, <1>3, <1>4

(* What utimensat(2) sets is what stat(2) reports: every time the wire can *)
(* carry survives system_time_from_time and time_from_system_time, at both *)
(* ends of the range, on the epoch and on either side of it.               *)
THEOREM RoundTrip ==
    \A secs \in I64, nsecs \in 0 .. Second - 1 :
        time_from_system_time(system_time_from_time(secs, nsecs)) = <<secs, nsecs>>
<1> SUFFICES ASSUME NEW secs \in I64, NEW nsecs \in 0 .. Second - 1
             PROVE  time_from_system_time(secs * Second + nsecs) = <<secs, nsecs>>
  BY PlaceOnTheLine
<1> DEFINE t == secs * Second + nsecs
<1>1. /\ Second \in Nat \ {0, 1} /\ I64Max \in Nat /\ nsecs \in Nat /\ nsecs < Second
      /\ secs \in Int /\ -I64Max - 1 <= secs /\ secs <= I64Max
  BY TimesAssumption, SMT DEF I64, I64Min
<1>2. CASE secs >= 0
  <2>1. t >= 0
    BY <1>1, <1>2, SMT
  <2>2. as_secs(t) = secs /\ subsec_nanos(t) = nsecs
    BY <1>1, <1>2, DurationParts
  <2> QED
    BY <1>1, <2>1, <2>2 DEF time_from_system_time
<1>3. CASE secs < 0 /\ nsecs = 0
  <2>1. ~(t >= 0) /\ -t = (-secs) * Second + 0
    BY <1>1, <1>3, SMT
  <2>2. as_secs(-t) = -secs /\ subsec_nanos(-t) = 0
    <3>1. -secs \in Nat /\ 0 \in 0 .. Second - 1
      BY <1>1, <1>3, SMT
    <3> QED
      BY <2>1, <3>1, DurationParts
  <2>3. CASE secs = -I64Max - 1
    BY <1>1, <1>3, <2>1, <2>2, <2>3, SMT DEF time_from_system_time, I64Min
  <2>4. CASE secs # -I64Max - 1
    BY <1>1, <1>3, <2>1, <2>2, <2>4, SMT DEF time_from_system_time, I64Min
  <2> QED
    BY <2>3, <2>4
<1>4. CASE secs < 0 /\ nsecs # 0
  <2>1. ~(t >= 0) /\ -t = (-secs - 1) * Second + (Second - nsecs)
    BY <1>1, <1>4, SMT
  <2>2. as_secs(-t) = -secs - 1 /\ subsec_nanos(-t) = Second - nsecs
    <3>1. -secs - 1 \in Nat /\ Second - nsecs \in 0 .. Second - 1
      BY <1>1, <1>4, SMT
    <3> QED
      BY <2>1, <3>1, DurationParts
  <2> QED
    BY <1>1, <1>4, <2>1, <2>2, SMT DEF time_from_system_time, I64Min
<1> QED
  BY <1>1, <1>2, <1>3, <1>4

(* Whatever time a filesystem keeps, the wire carries a timespec: in the   *)
(* range of i64, nanoseconds below a second, saturated beyond either end.  *)
THEOREM WithinTheWidth ==
    \A t \in Int : time_from_system_time(t) \in Timespec
<1> SUFFICES ASSUME NEW t \in Int
             PROVE  time_from_system_time(t) \in Timespec
  OBVIOUS
<1>1. Second \in Nat \ {0, 1} /\ I64Max \in Nat \ {0}
  BY TimesAssumption
<1>2. ASSUME NEW d \in Nat
      PROVE  as_secs(d) \in Nat /\ subsec_nanos(d) \in 0 .. Second - 1
  BY <1>1, SMT DEF as_secs, subsec_nanos
<1>3. CASE t >= 0
  <2>1. as_secs(t) \in Nat /\ subsec_nanos(t) \in 0 .. Second - 1
    BY <1>2, <1>3
  <2> QED
    BY <1>1, <1>3, <2>1, SMT DEF time_from_system_time, Timespec, I64, I64Min
<1>4. CASE t < 0
  <2>1. as_secs(-t) \in Nat /\ subsec_nanos(-t) \in 0 .. Second - 1
    BY <1>2, <1>4
  <2> QED
    BY <1>1, <1>4, <2>1, SMT DEF time_from_system_time, Timespec, I64, I64Min
<1> QED
  BY <1>3, <1>4

---------------------------------------------------------------------------
(* Sequences.                                                              *)

(* Sequences with the same elements are equal.                             *)
LEMMA EqualSeqs ==
    ASSUME NEW S, NEW s \in Seq(S), NEW t \in Seq(S), Len(s) = Len(t),
           \A i \in 1 .. Len(s) : s[i] = t[i]
    PROVE  s = t
  OBVIOUS

(* The elements of a concatenation.                                        *)
LEMMA ConcatAt ==
    ASSUME NEW S, NEW u \in Seq(S), NEW v \in Seq(S)
    PROVE  /\ u \o v \in Seq(S) /\ Len(u \o v) = Len(u) + Len(v)
           /\ \A i \in 1 .. Len(u) : (u \o v)[i] = u[i]
           /\ \A i \in 1 .. Len(v) : (u \o v)[Len(u) + i] = v[i]
  OBVIOUS

(* Cut where they were joined, two sequences come back.                    *)
LEMMA Parts ==
    ASSUME NEW S, NEW u \in Seq(S), NEW v \in Seq(S)
    PROVE  /\ SubSeq(u \o v, 1, Len(u)) = u
           /\ SubSeq(u \o v, Len(u) + 1, Len(u \o v)) = v
<1> DEFINE w == u \o v
           a == SubSeq(w, 1, Len(u))
           b == SubSeq(w, Len(u) + 1, Len(w))
<1>1. /\ w \in Seq(S) /\ Len(w) = Len(u) + Len(v) /\ Len(u) \in Nat /\ Len(v) \in Nat
      /\ \A i \in 1 .. Len(u) : w[i] = u[i]
      /\ \A i \in 1 .. Len(v) : w[Len(u) + i] = v[i]
  BY ConcatAt
<1> HIDE DEF w
<1>2. a \in Seq(S) /\ Len(a) = Len(u) /\ \A i \in 1 .. Len(u) : a[i] = w[i]
  BY <1>1
<1>3. b \in Seq(S) /\ Len(b) = Len(v) /\ \A i \in 1 .. Len(v) : b[i] = w[Len(u) + i]
  BY <1>1
<1> HIDE DEF a, b
<1>4. a = u
  BY <1>1, <1>2, EqualSeqs
<1>5. b = v
  BY <1>1, <1>3, EqualSeqs
<1> QED
  BY <1>4, <1>5 DEF a, b, w

Distinct(struct) ==
    /\ Len(struct) \in Nat /\ DOMAIN struct = 1 .. Len(struct)
    /\ \A i, j \in 1 .. Len(struct) : struct[i] = struct[j] => i = j
Holds(struct, a, data) ==
    DOMAIN a = ToSet(struct) /\ \A i \in 1 .. Len(struct) : a[struct[i]] = data[i]

(* fetch takes the fields of a structure off the front of a message, each  *)
(* under its name, and leaves the rest.                                    *)
LEMMA Fetched ==
    ASSUME NEW struct, Distinct(struct),
           NEW data \in Seq(Int), NEW tail \in Seq(Int), Len(data) = Len(struct)
    PROVE  \E a : Holds(struct, a, data) /\ fetch(struct, data \o tail) = {[arg |-> a, rest |-> tail]}
<1> DEFINE w == data \o tail
<1>1. /\ w \in Seq(Int) /\ Len(data) \in Nat /\ Len(tail) \in Nat /\ Len(w) = Len(data) + Len(tail)
      /\ \A i \in 1 .. Len(data) : w[i] = data[i]
  <2>1. Len(data) \in Nat /\ Len(tail) \in Nat
    OBVIOUS
  <2> QED
    BY <2>1, ConcatAt
<1>2. SubSeq(w, Len(data) + 1, Len(w)) = tail
  BY Parts
<1> HIDE DEF w
<1> DEFINE a == [f \in ToSet(struct) |-> w[CHOOSE i \in DOMAIN struct : struct[i] = f]]
<1>3. ASSUME NEW i \in 1 .. Len(struct) PROVE a[struct[i]] = data[i]
  <2>1. struct[i] \in ToSet(struct)
    BY DEF ToSet, Distinct
  <2>2. (CHOOSE j \in DOMAIN struct : struct[j] = struct[i]) = i
    BY DEF Distinct
  <2> QED
    BY <1>1, <2>1, <2>2
<1>4. fetch(struct, w) = IF Len(w) < Len(struct) THEN {}
                         ELSE {[arg |-> a, rest |-> SubSeq(w, Len(struct) + 1, Len(w))]}
  BY DEF fetch
<1>5. DOMAIN a = ToSet(struct)
  OBVIOUS
<1> HIDE DEF a
<1>6. ~(Len(w) < Len(struct)) /\ SubSeq(w, Len(struct) + 1, Len(w)) = tail
  BY <1>1, <1>2
<1>7. fetch(struct, w) = {[arg |-> a, rest |-> tail]}
  BY <1>4, <1>6, Zenon
<1> QED
  BY <1>3, <1>5, <1>7 DEF w, Holds

(* Min is the least element.                                               *)
LEMMA LeastElement ==
    ASSUME NEW M, NEW m \in M, m \in Nat, \A i \in M : i \in Nat /\ m <= i
    PROVE  Min(M) = m
<1> DEFINE P(x) == x \in M /\ \A y \in M : x <= y
<1>1. P(m)
  OBVIOUS
<1>2. \A x : P(x) => x = m
  OBVIOUS
<1>3. Min(M) = CHOOSE x : P(x)
  BY DEF Min
<1> HIDE DEF P
<1> QED
  BY <1>1, <1>2, <1>3

(* fetch_str takes a name up to the 0 that ends it and leaves the rest.    *)
LEMMA FetchedName ==
    ASSUME NEW n \in Seq(Nat \ {0}), NEW tail \in Seq(Int)
    PROVE  fetch_str(Str(n) \o tail) = {[str |-> n, rest |-> tail]}
<1> DEFINE s == Str(n)
           w == s \o tail
           zeros == {i \in DOMAIN w : w[i] = 0}
<1>1. /\ n \in Seq(Int) /\ s \in Seq(Int) /\ s = n \o <<0>> /\ <<0>> \in Seq(Int)
      /\ Len(s) = Len(n) + 1 /\ Len(n) \in Nat
      /\ (\A i \in 1 .. Len(n) : s[i] = n[i] /\ s[i] # 0) /\ s[Len(n) + 1] = 0
  <2>1. n \in Seq(Int) /\ <<0>> \in Seq(Int) /\ Len(n) \in Nat
    OBVIOUS
  <2>2. \A i \in 1 .. Len(n) : n[i] # 0
    OBVIOUS
  <2>3. s = Append(n, 0)
    BY DEF Str
  <2>4. s \in Seq(Int) /\ Len(s) = Len(n) + 1
    BY <2>1, <2>3
  <2>5. (\A i \in 1 .. Len(n) : s[i] = n[i]) /\ s[Len(n) + 1] = 0
    BY <2>1, <2>3
  <2>6. s = n \o <<0>>
    BY <2>1, <2>3
  <2> QED
    BY <2>1, <2>2, <2>4, <2>5, <2>6
<1> HIDE DEF s
<1>2. w = n \o (<<0>> \o tail) /\ <<0>> \o tail \in Seq(Int)
  BY <1>1
<1>3. SubSeq(w, 1, Len(n)) = n
  BY <1>1, <1>2, Parts
<1>4. SubSeq(w, Len(n) + 2, Len(w)) = tail
  BY <1>1, Parts
<1>5. /\ w \in Seq(Int) /\ Len(w) = Len(n) + 1 + Len(tail) /\ Len(tail) \in Nat
      /\ \A i \in 1 .. Len(n) + 1 : w[i] = s[i]
  BY <1>1, ConcatAt
<1> HIDE DEF w
<1>6. DOMAIN w = 1 .. Len(w)
  BY <1>5
<1>7. Len(n) + 1 \in zeros
  BY <1>1, <1>5, <1>6
<1>8. ASSUME NEW i \in zeros PROVE i \in Nat /\ Len(n) + 1 <= i
  <2>1. i \in 1 .. Len(w) /\ w[i] = 0
    BY <1>6
  <2>2. i \notin 1 .. Len(n)
    <3> SUFFICES ASSUME i \in 1 .. Len(n) PROVE FALSE
      OBVIOUS
    <3>1. i \in 1 .. Len(n) + 1 /\ s[i] # 0
      BY <1>1
    <3> QED
      BY <1>5, <2>1, <3>1
  <2> QED
    BY <1>1, <1>5, <2>1, <2>2
<1>9. fetch_str(w) = IF zeros = {} THEN {}
                     ELSE {[str |-> SubSeq(w, 1, Min(zeros) - 1), rest |-> SubSeq(w, Min(zeros) + 1, Len(w))]}
  BY DEF fetch_str
<1> HIDE DEF zeros
<1>10. Min(zeros) = Len(n) + 1
  BY <1>1, <1>7, <1>8, LeastElement
<1>11. Min(zeros) - 1 = Len(n) /\ Min(zeros) + 1 = Len(n) + 2
  BY <1>1, <1>10
<1> QED
  BY <1>3, <1>4, <1>7, <1>9, <1>11 DEF w, s

---------------------------------------------------------------------------
(* Structures.                                                             *)

Accepts(op, p) ==
    /\ op = "SETXATTR" => Len(p.rest) = p.arg.size
    /\ op = "BATCH_FORGET" => fetch_slice(p.arg.count, 2, p.rest) # {}

(* All there is to a message, if the length it gives of its data is right. *)
Yields(op, body, ext, p) == parse(op, body, ext) = {q \in {p} : Accepts(op, q)}

(* op::parse on a structure, what names follow it, and the rest.           *)
LEMMA ParsedOne ==
    ASSUME NEW op, NEW ext, NEW struct, Struct(op, ext) = struct, Distinct(struct),
           NEW data \in Seq(Int), NEW tail \in Seq(Int), Len(data) = Len(struct),
           NEW strs, NEW rest, FetchNames(NameCount(op), tail) = {[strs |-> strs, rest |-> rest]}
    PROVE  \E a : /\ Holds(struct, a, data)
                  /\ Yields(op, data \o tail, ext, [arg |-> a, strs |-> strs, rest |-> rest])
<1>1. PICK a : Holds(struct, a, data) /\ fetch(struct, data \o tail) = {[arg |-> a, rest |-> tail]}
  BY Fetched
<1> DEFINE body == data \o tail
           s == [arg |-> a, rest |-> tail]
           n == [strs |-> strs, rest |-> rest]
           V == UNION {{[arg |-> u.arg, strs |-> v.strs, rest |-> v.rest] :
                          v \in FetchNames(NameCount(op), u.rest)} : u \in fetch(struct, body)}
<1>2. V = {[arg |-> a, strs |-> strs, rest |-> rest]}
  <2>1. s.arg = a /\ s.rest = tail /\ n.strs = strs /\ n.rest = rest
    OBVIOUS
  <2>2. fetch(struct, body) = {s} /\ FetchNames(NameCount(op), s.rest) = {n}
    BY <1>1
  <2> HIDE DEF body, s, n
  <2>3. V = {[arg |-> s.arg, strs |-> n.strs, rest |-> n.rest]}
    BY <2>2
  <2> QED
    BY <2>1, <2>3
<1>3. parse(op, body, ext) = {p \in V : Accepts(op, p)}
  BY DEF parse, Accepts
<1> HIDE DEF V, body
<1>4. Yields(op, body, ext, [arg |-> a, strs |-> strs, rest |-> rest])
  BY <1>2, <1>3 DEF Yields
<1> QED
  BY <1>1, <1>4 DEF body

(* Only SETXATTR and BATCH_FORGET look at how much is left.                *)
LEMMA Taken ==
    ASSUME NEW op, op \notin {"SETXATTR", "BATCH_FORGET"}, NEW p
    PROVE  {q \in {p} : Accepts(op, q)} = {p}
  BY DEF Accepts

(* A message that is a structure and data.                                 *)
LEMMA ParsedPlain ==
    ASSUME NEW op, NEW ext, NEW struct, Struct(op, ext) = struct, Distinct(struct),
           NEW data \in Seq(Int), NEW tail \in Seq(Int), Len(data) = Len(struct),
           NameCount(op) = 0, op \notin {"SETXATTR", "BATCH_FORGET"}
    PROVE  \E a : /\ Holds(struct, a, data)
                  /\ parse(op, data \o tail, ext) = {[arg |-> a, strs |-> <<>>, rest |-> tail]}
<1> DEFINE none == <<>>
<1>1. FetchNames(NameCount(op), tail) = {[strs |-> none, rest |-> tail]}
  BY DEF FetchNames
<1> HIDE DEF none
<1>2. PICK a : /\ Holds(struct, a, data)
               /\ Yields(op, data \o tail, ext, [arg |-> a, strs |-> none, rest |-> tail])
  BY <1>1, ParsedOne
<1> QED
  BY <1>2, Taken DEF Yields, none

(* One name after the structure.                                           *)
LEMMA NameFetched ==
    ASSUME NEW name \in Seq(Nat \ {0}), NEW tail \in Seq(Int)
    PROVE  /\ Str(name) \in Seq(Int) /\ Str(name) \o tail \in Seq(Int)
           /\ fetch_str(Str(name) \o tail) = {[str |-> name, rest |-> tail]}
           /\ FetchNames(1, Str(name) \o tail) = {[strs |-> <<name>>, rest |-> tail]}
<1>1. Str(name) \in Seq(Int) /\ Str(name) \o tail \in Seq(Int)
  BY WireAssumption DEF Str
<1>2. fetch_str(Str(name) \o tail) = {[str |-> name, rest |-> tail]}
  BY WireAssumption, FetchedName
<1>3. FetchNames(1, Str(name) \o tail) = {[strs |-> <<name>>, rest |-> tail]}
  BY <1>2 DEF FetchNames
<1> QED
  BY <1>1, <1>2, <1>3

(* A message that is a structure, a name and data.                         *)
LEMMA ParsedName ==
    ASSUME NEW op, NEW ext, NEW struct, Struct(op, ext) = struct, Distinct(struct),
           NEW data \in Seq(Int), NEW name \in Seq(Nat \ {0}), NEW tail \in Seq(Int),
           Len(data) = Len(struct), NameCount(op) = 1, op \notin {"SETXATTR", "BATCH_FORGET"}
    PROVE  \E a : /\ Holds(struct, a, data)
                  /\ parse(op, data \o (Str(name) \o tail), ext)
                       = {[arg |-> a, strs |-> <<name>>, rest |-> tail]}
<1> DEFINE named == Str(name) \o tail
           strs == <<name>>
<1>1. named \in Seq(Int) /\ FetchNames(NameCount(op), named) = {[strs |-> strs, rest |-> tail]}
  BY NameFetched
<1> HIDE DEF named, strs
<1>2. PICK a : /\ Holds(struct, a, data)
               /\ Yields(op, data \o named, ext, [arg |-> a, strs |-> strs, rest |-> tail])
  BY <1>1, ParsedOne
<1> QED
  BY <1>2, Taken DEF Yields, named, strs

(* A message that is a structure and two names.                            *)
LEMMA ParsedNames ==
    ASSUME NEW op, NEW ext, NEW struct, Struct(op, ext) = struct, Distinct(struct),
           NEW data \in Seq(Int), NEW first \in Seq(Nat \ {0}), NEW second \in Seq(Nat \ {0}),
           Len(data) = Len(struct), NameCount(op) = 2, op \notin {"SETXATTR", "BATCH_FORGET"}
    PROVE  \E a : /\ Holds(struct, a, data)
                  /\ parse(op, data \o (Str(first) \o Str(second)), ext)
                       = {[arg |-> a, strs |-> <<first, second>>, rest |-> <<>>]}
<1> DEFINE named == Str(first) \o Str(second)
<1>1. Str(second) \in Seq(Int) /\ Str(second) \o <<>> = Str(second) /\ <<>> \in Seq(Int)
  BY WireAssumption DEF Str
<1>2. named \in Seq(Int) /\ fetch_str(named) = {[str |-> first, rest |-> Str(second)]}
  BY <1>1, NameFetched
<1>3. fetch_str(Str(second)) = {[str |-> second, rest |-> <<>>]}
  BY <1>1, NameFetched
<1> HIDE DEF named
<1>4. FetchNames(2, named)
        = UNION {{[strs |-> <<x.str, y.str>>, rest |-> y.rest] : y \in fetch_str(x.rest)} : x \in fetch_str(named)}
  BY DEF FetchNames
<1> DEFINE x == [str |-> first, rest |-> Str(second)]
           y == [str |-> second, rest |-> <<>>]
<1>5. x.str = first /\ x.rest = Str(second) /\ y.str = second /\ y.rest = <<>>
  OBVIOUS
<1> HIDE DEF x, y
<1> DEFINE none == <<>>
           strs == <<first, second>>
<1>6. fetch_str(named) = {x} /\ fetch_str(x.rest) = {y}
  BY <1>2, <1>3, <1>5 DEF x, y
<1>7. FetchNames(2, named) = {[strs |-> <<x.str, y.str>>, rest |-> y.rest]}
  BY <1>4, <1>6
<1>8. FetchNames(NameCount(op), named) = {[strs |-> strs, rest |-> none]}
  BY <1>5, <1>7
<1> HIDE DEF strs, none
<1>9. PICK a : /\ Holds(struct, a, data)
               /\ Yields(op, data \o named, ext, [arg |-> a, strs |-> strs, rest |-> none])
  BY <1>2, <1>8, ParsedOne
<1> QED
  BY <1>9, Taken DEF Yields, named, strs, none

---------------------------------------------------------------------------
(* Requests.                                                               *)

(* A parsed request is read as the system call meant it.                   *)
Reads(op, x, acl, p) ==
    /\ Refused(op, p.arg) = Unservable(op, x, acl)
    /\ op = "WRITE" \/ Unservable(op, x, acl) = {} => ~ParsePanics(op, p)
    /\ Unservable(op, x, acl) = {} => \A h : h.nodeid = 0 => Args(op, h, p) = x
    /\ op = "RENAME2" => p.arg.flags = x[4]

Understood(op, x, ext, acl) ==
    \E p : parse(op, Body(op, x, ext, acl), ext) = {p} /\ Reads(op, x, acl, p)

(* A request that is a structure is understood if its fields are.          *)
LEMMA PlainUnderstood ==
    ASSUME NEW op, NEW ext, NEW x, NEW acl, NEW struct, NEW data \in Seq(Int),
           Struct(op, ext) = struct, Distinct(struct), Len(data) = Len(struct),
           NameCount(op) = 0, op \notin {"SETXATTR", "BATCH_FORGET"}, Body(op, x, ext, acl) = data,
           \A a : Holds(struct, a, data) => Reads(op, x, acl, [arg |-> a, strs |-> <<>>, rest |-> <<>>])
    PROVE  Understood(op, x, ext, acl)
<1> DEFINE none == <<>>
<1>1. none \in Seq(Int)
  OBVIOUS
<1>2. data \o none = data
  OBVIOUS
<1> HIDE DEF none
<1>3. PICK a : /\ Holds(struct, a, data)
               /\ parse(op, data \o none, ext) = {[arg |-> a, strs |-> <<>>, rest |-> none]}
  BY <1>1, ParsedPlain
<1> QED
  BY <1>2, <1>3 DEF Understood, none

(* The same with data after the structure.                                 *)
LEMMA DataUnderstood ==
    ASSUME NEW op, NEW ext, NEW x, NEW acl, NEW struct, NEW data \in Seq(Int),
           NEW tail \in Seq(Int), Struct(op, ext) = struct, Distinct(struct), Len(data) = Len(struct),
           NameCount(op) = 0, op \notin {"SETXATTR", "BATCH_FORGET"}, Body(op, x, ext, acl) = data \o tail,
           \A a : Holds(struct, a, data) => Reads(op, x, acl, [arg |-> a, strs |-> <<>>, rest |-> tail])
    PROVE  Understood(op, x, ext, acl)
<1>1. PICK a : /\ Holds(struct, a, data)
               /\ parse(op, data \o tail, ext) = {[arg |-> a, strs |-> <<>>, rest |-> tail]}
  BY ParsedPlain
<1> QED
  BY <1>1 DEF Understood

(* The same with a name after the structure.                               *)
LEMMA NamedUnderstood ==
    ASSUME NEW op, NEW ext, NEW x, NEW acl, NEW struct, NEW data \in Seq(Int),
           NEW name \in Seq(Nat \ {0}), Struct(op, ext) = struct, Distinct(struct), Len(data) = Len(struct),
           NameCount(op) = 1, op \notin {"SETXATTR", "BATCH_FORGET"}, Body(op, x, ext, acl) = data \o Str(name),
           \A a : Holds(struct, a, data) => Reads(op, x, acl, [arg |-> a, strs |-> <<name>>, rest |-> <<>>])
    PROVE  Understood(op, x, ext, acl)
<1> DEFINE none == <<>>
<1>1. none \in Seq(Int)
  OBVIOUS
<1>2. Str(name) \o none = Str(name)
  BY WireAssumption DEF Str
<1> HIDE DEF none
<1>3. PICK a : /\ Holds(struct, a, data)
               /\ parse(op, data \o (Str(name) \o none), ext) = {[arg |-> a, strs |-> <<name>>, rest |-> none]}
  BY <1>1, ParsedName
<1> QED
  BY <1>2, <1>3 DEF Understood, none

(* The same with two names after the structure.                            *)
LEMMA RenamedUnderstood ==
    ASSUME NEW op, NEW ext, NEW x, NEW acl, NEW struct, NEW data \in Seq(Int),
           NEW first \in Seq(Nat \ {0}), NEW second \in Seq(Nat \ {0}),
           Struct(op, ext) = struct, Distinct(struct), Len(data) = Len(struct),
           NameCount(op) = 2, op \notin {"SETXATTR", "BATCH_FORGET"},
           Body(op, x, ext, acl) = data \o (Str(first) \o Str(second)),
           \A a : Holds(struct, a, data) =>
                     Reads(op, x, acl, [arg |-> a, strs |-> <<first, second>>, rest |-> <<>>])
    PROVE  Understood(op, x, ext, acl)
<1>1. PICK a : /\ Holds(struct, a, data)
               /\ parse(op, data \o (Str(first) \o Str(second)), ext)
                    = {[arg |-> a, strs |-> <<first, second>>, rest |-> <<>>]}
  BY ParsedNames
<1> QED
  BY <1>1 DEF Understood

(* Most requests cannot be refused.                                        *)
Checked == UnservedOps \cup {"SETXATTR", "IOCTL", "READ", "WRITE", "FALLOCATE", "COPY_FILE_RANGE"}

(* A request that is not checked is read as meant if its arguments are.    *)
LEMMA AlwaysServed ==
    ASSUME NEW op, op \notin Checked, NEW x, NEW acl, NEW p,
           \A h : h.nodeid = 0 => Args(op, h, p) = x, op = "RENAME2" => p.arg.flags = x[4]
    PROVE  Reads(op, x, acl, p)
<1>1. Refused(op, p.arg) = {} /\ Unservable(op, x, acl) = {} /\ ~ParsePanics(op, p)
  BY DEF Checked, Refused, UnservedOps, Offsets, Unservable, ParsePanics
<1> QED
  BY <1>1 DEF Reads, Checked

(* An optional argument sent as a flag and a value is what it was.         *)
LEMMA OptionSent ==
    ASSUME NEW S, NEW opt \in Opt(S)
    PROVE  When(opt # {}, Val(opt)) = opt /\ (opt # {} => Val(opt) \in S)
<1>1. CASE opt = {}
  BY <1>1 DEF When
<1>2. CASE opt # {}
  <2>1. PICK v \in S : opt = {v}
    BY <1>2 DEF Opt
  <2>2. Val(opt) = v
    BY <2>1 DEF Val
  <2> QED
    BY <1>2, <2>1, <2>2 DEF When
<1> QED
  BY <1>1, <1>2

---------------------------------------------------------------------------
(* No structure has a field twice.                                         *)

Structs ==
    {fuse_forget_in, fuse_batch_forget_in, fuse_getattr_in, fuse_statx_in, fuse_setattr_in,
     fuse_mknod_in, fuse_mkdir_in, fuse_rename_in, fuse_rename2_in, fuse_link_in,
     fuse_open_in, fuse_create_in, fuse_release_in, fuse_flush_in, fuse_read_in,
     fuse_write_in, fuse_fsync_in, fuse_setxattr_in, fuse_getxattr_in, fuse_lk_in,
     fuse_access_in, fuse_bmap_in, fuse_ioctl_in, fuse_poll_in, fuse_fallocate_in,
     fuse_lseek_in, fuse_syncfs_in, fuse_copy_file_range_in}

(* Every field of a structure is found under its own name.                 *)
LEMMA StructsDistinct == \A struct \in Structs : Distinct(struct)
<1>1. Distinct(fuse_forget_in)
  BY DEF Distinct, fuse_forget_in
<1>2. Distinct(fuse_batch_forget_in)
  BY DEF Distinct, fuse_batch_forget_in
<1>3. Distinct(fuse_getattr_in)
  BY DEF Distinct, fuse_getattr_in
<1>4. Distinct(fuse_statx_in)
  BY DEF Distinct, fuse_statx_in
<1>5. Distinct(fuse_setattr_in)
  BY DEF Distinct, fuse_setattr_in
<1>6. Distinct(fuse_mknod_in)
  BY DEF Distinct, fuse_mknod_in
<1>7. Distinct(fuse_mkdir_in)
  BY DEF Distinct, fuse_mkdir_in
<1>8. Distinct(fuse_rename_in)
  BY DEF Distinct, fuse_rename_in
<1>9. Distinct(fuse_rename2_in)
  BY DEF Distinct, fuse_rename2_in
<1>10. Distinct(fuse_link_in)
  BY DEF Distinct, fuse_link_in
<1>11. Distinct(fuse_open_in)
  BY DEF Distinct, fuse_open_in
<1>12. Distinct(fuse_create_in)
  BY DEF Distinct, fuse_create_in
<1>13. Distinct(fuse_release_in)
  BY DEF Distinct, fuse_release_in
<1>14. Distinct(fuse_flush_in)
  BY DEF Distinct, fuse_flush_in
<1>15. Distinct(fuse_read_in)
  BY DEF Distinct, fuse_read_in
<1>16. Distinct(fuse_write_in)
  BY DEF Distinct, fuse_write_in
<1>17. Distinct(fuse_fsync_in)
  BY DEF Distinct, fuse_fsync_in
<1>18. Distinct(fuse_setxattr_in)
  BY DEF Distinct, fuse_setxattr_in
<1>19. Distinct(fuse_getxattr_in)
  BY DEF Distinct, fuse_getxattr_in
<1>20. Distinct(fuse_lk_in)
  BY DEF Distinct, fuse_lk_in
<1>21. Distinct(fuse_access_in)
  BY DEF Distinct, fuse_access_in
<1>22. Distinct(fuse_bmap_in)
  BY DEF Distinct, fuse_bmap_in
<1>23. Distinct(fuse_ioctl_in)
  BY DEF Distinct, fuse_ioctl_in
<1>24. Distinct(fuse_poll_in)
  BY DEF Distinct, fuse_poll_in
<1>25. Distinct(fuse_fallocate_in)
  BY DEF Distinct, fuse_fallocate_in
<1>26. Distinct(fuse_lseek_in)
  BY DEF Distinct, fuse_lseek_in
<1>27. Distinct(fuse_syncfs_in)
  BY DEF Distinct, fuse_syncfs_in
<1>28. Distinct(fuse_copy_file_range_in)
  BY DEF Distinct, fuse_copy_file_range_in
<1> QED
  BY <1>1, <1>2, <1>3, <1>4, <1>5, <1>6, <1>7, <1>8, <1>9, <1>10, <1>11, <1>12, <1>13, <1>14, <1>15,
     <1>16, <1>17, <1>18, <1>19, <1>20, <1>21, <1>22, <1>23, <1>24, <1>25, <1>26, <1>27,
     <1>28 DEF Structs

(* OPEN is understood.                                                     *)
LEMMA OpenUnderstood ==
    ASSUME NEW ext, NEW acl, NEW x \in AskedArgs("OPEN")
    PROVE  Understood("OPEN", x, ext, acl)
<1> DEFINE data == <<x[1], Flag(OPEN_KILL_SUIDGID, x[2])>>
<1>1. /\ x = <<x[1], x[2]>> /\ x[1] \in Ids /\ x[2] \in BOOLEAN
  BY DEF AskedArgs
<1>2. Body("OPEN", x, ext, acl) = data
  BY <1>1 DEF Body, NameOps, UnservedOps, LockOps
<1>3. /\ data \in Seq(Int) /\ Len(data) = 2 /\ data[1] = x[1]
      /\ data[2] = Flag(OPEN_KILL_SUIDGID, x[2])
  BY <1>1 DEF Ids, Flag, OPEN_KILL_SUIDGID
<1>4. /\ Struct("OPEN", ext) = fuse_open_in /\ Len(fuse_open_in) = 2 /\ Distinct(fuse_open_in)
      /\ NameCount("OPEN") = 0 /\ "OPEN" \notin Checked
  BY StructsDistinct DEF Structs, Struct, fuse_open_in, LockOps, NameCount, TwoNames, OneName, NameOps,
     Checked, UnservedOps
<1> HIDE DEF data
<1>5. ASSUME NEW a, Holds(fuse_open_in, a, data)
      PROVE  OpenArgs(a) = x
  <2>1. /\ a.flags = x[1] /\ a.open_flags = Flag(OPEN_KILL_SUIDGID, x[2])
    <3>1. /\ a[fuse_open_in[1]] = data[1] /\ a[fuse_open_in[2]] = data[2]
      BY <1>4, <1>5 DEF Holds
    <3> QED
      BY <1>3, <3>1 DEF fuse_open_in
  <2> QED
    BY <1>1, <2>1 DEF OpenArgs, contains, Flag, OPEN_KILL_SUIDGID
<1>6. \A h, p : Args("OPEN", h, p) = OpenArgs(p.arg)
  <2> SUFFICES ASSUME NEW h, NEW p PROVE Args("OPEN", h, p) = OpenArgs(p.arg)
    OBVIOUS
  <2>1. Args("OPEN", h, p) = FileArgs("OPEN", p)
    BY DEF Args, NodeOps, AccessOps, XattrOps, LockOps, LaterOps
  <2>2. FileArgs("OPEN", p) = OpenArgs(p.arg)
    BY DEF FileArgs
  <2> QED
    BY <2>1, <2>2
<1>7. \A a : Holds(fuse_open_in, a, data) =>
            Reads("OPEN", x, acl, [arg |-> a, strs |-> <<>>, rest |-> <<>>])
  BY <1>4, <1>5, <1>6, AlwaysServed
<1> QED
  BY <1>2, <1>3, <1>4, <1>7, PlainUnderstood

(* OPENDIR is understood.                                                  *)
LEMMA OpenDirUnderstood ==
    ASSUME NEW ext, NEW acl, NEW x \in AskedArgs("OPENDIR")
    PROVE  Understood("OPENDIR", x, ext, acl)
<1> DEFINE data == <<x[1], 0>>
<1>1. /\ x = <<x[1]>> /\ x[1] \in Ids
  BY DEF AskedArgs
<1>2. Body("OPENDIR", x, ext, acl) = data
  BY <1>1 DEF Body, NameOps, UnservedOps, LockOps
<1>3. /\ data \in Seq(Int) /\ Len(data) = 2 /\ data[1] = x[1] /\ data[2] = 0
  BY <1>1 DEF Ids
<1>4. /\ Struct("OPENDIR", ext) = fuse_open_in /\ Len(fuse_open_in) = 2 /\ Distinct(fuse_open_in)
      /\ NameCount("OPENDIR") = 0 /\ "OPENDIR" \notin Checked
  BY StructsDistinct DEF Structs, Struct, fuse_open_in, LockOps, NameCount, TwoNames, OneName, NameOps,
     Checked, UnservedOps
<1> HIDE DEF data
<1>5. ASSUME NEW a, Holds(fuse_open_in, a, data)
      PROVE  OpenDirArgs(a) = x
  <2>1. /\ a.flags = x[1] /\ a.open_flags = 0
    <3>1. /\ a[fuse_open_in[1]] = data[1] /\ a[fuse_open_in[2]] = data[2]
      BY <1>4, <1>5 DEF Holds
    <3> QED
      BY <1>3, <3>1 DEF fuse_open_in
  <2> QED
    BY <1>1, <2>1 DEF OpenDirArgs
<1>6. \A h, p : Args("OPENDIR", h, p) = OpenDirArgs(p.arg)
  <2> SUFFICES ASSUME NEW h, NEW p PROVE Args("OPENDIR", h, p) = OpenDirArgs(p.arg)
    OBVIOUS
  <2>1. Args("OPENDIR", h, p) = FileArgs("OPENDIR", p)
    BY DEF Args, NodeOps, AccessOps, XattrOps, LockOps, LaterOps
  <2>2. FileArgs("OPENDIR", p) = OpenDirArgs(p.arg)
    BY DEF FileArgs
  <2> QED
    BY <2>1, <2>2
<1>7. \A a : Holds(fuse_open_in, a, data) =>
            Reads("OPENDIR", x, acl, [arg |-> a, strs |-> <<>>, rest |-> <<>>])
  BY <1>4, <1>5, <1>6, AlwaysServed
<1> QED
  BY <1>2, <1>3, <1>4, <1>7, PlainUnderstood

(* BMAP is understood.                                                     *)
LEMMA BMapUnderstood ==
    ASSUME NEW ext, NEW acl, NEW x \in AskedArgs("BMAP")
    PROVE  Understood("BMAP", x, ext, acl)
<1> DEFINE data == <<x[2], x[1], 0>>
<1>1. /\ x = <<x[1], x[2]>> /\ x[1] \in Ids /\ x[2] \in Ids
  BY DEF AskedArgs
<1>2. Body("BMAP", x, ext, acl) = data
  BY <1>1 DEF Body, NameOps, UnservedOps, LockOps
<1>3. /\ data \in Seq(Int) /\ Len(data) = 3 /\ data[1] = x[2] /\ data[2] = x[1]
  BY <1>1 DEF Ids
<1>4. /\ Struct("BMAP", ext) = fuse_bmap_in /\ Len(fuse_bmap_in) = 3 /\ Distinct(fuse_bmap_in)
      /\ NameCount("BMAP") = 0 /\ "BMAP" \notin Checked
  BY StructsDistinct DEF Structs, Struct, fuse_bmap_in, LockOps, NameCount, TwoNames, OneName, NameOps,
     Checked, UnservedOps
<1> HIDE DEF data
<1>5. ASSUME NEW a, Holds(fuse_bmap_in, a, data)
      PROVE  BMapArgs(a) = x
  <2>1. /\ a.block = x[2] /\ a.blocksize = x[1]
    <3>1. /\ a[fuse_bmap_in[1]] = data[1] /\ a[fuse_bmap_in[2]] = data[2]
      BY <1>4, <1>5 DEF Holds
    <3> QED
      BY <1>3, <3>1 DEF fuse_bmap_in
  <2> QED
    BY <1>1, <2>1 DEF BMapArgs
<1>6. \A h, p : Args("BMAP", h, p) = BMapArgs(p.arg)
  <2> SUFFICES ASSUME NEW h, NEW p PROVE Args("BMAP", h, p) = BMapArgs(p.arg)
    OBVIOUS
  <2>1. Args("BMAP", h, p) = AccessArmArgs("BMAP", p)
    BY DEF Args, NodeOps, AccessOps, XattrOps, LockOps, LaterOps
  <2>2. AccessArmArgs("BMAP", p) = BMapArgs(p.arg)
    BY DEF AccessArmArgs
  <2> QED
    BY <2>1, <2>2
<1>7. \A a : Holds(fuse_bmap_in, a, data) =>
            Reads("BMAP", x, acl, [arg |-> a, strs |-> <<>>, rest |-> <<>>])
  BY <1>4, <1>5, <1>6, AlwaysServed
<1> QED
  BY <1>2, <1>3, <1>4, <1>7, PlainUnderstood

(* FORGET is understood.                                                   *)
LEMMA ForgetUnderstood ==
    ASSUME NEW ext, NEW acl, NEW x \in AskedArgs("FORGET")
    PROVE  Understood("FORGET", x, ext, acl)
<1> DEFINE data == <<x[1]>>
<1>1. /\ x = <<x[1]>> /\ x[1] \in Ids
  BY DEF AskedArgs
<1>2. Body("FORGET", x, ext, acl) = data
  BY <1>1 DEF Body, NameOps, UnservedOps, LockOps
<1>3. /\ data \in Seq(Int) /\ Len(data) = 1 /\ data[1] = x[1]
  BY <1>1 DEF Ids
<1>4. /\ Struct("FORGET", ext) = fuse_forget_in /\ Len(fuse_forget_in) = 1 /\ Distinct(fuse_forget_in)
      /\ NameCount("FORGET") = 0 /\ "FORGET" \notin Checked
  BY StructsDistinct DEF Structs, Struct, fuse_forget_in, LockOps, NameCount, TwoNames, OneName,
     NameOps, Checked, UnservedOps
<1> HIDE DEF data
<1>5. ASSUME NEW a, Holds(fuse_forget_in, a, data)
      PROVE  ForgetArgs(a) = x
  <2>1. a.nlookup = x[1]
    <3>1. a[fuse_forget_in[1]] = data[1]
      BY <1>4, <1>5 DEF Holds
    <3> QED
      BY <1>3, <3>1 DEF fuse_forget_in
  <2> QED
    BY <1>1, <2>1 DEF ForgetArgs
<1>6. \A h, p : Args("FORGET", h, p) = ForgetArgs(p.arg)
  <2> SUFFICES ASSUME NEW h, NEW p PROVE Args("FORGET", h, p) = ForgetArgs(p.arg)
    OBVIOUS
  <2>1. Args("FORGET", h, p) = NodeArgs("FORGET", h, p)
    BY DEF Args, NodeOps, AccessOps, XattrOps, LockOps, LaterOps
  <2>2. NodeArgs("FORGET", h, p) = ForgetArgs(p.arg)
    BY DEF NodeArgs
  <2> QED
    BY <2>1, <2>2
<1>7. \A a : Holds(fuse_forget_in, a, data) =>
            Reads("FORGET", x, acl, [arg |-> a, strs |-> <<>>, rest |-> <<>>])
  BY <1>4, <1>5, <1>6, AlwaysServed
<1> QED
  BY <1>2, <1>3, <1>4, <1>7, PlainUnderstood

(* RELEASE is understood.                                                  *)
LEMMA ReleaseUnderstood ==
    ASSUME NEW ext, NEW acl, NEW x \in AskedArgs("RELEASE")
    PROVE  Understood("RELEASE", x, ext, acl)
<1> DEFINE data == <<x[1], x[2], Bit(RELEASE_FLOCK_UNLOCK, x[3]) + Flag(RELEASE_FLUSH, x[4]), Val(x[3])>>
<1>1. /\ x = <<x[1], x[2], x[3], x[4]>> /\ x[1] \in Ids /\ x[2] \in Ids /\ x[3] \in Opt(Ids)
      /\ x[4] \in BOOLEAN
  BY DEF AskedArgs
<1>2. Body("RELEASE", x, ext, acl) = data
  BY <1>1 DEF Body, NameOps, UnservedOps, LockOps
<1>3. /\ data \in Seq(Int) /\ Len(data) = 4 /\ data[1] = x[1] /\ data[2] = x[2]
      /\ data[3] = Bit(RELEASE_FLOCK_UNLOCK, x[3]) + Flag(RELEASE_FLUSH, x[4])
      /\ data[4] = Val(x[3])
  BY <1>1 DEF Ids, Bit, Val, Opt, Flag, RELEASE_FLOCK_UNLOCK, RELEASE_FLUSH
<1>4. /\ Struct("RELEASE", ext) = fuse_release_in /\ Len(fuse_release_in) = 4 /\ Distinct(fuse_release_in)
      /\ NameCount("RELEASE") = 0 /\ "RELEASE" \notin Checked
  BY StructsDistinct DEF Structs, Struct, fuse_release_in, LockOps, NameCount, TwoNames, OneName,
     NameOps, Checked, UnservedOps
<1> HIDE DEF data
<1>5. ASSUME NEW a, Holds(fuse_release_in, a, data)
      PROVE  ReleaseArgs(a) = x
  <2>1. /\ a.fh = x[1] /\ a.flags = x[2]
        /\ a.release_flags = Bit(RELEASE_FLOCK_UNLOCK, x[3]) + Flag(RELEASE_FLUSH, x[4])
        /\ a.lock_owner = Val(x[3])
    <3>1. /\ a[fuse_release_in[1]] = data[1] /\ a[fuse_release_in[2]] = data[2]
          /\ a[fuse_release_in[3]] = data[3] /\ a[fuse_release_in[4]] = data[4]
      BY <1>4, <1>5 DEF Holds
    <3> QED
      BY <1>3, <3>1 DEF fuse_release_in
  <2>2. /\ contains(a.release_flags, RELEASE_FLOCK_UNLOCK) = (x[3] # {})
        /\ contains(a.release_flags, RELEASE_FLUSH) = x[4]
        /\ When(x[3] # {}, Val(x[3])) = x[3]
    BY <1>1, <2>1, OptionSent DEF contains, Bit, Flag, RELEASE_FLOCK_UNLOCK, RELEASE_FLUSH
  <2> QED
    BY <1>1, <2>1, <2>2 DEF ReleaseArgs
<1>6. \A h, p : Args("RELEASE", h, p) = ReleaseArgs(p.arg)
  <2> SUFFICES ASSUME NEW h, NEW p PROVE Args("RELEASE", h, p) = ReleaseArgs(p.arg)
    OBVIOUS
  <2>1. Args("RELEASE", h, p) = FileArgs("RELEASE", p)
    BY DEF Args, NodeOps, AccessOps, XattrOps, LockOps, LaterOps
  <2>2. FileArgs("RELEASE", p) = ReleaseArgs(p.arg)
    BY DEF FileArgs
  <2> QED
    BY <2>1, <2>2
<1>7. \A a : Holds(fuse_release_in, a, data) =>
            Reads("RELEASE", x, acl, [arg |-> a, strs |-> <<>>, rest |-> <<>>])
  BY <1>4, <1>5, <1>6, AlwaysServed
<1> QED
  BY <1>2, <1>3, <1>4, <1>7, PlainUnderstood

(* RELEASEDIR is understood.                                               *)
LEMMA ReleaseDirUnderstood ==
    ASSUME NEW ext, NEW acl, NEW x \in AskedArgs("RELEASEDIR")
    PROVE  Understood("RELEASEDIR", x, ext, acl)
<1> DEFINE data == <<x[1], x[2], 0, 0>>
<1>1. /\ x = <<x[1], x[2]>> /\ x[1] \in Ids /\ x[2] \in Ids
  BY DEF AskedArgs
<1>2. Body("RELEASEDIR", x, ext, acl) = data
  BY <1>1 DEF Body, NameOps, UnservedOps, LockOps
<1>3. /\ data \in Seq(Int) /\ Len(data) = 4 /\ data[1] = x[1] /\ data[2] = x[2] /\ data[3] = 0
      /\ data[4] = 0
  BY <1>1 DEF Ids
<1>4. /\ Struct("RELEASEDIR", ext) = fuse_release_in /\ Len(fuse_release_in) = 4 /\ Distinct(fuse_release_in)
      /\ NameCount("RELEASEDIR") = 0 /\ "RELEASEDIR" \notin Checked
  BY StructsDistinct DEF Structs, Struct, fuse_release_in, LockOps, NameCount, TwoNames, OneName,
     NameOps, Checked, UnservedOps
<1> HIDE DEF data
<1>5. ASSUME NEW a, Holds(fuse_release_in, a, data)
      PROVE  ReleaseDirArgs(a) = x
  <2>1. /\ a.fh = x[1] /\ a.flags = x[2] /\ a.release_flags = 0 /\ a.lock_owner = 0
    <3>1. /\ a[fuse_release_in[1]] = data[1] /\ a[fuse_release_in[2]] = data[2]
          /\ a[fuse_release_in[3]] = data[3] /\ a[fuse_release_in[4]] = data[4]
      BY <1>4, <1>5 DEF Holds
    <3> QED
      BY <1>3, <3>1 DEF fuse_release_in
  <2> QED
    BY <1>1, <2>1 DEF ReleaseDirArgs
<1>6. \A h, p : Args("RELEASEDIR", h, p) = ReleaseDirArgs(p.arg)
  <2> SUFFICES ASSUME NEW h, NEW p PROVE Args("RELEASEDIR", h, p) = ReleaseDirArgs(p.arg)
    OBVIOUS
  <2>1. Args("RELEASEDIR", h, p) = FileArgs("RELEASEDIR", p)
    BY DEF Args, NodeOps, AccessOps, XattrOps, LockOps, LaterOps
  <2>2. FileArgs("RELEASEDIR", p) = ReleaseDirArgs(p.arg)
    BY DEF FileArgs
  <2> QED
    BY <2>1, <2>2
<1>7. \A a : Holds(fuse_release_in, a, data) =>
            Reads("RELEASEDIR", x, acl, [arg |-> a, strs |-> <<>>, rest |-> <<>>])
  BY <1>4, <1>5, <1>6, AlwaysServed
<1> QED
  BY <1>2, <1>3, <1>4, <1>7, PlainUnderstood

(* FLUSH is understood.                                                    *)
LEMMA FlushUnderstood ==
    ASSUME NEW ext, NEW acl, NEW x \in AskedArgs("FLUSH")
    PROVE  Understood("FLUSH", x, ext, acl)
<1> DEFINE data == <<x[1], 0, 0, x[2]>>
<1>1. /\ x = <<x[1], x[2]>> /\ x[1] \in Ids /\ x[2] \in Ids
  BY DEF AskedArgs
<1>2. Body("FLUSH", x, ext, acl) = data
  BY <1>1 DEF Body, NameOps, UnservedOps, LockOps
<1>3. /\ data \in Seq(Int) /\ Len(data) = 4 /\ data[1] = x[1] /\ data[4] = x[2]
  BY <1>1 DEF Ids
<1>4. /\ Struct("FLUSH", ext) = fuse_flush_in /\ Len(fuse_flush_in) = 4 /\ Distinct(fuse_flush_in)
      /\ NameCount("FLUSH") = 0 /\ "FLUSH" \notin Checked
  BY StructsDistinct DEF Structs, Struct, fuse_flush_in, LockOps, NameCount, TwoNames, OneName, NameOps,
     Checked, UnservedOps
<1> HIDE DEF data
<1>5. ASSUME NEW a, Holds(fuse_flush_in, a, data)
      PROVE  FlushArgs(a) = x
  <2>1. /\ a.fh = x[1] /\ a.lock_owner = x[2]
    <3>1. /\ a[fuse_flush_in[1]] = data[1] /\ a[fuse_flush_in[4]] = data[4]
      BY <1>4, <1>5 DEF Holds
    <3> QED
      BY <1>3, <3>1 DEF fuse_flush_in
  <2> QED
    BY <1>1, <2>1 DEF FlushArgs
<1>6. \A h, p : Args("FLUSH", h, p) = FlushArgs(p.arg)
  <2> SUFFICES ASSUME NEW h, NEW p PROVE Args("FLUSH", h, p) = FlushArgs(p.arg)
    OBVIOUS
  <2>1. Args("FLUSH", h, p) = FileArgs("FLUSH", p)
    BY DEF Args, NodeOps, AccessOps, XattrOps, LockOps, LaterOps
  <2>2. FileArgs("FLUSH", p) = FlushArgs(p.arg)
    BY DEF FileArgs
  <2> QED
    BY <2>1, <2>2
<1>7. \A a : Holds(fuse_flush_in, a, data) =>
            Reads("FLUSH", x, acl, [arg |-> a, strs |-> <<>>, rest |-> <<>>])
  BY <1>4, <1>5, <1>6, AlwaysServed
<1> QED
  BY <1>2, <1>3, <1>4, <1>7, PlainUnderstood

(* FSYNC is understood.                                                    *)
LEMMA FSyncUnderstood ==
    ASSUME NEW ext, NEW acl, NEW x \in AskedArgs("FSYNC")
    PROVE  Understood("FSYNC", x, ext, acl)
<1> DEFINE data == <<x[1], Flag(FSYNC_FDATASYNC, x[2]), 0>>
<1>1. /\ x = <<x[1], x[2]>> /\ x[1] \in Ids /\ x[2] \in BOOLEAN
  BY DEF AskedArgs
<1>2. Body("FSYNC", x, ext, acl) = data
  BY <1>1 DEF Body, NameOps, UnservedOps, LockOps
<1>3. /\ data \in Seq(Int) /\ Len(data) = 3 /\ data[1] = x[1]
      /\ data[2] = Flag(FSYNC_FDATASYNC, x[2])
  BY <1>1 DEF Ids, Flag, FSYNC_FDATASYNC
<1>4. /\ Struct("FSYNC", ext) = fuse_fsync_in /\ Len(fuse_fsync_in) = 3 /\ Distinct(fuse_fsync_in)
      /\ NameCount("FSYNC") = 0 /\ "FSYNC" \notin Checked
  BY StructsDistinct DEF Structs, Struct, fuse_fsync_in, LockOps, NameCount, TwoNames, OneName, NameOps,
     Checked, UnservedOps
<1> HIDE DEF data
<1>5. ASSUME NEW a, Holds(fuse_fsync_in, a, data)
      PROVE  FSyncArgs(a) = x
  <2>1. /\ a.fh = x[1] /\ a.fsync_flags = Flag(FSYNC_FDATASYNC, x[2])
    <3>1. /\ a[fuse_fsync_in[1]] = data[1] /\ a[fuse_fsync_in[2]] = data[2]
      BY <1>4, <1>5 DEF Holds
    <3> QED
      BY <1>3, <3>1 DEF fuse_fsync_in
  <2> QED
    BY <1>1, <2>1 DEF FSyncArgs, contains, Flag, FSYNC_FDATASYNC
<1>6. \A h, p : Args("FSYNC", h, p) = FSyncArgs(p.arg)
  <2> SUFFICES ASSUME NEW h, NEW p PROVE Args("FSYNC", h, p) = FSyncArgs(p.arg)
    OBVIOUS
  <2>1. Args("FSYNC", h, p) = FileArgs("FSYNC", p)
    BY DEF Args, NodeOps, AccessOps, XattrOps, LockOps, LaterOps
  <2>2. FileArgs("FSYNC", p) = FSyncArgs(p.arg)
    BY DEF FileArgs
  <2> QED
    BY <2>1, <2>2
<1>7. \A a : Holds(fuse_fsync_in, a, data) =>
            Reads("FSYNC", x, acl, [arg |-> a, strs |-> <<>>, rest |-> <<>>])
  BY <1>4, <1>5, <1>6, AlwaysServed
<1> QED
  BY <1>2, <1>3, <1>4, <1>7, PlainUnderstood

(* FSYNCDIR is understood.                                                 *)
LEMMA FSyncDirUnderstood ==
    ASSUME NEW ext, NEW acl, NEW x \in AskedArgs("FSYNCDIR")
    PROVE  Understood("FSYNCDIR", x, ext, acl)
<1> DEFINE data == <<x[1], Flag(FSYNC_FDATASYNC, x[2]), 0>>
<1>1. /\ x = <<x[1], x[2]>> /\ x[1] \in Ids /\ x[2] \in BOOLEAN
  BY DEF AskedArgs
<1>2. Body("FSYNCDIR", x, ext, acl) = data
  BY <1>1 DEF Body, NameOps, UnservedOps, LockOps
<1>3. /\ data \in Seq(Int) /\ Len(data) = 3 /\ data[1] = x[1]
      /\ data[2] = Flag(FSYNC_FDATASYNC, x[2])
  BY <1>1 DEF Ids, Flag, FSYNC_FDATASYNC
<1>4. /\ Struct("FSYNCDIR", ext) = fuse_fsync_in /\ Len(fuse_fsync_in) = 3 /\ Distinct(fuse_fsync_in)
      /\ NameCount("FSYNCDIR") = 0 /\ "FSYNCDIR" \notin Checked
  BY StructsDistinct DEF Structs, Struct, fuse_fsync_in, LockOps, NameCount, TwoNames, OneName, NameOps,
     Checked, UnservedOps
<1> HIDE DEF data
<1>5. ASSUME NEW a, Holds(fuse_fsync_in, a, data)
      PROVE  FSyncDirArgs(a) = x
  <2>1. /\ a.fh = x[1] /\ a.fsync_flags = Flag(FSYNC_FDATASYNC, x[2])
    <3>1. /\ a[fuse_fsync_in[1]] = data[1] /\ a[fuse_fsync_in[2]] = data[2]
      BY <1>4, <1>5 DEF Holds
    <3> QED
      BY <1>3, <3>1 DEF fuse_fsync_in
  <2> QED
    BY <1>1, <2>1 DEF FSyncDirArgs, FSyncArgs, contains, Flag, FSYNC_FDATASYNC
<1>6. \A h, p : Args("FSYNCDIR", h, p) = FSyncDirArgs(p.arg)
  <2> SUFFICES ASSUME NEW h, NEW p PROVE Args("FSYNCDIR", h, p) = FSyncDirArgs(p.arg)
    OBVIOUS
  <2>1. Args("FSYNCDIR", h, p) = FileArgs("FSYNCDIR", p)
    BY DEF Args, NodeOps, AccessOps, XattrOps, LockOps, LaterOps
  <2>2. FileArgs("FSYNCDIR", p) = FSyncDirArgs(p.arg)
    BY DEF FileArgs
  <2> QED
    BY <2>1, <2>2
<1>7. \A a : Holds(fuse_fsync_in, a, data) =>
            Reads("FSYNCDIR", x, acl, [arg |-> a, strs |-> <<>>, rest |-> <<>>])
  BY <1>4, <1>5, <1>6, AlwaysServed
<1> QED
  BY <1>2, <1>3, <1>4, <1>7, PlainUnderstood

(* GETATTR is understood.                                                  *)
LEMMA GetAttrUnderstood ==
    ASSUME NEW ext, NEW acl, NEW x \in AskedArgs("GETATTR")
    PROVE  Understood("GETATTR", x, ext, acl)
<1> DEFINE data == <<Bit(GETATTR_FH, x[1]), 0, Val(x[1])>>
<1>1. /\ x = <<x[1]>> /\ x[1] \in Opt(Ids)
  BY DEF AskedArgs
<1>2. Body("GETATTR", x, ext, acl) = data
  BY <1>1 DEF Body, NameOps, UnservedOps, LockOps
<1>3. /\ data \in Seq(Int) /\ Len(data) = 3 /\ data[1] = Bit(GETATTR_FH, x[1])
      /\ data[3] = Val(x[1])
  BY <1>1 DEF Ids, Opt, Bit, Val, GETATTR_FH
<1>4. /\ Struct("GETATTR", ext) = fuse_getattr_in /\ Len(fuse_getattr_in) = 3 /\ Distinct(fuse_getattr_in)
      /\ NameCount("GETATTR") = 0 /\ "GETATTR" \notin Checked
  BY StructsDistinct DEF Structs, Struct, fuse_getattr_in, LockOps, NameCount, TwoNames, OneName,
     NameOps, Checked, UnservedOps
<1> HIDE DEF data
<1>5. ASSUME NEW a, Holds(fuse_getattr_in, a, data)
      PROVE  GetAttrArgs(a) = x
  <2>1. /\ a.getattr_flags = Bit(GETATTR_FH, x[1]) /\ a.fh = Val(x[1])
    <3>1. /\ a[fuse_getattr_in[1]] = data[1] /\ a[fuse_getattr_in[3]] = data[3]
      BY <1>4, <1>5 DEF Holds
    <3> QED
      BY <1>3, <3>1 DEF fuse_getattr_in
  <2>2. /\ contains(a.getattr_flags, GETATTR_FH) = (x[1] # {})
        /\ When(x[1] # {}, Val(x[1])) = x[1]
    BY <1>1, <2>1, OptionSent DEF contains, Bit, GETATTR_FH
  <2> QED
    BY <1>1, <2>1, <2>2 DEF GetAttrArgs
<1>6. \A h, p : Args("GETATTR", h, p) = GetAttrArgs(p.arg)
  <2> SUFFICES ASSUME NEW h, NEW p PROVE Args("GETATTR", h, p) = GetAttrArgs(p.arg)
    OBVIOUS
  <2>1. Args("GETATTR", h, p) = NodeArgs("GETATTR", h, p)
    BY DEF Args, NodeOps, AccessOps, XattrOps, LockOps, LaterOps
  <2>2. NodeArgs("GETATTR", h, p) = GetAttrArgs(p.arg)
    BY DEF NodeArgs
  <2> QED
    BY <2>1, <2>2
<1>7. \A a : Holds(fuse_getattr_in, a, data) =>
            Reads("GETATTR", x, acl, [arg |-> a, strs |-> <<>>, rest |-> <<>>])
  BY <1>4, <1>5, <1>6, AlwaysServed
<1> QED
  BY <1>2, <1>3, <1>4, <1>7, PlainUnderstood

(* STATX is understood.                                                    *)
LEMMA StatXUnderstood ==
    ASSUME NEW ext, NEW acl, NEW x \in AskedArgs("STATX")
    PROVE  Understood("STATX", x, ext, acl)
<1> DEFINE data == <<Bit(GETATTR_FH, x[1]), 0, Val(x[1]), x[2], x[3]>>
<1>1. /\ x = <<x[1], x[2], x[3]>> /\ x[1] \in Opt(Ids) /\ x[2] \in Ids /\ x[3] \in Ids
  BY DEF AskedArgs
<1>2. Body("STATX", x, ext, acl) = data
  BY <1>1 DEF Body, NameOps, UnservedOps, LockOps
<1>3. /\ data \in Seq(Int) /\ Len(data) = 5 /\ data[1] = Bit(GETATTR_FH, x[1])
      /\ data[3] = Val(x[1]) /\ data[4] = x[2] /\ data[5] = x[3]
  BY <1>1 DEF Ids, Opt, Bit, Val, GETATTR_FH
<1>4. /\ Struct("STATX", ext) = fuse_statx_in /\ Len(fuse_statx_in) = 5 /\ Distinct(fuse_statx_in)
      /\ NameCount("STATX") = 0 /\ "STATX" \notin Checked
  BY StructsDistinct DEF Structs, Struct, fuse_statx_in, LockOps, NameCount, TwoNames, OneName, NameOps,
     Checked, UnservedOps
<1> HIDE DEF data
<1>5. ASSUME NEW a, Holds(fuse_statx_in, a, data)
      PROVE  StatXArgs(a) = x
  <2>1. /\ a.getattr_flags = Bit(GETATTR_FH, x[1]) /\ a.fh = Val(x[1]) /\ a.sx_flags = x[2]
        /\ a.sx_mask = x[3]
    <3>1. /\ a[fuse_statx_in[1]] = data[1] /\ a[fuse_statx_in[3]] = data[3]
          /\ a[fuse_statx_in[4]] = data[4] /\ a[fuse_statx_in[5]] = data[5]
      BY <1>4, <1>5 DEF Holds
    <3> QED
      BY <1>3, <3>1 DEF fuse_statx_in
  <2>2. /\ contains(a.getattr_flags, GETATTR_FH) = (x[1] # {})
        /\ When(x[1] # {}, Val(x[1])) = x[1]
    BY <1>1, <2>1, OptionSent DEF contains, Bit, GETATTR_FH
  <2> QED
    BY <1>1, <2>1, <2>2 DEF StatXArgs, GetAttrArgs
<1>6. \A h, p : Args("STATX", h, p) = StatXArgs(p.arg)
  <2> SUFFICES ASSUME NEW h, NEW p PROVE Args("STATX", h, p) = StatXArgs(p.arg)
    OBVIOUS
  <2>1. Args("STATX", h, p) = LaterArgs("STATX", h, p)
    BY DEF Args, NodeOps, AccessOps, XattrOps, LockOps, LaterOps
  <2>2. LaterArgs("STATX", h, p) = StatXArgs(p.arg)
    BY DEF LaterArgs
  <2> QED
    BY <2>1, <2>2
<1>7. \A a : Holds(fuse_statx_in, a, data) =>
            Reads("STATX", x, acl, [arg |-> a, strs |-> <<>>, rest |-> <<>>])
  BY <1>4, <1>5, <1>6, AlwaysServed
<1> QED
  BY <1>2, <1>3, <1>4, <1>7, PlainUnderstood

(* LSEEK is understood.                                                    *)
LEMMA LseekUnderstood ==
    ASSUME NEW ext, NEW acl, NEW x \in AskedArgs("LSEEK")
    PROVE  Understood("LSEEK", x, ext, acl)
<1> DEFINE data == <<x[1], x[2], x[3], 0>>
<1>1. /\ x = <<x[1], x[2], x[3]>> /\ x[1] \in Ids /\ x[3] \in Ids /\ x[2] \in Int
  BY TimesAssumption DEF AskedArgs, Offs
<1>2. Body("LSEEK", x, ext, acl) = data
  BY <1>1 DEF Body, NameOps, UnservedOps, LockOps
<1>3. /\ data \in Seq(Int) /\ Len(data) = 4 /\ data[1] = x[1] /\ data[2] = x[2]
      /\ data[3] = x[3]
  BY <1>1 DEF Ids
<1>4. /\ Struct("LSEEK", ext) = fuse_lseek_in /\ Len(fuse_lseek_in) = 4 /\ Distinct(fuse_lseek_in)
      /\ NameCount("LSEEK") = 0 /\ "LSEEK" \notin Checked
  BY StructsDistinct DEF Structs, Struct, fuse_lseek_in, LockOps, NameCount, TwoNames, OneName, NameOps,
     Checked, UnservedOps
<1> HIDE DEF data
<1>5. ASSUME NEW a, Holds(fuse_lseek_in, a, data)
      PROVE  LseekArgs(a) = x
  <2>1. /\ a.fh = x[1] /\ a.offset = x[2] /\ a.whence = x[3]
    <3>1. /\ a[fuse_lseek_in[1]] = data[1] /\ a[fuse_lseek_in[2]] = data[2]
          /\ a[fuse_lseek_in[3]] = data[3]
      BY <1>4, <1>5 DEF Holds
    <3> QED
      BY <1>3, <3>1 DEF fuse_lseek_in
  <2> QED
    BY <1>1, <2>1 DEF LseekArgs
<1>6. \A h, p : Args("LSEEK", h, p) = LseekArgs(p.arg)
  <2> SUFFICES ASSUME NEW h, NEW p PROVE Args("LSEEK", h, p) = LseekArgs(p.arg)
    OBVIOUS
  <2>1. Args("LSEEK", h, p) = LaterArgs("LSEEK", h, p)
    BY DEF Args, NodeOps, AccessOps, XattrOps, LockOps, LaterOps
  <2>2. LaterArgs("LSEEK", h, p) = LseekArgs(p.arg)
    BY DEF LaterArgs
  <2> QED
    BY <2>1, <2>2
<1>7. \A a : Holds(fuse_lseek_in, a, data) =>
            Reads("LSEEK", x, acl, [arg |-> a, strs |-> <<>>, rest |-> <<>>])
  BY <1>4, <1>5, <1>6, AlwaysServed
<1> QED
  BY <1>2, <1>3, <1>4, <1>7, PlainUnderstood

(* LISTXATTR is understood.                                                *)
LEMMA ListXAttrUnderstood ==
    ASSUME NEW ext, NEW acl, NEW x \in AskedArgs("LISTXATTR")
    PROVE  Understood("LISTXATTR", x, ext, acl)
<1> DEFINE data == <<x[1], 0>>
<1>1. /\ x = <<x[1]>> /\ x[1] \in Ids
  BY DEF AskedArgs
<1>2. Body("LISTXATTR", x, ext, acl) = data
  BY <1>1 DEF Body, NameOps, UnservedOps, LockOps
<1>3. /\ data \in Seq(Int) /\ Len(data) = 2 /\ data[1] = x[1]
  BY <1>1 DEF Ids
<1>4. /\ Struct("LISTXATTR", ext) = fuse_getxattr_in /\ Len(fuse_getxattr_in) = 2 /\ Distinct(fuse_getxattr_in)
      /\ NameCount("LISTXATTR") = 0 /\ "LISTXATTR" \notin Checked
  BY StructsDistinct DEF Structs, Struct, fuse_getxattr_in, LockOps, NameCount, TwoNames, OneName,
     NameOps, Checked, UnservedOps
<1> HIDE DEF data
<1>5. ASSUME NEW a, Holds(fuse_getxattr_in, a, data)
      PROVE  ListXAttrArgs(a) = x
  <2>1. a.size = x[1]
    <3>1. a[fuse_getxattr_in[1]] = data[1]
      BY <1>4, <1>5 DEF Holds
    <3> QED
      BY <1>3, <3>1 DEF fuse_getxattr_in
  <2> QED
    BY <1>1, <2>1 DEF ListXAttrArgs
<1>6. \A h, p : Args("LISTXATTR", h, p) = ListXAttrArgs(p.arg)
  <2> SUFFICES ASSUME NEW h, NEW p PROVE Args("LISTXATTR", h, p) = ListXAttrArgs(p.arg)
    OBVIOUS
  <2>1. Args("LISTXATTR", h, p) = AccessArmArgs("LISTXATTR", p)
    BY DEF Args, NodeOps, AccessOps, XattrOps, LockOps, LaterOps
  <2>2. AccessArmArgs("LISTXATTR", p) = ListXAttrArgs(p.arg)
    BY DEF AccessArmArgs
  <2> QED
    BY <2>1, <2>2
<1>7. \A a : Holds(fuse_getxattr_in, a, data) =>
            Reads("LISTXATTR", x, acl, [arg |-> a, strs |-> <<>>, rest |-> <<>>])
  BY <1>4, <1>5, <1>6, AlwaysServed
<1> QED
  BY <1>2, <1>3, <1>4, <1>7, PlainUnderstood

(* ACCESS is understood.                                                   *)
LEMMA AccessUnderstood ==
    ASSUME NEW ext, NEW acl, NEW x \in AskedArgs("ACCESS")
    PROVE  Understood("ACCESS", x, ext, acl)
<1> DEFINE data == <<x[1], 0>>
<1>1. /\ x = <<x[1]>> /\ x[1] \in Ids
  BY DEF AskedArgs
<1>2. Body("ACCESS", x, ext, acl) = data
  BY <1>1 DEF Body, NameOps, UnservedOps, LockOps
<1>3. /\ data \in Seq(Int) /\ Len(data) = 2 /\ data[1] = x[1]
  BY <1>1 DEF Ids
<1>4. /\ Struct("ACCESS", ext) = fuse_access_in /\ Len(fuse_access_in) = 2 /\ Distinct(fuse_access_in)
      /\ NameCount("ACCESS") = 0 /\ "ACCESS" \notin Checked
  BY StructsDistinct DEF Structs, Struct, fuse_access_in, LockOps, NameCount, TwoNames, OneName,
     NameOps, Checked, UnservedOps
<1> HIDE DEF data
<1>5. ASSUME NEW a, Holds(fuse_access_in, a, data)
      PROVE  AccessArgs(a) = x
  <2>1. a.mask = x[1]
    <3>1. a[fuse_access_in[1]] = data[1]
      BY <1>4, <1>5 DEF Holds
    <3> QED
      BY <1>3, <3>1 DEF fuse_access_in
  <2> QED
    BY <1>1, <2>1 DEF AccessArgs
<1>6. \A h, p : Args("ACCESS", h, p) = AccessArgs(p.arg)
  <2> SUFFICES ASSUME NEW h, NEW p PROVE Args("ACCESS", h, p) = AccessArgs(p.arg)
    OBVIOUS
  <2>1. Args("ACCESS", h, p) = AccessArmArgs("ACCESS", p)
    BY DEF Args, NodeOps, AccessOps, XattrOps, LockOps, LaterOps
  <2>2. AccessArmArgs("ACCESS", p) = AccessArgs(p.arg)
    BY DEF AccessArmArgs
  <2> QED
    BY <2>1, <2>2
<1>7. \A a : Holds(fuse_access_in, a, data) =>
            Reads("ACCESS", x, acl, [arg |-> a, strs |-> <<>>, rest |-> <<>>])
  BY <1>4, <1>5, <1>6, AlwaysServed
<1> QED
  BY <1>2, <1>3, <1>4, <1>7, PlainUnderstood

(* POLL is understood.                                                     *)
LEMMA PollUnderstood ==
    ASSUME NEW ext, NEW acl, NEW x \in AskedArgs("POLL")
    PROVE  Understood("POLL", x, ext, acl)
<1> DEFINE data == <<x[1], x[2], x[4], x[3]>>
<1>1. /\ x = <<x[1], x[2], x[3], x[4]>> /\ x[1] \in Ids /\ x[2] \in Ids /\ x[3] \in Ids
      /\ x[4] \in Ids
  BY DEF AskedArgs
<1>2. Body("POLL", x, ext, acl) = data
  BY <1>1 DEF Body, NameOps, UnservedOps, LockOps
<1>3. /\ data \in Seq(Int) /\ Len(data) = 4 /\ data[1] = x[1] /\ data[2] = x[2]
      /\ data[3] = x[4] /\ data[4] = x[3]
  BY <1>1 DEF Ids
<1>4. /\ Struct("POLL", ext) = fuse_poll_in /\ Len(fuse_poll_in) = 4 /\ Distinct(fuse_poll_in)
      /\ NameCount("POLL") = 0 /\ "POLL" \notin Checked
  BY StructsDistinct DEF Structs, Struct, fuse_poll_in, LockOps, NameCount, TwoNames, OneName, NameOps,
     Checked, UnservedOps
<1> HIDE DEF data
<1>5. ASSUME NEW a, Holds(fuse_poll_in, a, data)
      PROVE  PollArgs(a) = x
  <2>1. /\ a.fh = x[1] /\ a.kh = x[2] /\ a.flags = x[4] /\ a.events = x[3]
    <3>1. /\ a[fuse_poll_in[1]] = data[1] /\ a[fuse_poll_in[2]] = data[2]
          /\ a[fuse_poll_in[3]] = data[3] /\ a[fuse_poll_in[4]] = data[4]
      BY <1>4, <1>5 DEF Holds
    <3> QED
      BY <1>3, <3>1 DEF fuse_poll_in
  <2> QED
    BY <1>1, <2>1 DEF PollArgs
<1>6. \A h, p : Args("POLL", h, p) = PollArgs(p.arg)
  <2> SUFFICES ASSUME NEW h, NEW p PROVE Args("POLL", h, p) = PollArgs(p.arg)
    OBVIOUS
  <2>1. Args("POLL", h, p) = LaterArgs("POLL", h, p)
    BY DEF Args, NodeOps, AccessOps, XattrOps, LockOps, LaterOps
  <2>2. LaterArgs("POLL", h, p) = PollArgs(p.arg)
    BY DEF LaterArgs
  <2> QED
    BY <2>1, <2>2
<1>7. \A a : Holds(fuse_poll_in, a, data) =>
            Reads("POLL", x, acl, [arg |-> a, strs |-> <<>>, rest |-> <<>>])
  BY <1>4, <1>5, <1>6, AlwaysServed
<1> QED
  BY <1>2, <1>3, <1>4, <1>7, PlainUnderstood

(* GETLK is understood.                                                    *)
LEMMA GetLkUnderstood ==
    ASSUME NEW ext, NEW acl, NEW x \in AskedArgs("GETLK")
    PROVE  Understood("GETLK", x, ext, acl)
<1> DEFINE data == <<x[1], x[2], x[3], x[4], x[5], x[6], 0, 0>>
<1>1. /\ x = <<x[1], x[2], x[3], x[4], x[5], x[6]>> /\ x[1] \in Ids /\ x[2] \in Ids
      /\ x[3] \in Ids /\ x[4] \in Ids /\ x[5] \in Ids /\ x[6] \in Ids
  BY DEF AskedArgs
<1>2. Body("GETLK", x, ext, acl) = data
  BY <1>1 DEF Body, NameOps, UnservedOps, LockOps
<1>3. /\ data \in Seq(Int) /\ Len(data) = 8 /\ data[1] = x[1] /\ data[2] = x[2]
      /\ data[3] = x[3] /\ data[4] = x[4] /\ data[5] = x[5] /\ data[6] = x[6]
  BY <1>1 DEF Ids
<1>4. /\ Struct("GETLK", ext) = fuse_lk_in /\ Len(fuse_lk_in) = 8 /\ Distinct(fuse_lk_in)
      /\ NameCount("GETLK") = 0 /\ "GETLK" \notin Checked
  BY StructsDistinct DEF Structs, Struct, fuse_lk_in, LockOps, NameCount, TwoNames, OneName, NameOps,
     Checked, UnservedOps
<1> HIDE DEF data
<1>5. ASSUME NEW a, Holds(fuse_lk_in, a, data)
      PROVE  GetLkArgs(a) = x
  <2>1. /\ a.fh = x[1] /\ a.owner = x[2] /\ a.start = x[3] /\ a.end = x[4] /\ a.typ = x[5]
        /\ a.pid = x[6]
    <3>1. /\ a[fuse_lk_in[1]] = data[1] /\ a[fuse_lk_in[2]] = data[2]
          /\ a[fuse_lk_in[3]] = data[3] /\ a[fuse_lk_in[4]] = data[4]
          /\ a[fuse_lk_in[5]] = data[5] /\ a[fuse_lk_in[6]] = data[6]
      BY <1>4, <1>5 DEF Holds
    <3> QED
      BY <1>3, <3>1 DEF fuse_lk_in
  <2> QED
    BY <1>1, <2>1 DEF GetLkArgs, lock
<1>6. \A h, p : Args("GETLK", h, p) = GetLkArgs(p.arg)
  <2> SUFFICES ASSUME NEW h, NEW p PROVE Args("GETLK", h, p) = GetLkArgs(p.arg)
    OBVIOUS
  <2>1. Args("GETLK", h, p) = AccessArmArgs("GETLK", p)
    BY DEF Args, NodeOps, AccessOps, XattrOps, LockOps, LaterOps
  <2>2. AccessArmArgs("GETLK", p) = GetLkArgs(p.arg)
    BY DEF AccessArmArgs
  <2> QED
    BY <2>1, <2>2
<1>7. \A a : Holds(fuse_lk_in, a, data) =>
            Reads("GETLK", x, acl, [arg |-> a, strs |-> <<>>, rest |-> <<>>])
  BY <1>4, <1>5, <1>6, AlwaysServed
<1> QED
  BY <1>2, <1>3, <1>4, <1>7, PlainUnderstood

(* SETLK is understood.                                                    *)
LEMMA SetLkUnderstood ==
    ASSUME NEW ext, NEW acl, NEW x \in AskedArgs("SETLK")
    PROVE  Understood("SETLK", x, ext, acl)
<1> DEFINE data == <<x[1], x[2], x[3], x[4], x[5], x[6], 0, 0>>
<1>1. /\ x = <<x[1], x[2], x[3], x[4], x[5], x[6], x[7]>> /\ x[1] \in Ids /\ x[2] \in Ids
      /\ x[3] \in Ids /\ x[4] \in Ids /\ x[5] \in Ids /\ x[6] \in Ids
      /\ x[7] = ("SETLK" = "SETLKW")
  BY DEF AskedArgs
<1>2. Body("SETLK", x, ext, acl) = data
  BY <1>1 DEF Body, NameOps, UnservedOps, LockOps
<1>3. /\ data \in Seq(Int) /\ Len(data) = 8 /\ data[1] = x[1] /\ data[2] = x[2]
      /\ data[3] = x[3] /\ data[4] = x[4] /\ data[5] = x[5] /\ data[6] = x[6]
  BY <1>1 DEF Ids
<1>4. /\ Struct("SETLK", ext) = fuse_lk_in /\ Len(fuse_lk_in) = 8 /\ Distinct(fuse_lk_in)
      /\ NameCount("SETLK") = 0 /\ "SETLK" \notin Checked
  BY StructsDistinct DEF Structs, Struct, fuse_lk_in, LockOps, NameCount, TwoNames, OneName, NameOps,
     Checked, UnservedOps
<1> HIDE DEF data
<1>5. ASSUME NEW a, Holds(fuse_lk_in, a, data)
      PROVE  SetLkArgs("SETLK", a) = x
  <2>1. /\ a.fh = x[1] /\ a.owner = x[2] /\ a.start = x[3] /\ a.end = x[4] /\ a.typ = x[5]
        /\ a.pid = x[6]
    <3>1. /\ a[fuse_lk_in[1]] = data[1] /\ a[fuse_lk_in[2]] = data[2]
          /\ a[fuse_lk_in[3]] = data[3] /\ a[fuse_lk_in[4]] = data[4]
          /\ a[fuse_lk_in[5]] = data[5] /\ a[fuse_lk_in[6]] = data[6]
      BY <1>4, <1>5 DEF Holds
    <3> QED
      BY <1>3, <3>1 DEF fuse_lk_in
  <2> QED
    BY <1>1, <2>1 DEF SetLkArgs, lock
<1>6. \A h, p : Args("SETLK", h, p) = SetLkArgs("SETLK", p.arg)
  <2> SUFFICES ASSUME NEW h, NEW p PROVE Args("SETLK", h, p) = SetLkArgs("SETLK", p.arg)
    OBVIOUS
  <2>1. Args("SETLK", h, p) = AccessArmArgs("SETLK", p)
    BY DEF Args, NodeOps, AccessOps, XattrOps, LockOps, LaterOps
  <2>2. AccessArmArgs("SETLK", p) = SetLkArgs("SETLK", p.arg)
    BY DEF AccessArmArgs
  <2> QED
    BY <2>1, <2>2
<1>7. \A a : Holds(fuse_lk_in, a, data) =>
            Reads("SETLK", x, acl, [arg |-> a, strs |-> <<>>, rest |-> <<>>])
  BY <1>4, <1>5, <1>6, AlwaysServed
<1> QED
  BY <1>2, <1>3, <1>4, <1>7, PlainUnderstood

(* SETLKW is understood.                                                   *)
LEMMA SetLkWUnderstood ==
    ASSUME NEW ext, NEW acl, NEW x \in AskedArgs("SETLKW")
    PROVE  Understood("SETLKW", x, ext, acl)
<1> DEFINE data == <<x[1], x[2], x[3], x[4], x[5], x[6], 0, 0>>
<1>1. /\ x = <<x[1], x[2], x[3], x[4], x[5], x[6], x[7]>> /\ x[1] \in Ids /\ x[2] \in Ids
      /\ x[3] \in Ids /\ x[4] \in Ids /\ x[5] \in Ids /\ x[6] \in Ids
      /\ x[7] = ("SETLKW" = "SETLKW")
  BY DEF AskedArgs
<1>2. Body("SETLKW", x, ext, acl) = data
  BY <1>1 DEF Body, NameOps, UnservedOps, LockOps
<1>3. /\ data \in Seq(Int) /\ Len(data) = 8 /\ data[1] = x[1] /\ data[2] = x[2]
      /\ data[3] = x[3] /\ data[4] = x[4] /\ data[5] = x[5] /\ data[6] = x[6]
  BY <1>1 DEF Ids
<1>4. /\ Struct("SETLKW", ext) = fuse_lk_in /\ Len(fuse_lk_in) = 8 /\ Distinct(fuse_lk_in)
      /\ NameCount("SETLKW") = 0 /\ "SETLKW" \notin Checked
  BY StructsDistinct DEF Structs, Struct, fuse_lk_in, LockOps, NameCount, TwoNames, OneName, NameOps,
     Checked, UnservedOps
<1> HIDE DEF data
<1>5. ASSUME NEW a, Holds(fuse_lk_in, a, data)
      PROVE  SetLkArgs("SETLKW", a) = x
  <2>1. /\ a.fh = x[1] /\ a.owner = x[2] /\ a.start = x[3] /\ a.end = x[4] /\ a.typ = x[5]
        /\ a.pid = x[6]
    <3>1. /\ a[fuse_lk_in[1]] = data[1] /\ a[fuse_lk_in[2]] = data[2]
          /\ a[fuse_lk_in[3]] = data[3] /\ a[fuse_lk_in[4]] = data[4]
          /\ a[fuse_lk_in[5]] = data[5] /\ a[fuse_lk_in[6]] = data[6]
      BY <1>4, <1>5 DEF Holds
    <3> QED
      BY <1>3, <3>1 DEF fuse_lk_in
  <2> QED
    BY <1>1, <2>1 DEF SetLkArgs, lock
<1>6. \A h, p : Args("SETLKW", h, p) = SetLkArgs("SETLKW", p.arg)
  <2> SUFFICES ASSUME NEW h, NEW p PROVE Args("SETLKW", h, p) = SetLkArgs("SETLKW", p.arg)
    OBVIOUS
  <2>1. Args("SETLKW", h, p) = AccessArmArgs("SETLKW", p)
    BY DEF Args, NodeOps, AccessOps, XattrOps, LockOps, LaterOps
  <2>2. AccessArmArgs("SETLKW", p) = SetLkArgs("SETLKW", p.arg)
    BY DEF AccessArmArgs
  <2> QED
    BY <2>1, <2>2
<1>7. \A a : Holds(fuse_lk_in, a, data) =>
            Reads("SETLKW", x, acl, [arg |-> a, strs |-> <<>>, rest |-> <<>>])
  BY <1>4, <1>5, <1>6, AlwaysServed
<1> QED
  BY <1>2, <1>3, <1>4, <1>7, PlainUnderstood

(* Concatenation is associative.                                           *)
LEMMA Associative ==
    ASSUME NEW u \in Seq(Int), NEW v \in Seq(Int), NEW w \in Seq(Int)
    PROVE  (u \o v) \o w = u \o (v \o w)
  OBVIOUS

(* A name in the middle of a message.                                      *)
LEMMA StrConcat ==
    ASSUME NEW name \in Seq(Nat \ {0})
    PROVE  /\ Str(name) \in Seq(Int) /\ <<>> \o Str(name) = Str(name)
           /\ \A s \in Seq(Int), t \in Seq(Int) : (s \o Str(name)) \o t = s \o (Str(name) \o t)
<1> DEFINE n == Str(name)
<1>1. n \in Seq(Int)
  BY DEF Str
<1> HIDE DEF n
<1>2. <<>> \o n = n
  BY <1>1
<1>3. ASSUME NEW s \in Seq(Int), NEW t \in Seq(Int) PROVE (s \o n) \o t = s \o (n \o t)
  BY <1>1, Associative
<1> QED
  BY <1>1, <1>2, <1>3 DEF n

(* LOOKUP is understood.                                                   *)
LEMMA LookupUnderstood ==
    ASSUME NEW ext, NEW acl, NEW x \in AskedArgs("LOOKUP")
    PROVE  Understood("LOOKUP", x, ext, acl)
<1> DEFINE data == <<>>
           strs == <<x[1]>>
<1>1. /\ x = <<x[1]>> /\ x[1] \in Seq(Nat \ {0})
  BY WireAssumption DEF AskedArgs, NameOps, PlainOps, UnservedOps
<1>2. Body("LOOKUP", x, ext, acl) = data \o Str(x[1])
  BY <1>1, StrConcat DEF Body, NameOps, UnservedOps, LockOps
<1>3. /\ data \in Seq(Int) /\ Len(data) = 0
  BY <1>1 DEF Ids
<1>4. /\ Struct("LOOKUP", ext) = <<>> /\ Len(<<>>) = 0 /\ Distinct(<<>>)
      /\ NameCount("LOOKUP") = 1 /\ "LOOKUP" \notin Checked
  BY StructsDistinct DEF Structs, Struct, Distinct, LockOps, NameCount, TwoNames, OneName, NameOps,
     Checked, UnservedOps
<1>5. strs[1] = x[1]
  OBVIOUS
<1> HIDE DEF data, strs
<1>6. ASSUME NEW a, Holds(<<>>, a, data)
      PROVE  LookupArgs(strs) = x
  <2> QED
    BY <1>1, <1>5, <1>6 DEF LookupArgs
<1>7. \A h, p : Args("LOOKUP", h, p) = LookupArgs(p.strs)
  <2> SUFFICES ASSUME NEW h, NEW p PROVE Args("LOOKUP", h, p) = LookupArgs(p.strs)
    OBVIOUS
  <2>1. Args("LOOKUP", h, p) = NodeArgs("LOOKUP", h, p)
    BY DEF Args, NodeOps, AccessOps, XattrOps, LockOps, LaterOps
  <2>2. NodeArgs("LOOKUP", h, p) = LookupArgs(p.strs)
    BY DEF NodeArgs
  <2> QED
    BY <2>1, <2>2
<1>8. \A a : Holds(<<>>, a, data) =>
            Reads("LOOKUP", x, acl, [arg |-> a, strs |-> strs, rest |-> <<>>])
  BY <1>4, <1>6, <1>7, AlwaysServed
<1> QED
  BY <1>1, <1>2, <1>3, <1>4, <1>8, NamedUnderstood DEF strs

(* UNLINK is understood.                                                   *)
LEMMA UnlinkUnderstood ==
    ASSUME NEW ext, NEW acl, NEW x \in AskedArgs("UNLINK")
    PROVE  Understood("UNLINK", x, ext, acl)
<1> DEFINE data == <<>>
           strs == <<x[1]>>
<1>1. /\ x = <<x[1]>> /\ x[1] \in Seq(Nat \ {0})
  BY WireAssumption DEF AskedArgs, NameOps, PlainOps, UnservedOps
<1>2. Body("UNLINK", x, ext, acl) = data \o Str(x[1])
  BY <1>1, StrConcat DEF Body, NameOps, UnservedOps, LockOps
<1>3. /\ data \in Seq(Int) /\ Len(data) = 0
  BY <1>1 DEF Ids
<1>4. /\ Struct("UNLINK", ext) = <<>> /\ Len(<<>>) = 0 /\ Distinct(<<>>)
      /\ NameCount("UNLINK") = 1 /\ "UNLINK" \notin Checked
  BY StructsDistinct DEF Structs, Struct, Distinct, LockOps, NameCount, TwoNames, OneName, NameOps,
     Checked, UnservedOps
<1>5. strs[1] = x[1]
  OBVIOUS
<1> HIDE DEF data, strs
<1>6. ASSUME NEW a, Holds(<<>>, a, data)
      PROVE  LookupArgs(strs) = x
  <2> QED
    BY <1>1, <1>5, <1>6 DEF LookupArgs
<1>7. \A h, p : Args("UNLINK", h, p) = LookupArgs(p.strs)
  <2> SUFFICES ASSUME NEW h, NEW p PROVE Args("UNLINK", h, p) = LookupArgs(p.strs)
    OBVIOUS
  <2>1. Args("UNLINK", h, p) = NodeArgs("UNLINK", h, p)
    BY DEF Args, NodeOps, AccessOps, XattrOps, LockOps, LaterOps
  <2>2. NodeArgs("UNLINK", h, p) = LookupArgs(p.strs)
    BY DEF NodeArgs
  <2> QED
    BY <2>1, <2>2
<1>8. \A a : Holds(<<>>, a, data) =>
            Reads("UNLINK", x, acl, [arg |-> a, strs |-> strs, rest |-> <<>>])
  BY <1>4, <1>6, <1>7, AlwaysServed
<1> QED
  BY <1>1, <1>2, <1>3, <1>4, <1>8, NamedUnderstood DEF strs

(* RMDIR is understood.                                                    *)
LEMMA RmDirUnderstood ==
    ASSUME NEW ext, NEW acl, NEW x \in AskedArgs("RMDIR")
    PROVE  Understood("RMDIR", x, ext, acl)
<1> DEFINE data == <<>>
           strs == <<x[1]>>
<1>1. /\ x = <<x[1]>> /\ x[1] \in Seq(Nat \ {0})
  BY WireAssumption DEF AskedArgs, NameOps, PlainOps, UnservedOps
<1>2. Body("RMDIR", x, ext, acl) = data \o Str(x[1])
  BY <1>1, StrConcat DEF Body, NameOps, UnservedOps, LockOps
<1>3. /\ data \in Seq(Int) /\ Len(data) = 0
  BY <1>1 DEF Ids
<1>4. /\ Struct("RMDIR", ext) = <<>> /\ Len(<<>>) = 0 /\ Distinct(<<>>)
      /\ NameCount("RMDIR") = 1 /\ "RMDIR" \notin Checked
  BY StructsDistinct DEF Structs, Struct, Distinct, LockOps, NameCount, TwoNames, OneName, NameOps,
     Checked, UnservedOps
<1>5. strs[1] = x[1]
  OBVIOUS
<1> HIDE DEF data, strs
<1>6. ASSUME NEW a, Holds(<<>>, a, data)
      PROVE  LookupArgs(strs) = x
  <2> QED
    BY <1>1, <1>5, <1>6 DEF LookupArgs
<1>7. \A h, p : Args("RMDIR", h, p) = LookupArgs(p.strs)
  <2> SUFFICES ASSUME NEW h, NEW p PROVE Args("RMDIR", h, p) = LookupArgs(p.strs)
    OBVIOUS
  <2>1. Args("RMDIR", h, p) = NodeArgs("RMDIR", h, p)
    BY DEF Args, NodeOps, AccessOps, XattrOps, LockOps, LaterOps
  <2>2. NodeArgs("RMDIR", h, p) = LookupArgs(p.strs)
    BY DEF NodeArgs
  <2> QED
    BY <2>1, <2>2
<1>8. \A a : Holds(<<>>, a, data) =>
            Reads("RMDIR", x, acl, [arg |-> a, strs |-> strs, rest |-> <<>>])
  BY <1>4, <1>6, <1>7, AlwaysServed
<1> QED
  BY <1>1, <1>2, <1>3, <1>4, <1>8, NamedUnderstood DEF strs

(* REMOVEXATTR is understood.                                              *)
LEMMA RemoveXAttrUnderstood ==
    ASSUME NEW ext, NEW acl, NEW x \in AskedArgs("REMOVEXATTR")
    PROVE  Understood("REMOVEXATTR", x, ext, acl)
<1> DEFINE data == <<>>
           strs == <<x[1]>>
<1>1. /\ x = <<x[1]>> /\ x[1] \in Seq(Nat \ {0})
  BY WireAssumption DEF AskedArgs, NameOps, PlainOps, UnservedOps
<1>2. Body("REMOVEXATTR", x, ext, acl) = data \o Str(x[1])
  BY <1>1, StrConcat DEF Body, NameOps, UnservedOps, LockOps
<1>3. /\ data \in Seq(Int) /\ Len(data) = 0
  BY <1>1 DEF Ids
<1>4. /\ Struct("REMOVEXATTR", ext) = <<>> /\ Len(<<>>) = 0 /\ Distinct(<<>>)
      /\ NameCount("REMOVEXATTR") = 1 /\ "REMOVEXATTR" \notin Checked
  BY StructsDistinct DEF Structs, Struct, Distinct, LockOps, NameCount, TwoNames, OneName, NameOps,
     Checked, UnservedOps
<1>5. strs[1] = x[1]
  OBVIOUS
<1> HIDE DEF data, strs
<1>6. ASSUME NEW a, Holds(<<>>, a, data)
      PROVE  RemoveXAttrArgs(strs) = x
  <2> QED
    BY <1>1, <1>5, <1>6 DEF RemoveXAttrArgs
<1>7. \A h, p : Args("REMOVEXATTR", h, p) = RemoveXAttrArgs(p.strs)
  <2> SUFFICES ASSUME NEW h, NEW p PROVE Args("REMOVEXATTR", h, p) = RemoveXAttrArgs(p.strs)
    OBVIOUS
  <2>1. Args("REMOVEXATTR", h, p) = AccessArmArgs("REMOVEXATTR", p)
    BY DEF Args, NodeOps, AccessOps, XattrOps, LockOps, LaterOps
  <2>2. AccessArmArgs("REMOVEXATTR", p) = RemoveXAttrArgs(p.strs)
    BY DEF AccessArmArgs
  <2> QED
    BY <2>1, <2>2
<1>8. \A a : Holds(<<>>, a, data) =>
            Reads("REMOVEXATTR", x, acl, [arg |-> a, strs |-> strs, rest |-> <<>>])
  BY <1>4, <1>6, <1>7, AlwaysServed
<1> QED
  BY <1>1, <1>2, <1>3, <1>4, <1>8, NamedUnderstood DEF strs

(* MKNOD is understood.                                                    *)
LEMMA MkNodUnderstood ==
    ASSUME NEW ext, NEW acl, NEW x \in AskedArgs("MKNOD")
    PROVE  Understood("MKNOD", x, ext, acl)
<1> DEFINE data == <<x[2], x[4], x[3], 0>>
           strs == <<x[1]>>
<1>1. /\ x = <<x[1], x[2], x[3], x[4]>> /\ x[1] \in Seq(Nat \ {0}) /\ x[2] \in Ids
      /\ x[3] \in Ids /\ x[4] \in Ids
  BY WireAssumption DEF AskedArgs
<1>2. Body("MKNOD", x, ext, acl) = data \o Str(x[1])
  BY <1>1 DEF Body, NameOps, UnservedOps, LockOps
<1>3. /\ data \in Seq(Int) /\ Len(data) = 4 /\ data[1] = x[2] /\ data[2] = x[4]
      /\ data[3] = x[3]
  BY <1>1 DEF Ids
<1>4. /\ Struct("MKNOD", ext) = fuse_mknod_in /\ Len(fuse_mknod_in) = 4 /\ Distinct(fuse_mknod_in)
      /\ NameCount("MKNOD") = 1 /\ "MKNOD" \notin Checked
  BY StructsDistinct DEF Structs, Struct, fuse_mknod_in, LockOps, NameCount, TwoNames, OneName, NameOps,
     Checked, UnservedOps
<1>5. strs[1] = x[1]
  OBVIOUS
<1> HIDE DEF data, strs
<1>6. ASSUME NEW a, Holds(fuse_mknod_in, a, data)
      PROVE  MkNodArgs(a, strs) = x
  <2>1. /\ a.mode = x[2] /\ a.rdev = x[4] /\ a.umask = x[3]
    <3>1. /\ a[fuse_mknod_in[1]] = data[1] /\ a[fuse_mknod_in[2]] = data[2]
          /\ a[fuse_mknod_in[3]] = data[3]
      BY <1>4, <1>6 DEF Holds
    <3> QED
      BY <1>3, <3>1 DEF fuse_mknod_in
  <2> QED
    BY <1>1, <1>5, <1>6, <2>1 DEF MkNodArgs
<1>7. \A h, p : Args("MKNOD", h, p) = MkNodArgs(p.arg, p.strs)
  <2> SUFFICES ASSUME NEW h, NEW p PROVE Args("MKNOD", h, p) = MkNodArgs(p.arg, p.strs)
    OBVIOUS
  <2>1. Args("MKNOD", h, p) = NodeArgs("MKNOD", h, p)
    BY DEF Args, NodeOps, AccessOps, XattrOps, LockOps, LaterOps
  <2>2. NodeArgs("MKNOD", h, p) = MkNodArgs(p.arg, p.strs)
    BY DEF NodeArgs
  <2> QED
    BY <2>1, <2>2
<1>8. \A a : Holds(fuse_mknod_in, a, data) =>
            Reads("MKNOD", x, acl, [arg |-> a, strs |-> strs, rest |-> <<>>])
  BY <1>4, <1>6, <1>7, AlwaysServed
<1> QED
  BY <1>1, <1>2, <1>3, <1>4, <1>8, NamedUnderstood DEF strs

(* MKDIR is understood.                                                    *)
LEMMA MkDirUnderstood ==
    ASSUME NEW ext, NEW acl, NEW x \in AskedArgs("MKDIR")
    PROVE  Understood("MKDIR", x, ext, acl)
<1> DEFINE data == <<x[2], x[3]>>
           strs == <<x[1]>>
<1>1. /\ x = <<x[1], x[2], x[3]>> /\ x[1] \in Seq(Nat \ {0}) /\ x[2] \in Ids /\ x[3] \in Ids
  BY WireAssumption DEF AskedArgs
<1>2. Body("MKDIR", x, ext, acl) = data \o Str(x[1])
  BY <1>1 DEF Body, NameOps, UnservedOps, LockOps
<1>3. /\ data \in Seq(Int) /\ Len(data) = 2 /\ data[1] = x[2] /\ data[2] = x[3]
  BY <1>1 DEF Ids
<1>4. /\ Struct("MKDIR", ext) = fuse_mkdir_in /\ Len(fuse_mkdir_in) = 2 /\ Distinct(fuse_mkdir_in)
      /\ NameCount("MKDIR") = 1 /\ "MKDIR" \notin Checked
  BY StructsDistinct DEF Structs, Struct, fuse_mkdir_in, LockOps, NameCount, TwoNames, OneName, NameOps,
     Checked, UnservedOps
<1>5. strs[1] = x[1]
  OBVIOUS
<1> HIDE DEF data, strs
<1>6. ASSUME NEW a, Holds(fuse_mkdir_in, a, data)
      PROVE  MkDirArgs(a, strs) = x
  <2>1. /\ a.mode = x[2] /\ a.umask = x[3]
    <3>1. /\ a[fuse_mkdir_in[1]] = data[1] /\ a[fuse_mkdir_in[2]] = data[2]
      BY <1>4, <1>6 DEF Holds
    <3> QED
      BY <1>3, <3>1 DEF fuse_mkdir_in
  <2> QED
    BY <1>1, <1>5, <1>6, <2>1 DEF MkDirArgs
<1>7. \A h, p : Args("MKDIR", h, p) = MkDirArgs(p.arg, p.strs)
  <2> SUFFICES ASSUME NEW h, NEW p PROVE Args("MKDIR", h, p) = MkDirArgs(p.arg, p.strs)
    OBVIOUS
  <2>1. Args("MKDIR", h, p) = NodeArgs("MKDIR", h, p)
    BY DEF Args, NodeOps, AccessOps, XattrOps, LockOps, LaterOps
  <2>2. NodeArgs("MKDIR", h, p) = MkDirArgs(p.arg, p.strs)
    BY DEF NodeArgs
  <2> QED
    BY <2>1, <2>2
<1>8. \A a : Holds(fuse_mkdir_in, a, data) =>
            Reads("MKDIR", x, acl, [arg |-> a, strs |-> strs, rest |-> <<>>])
  BY <1>4, <1>6, <1>7, AlwaysServed
<1> QED
  BY <1>1, <1>2, <1>3, <1>4, <1>8, NamedUnderstood DEF strs

(* LINK is understood.                                                     *)
LEMMA LinkUnderstood ==
    ASSUME NEW ext, NEW acl, NEW x \in AskedArgs("LINK")
    PROVE  Understood("LINK", x, ext, acl)
<1> DEFINE data == <<x[1]>>
           strs == <<x[3]>>
<1>1. /\ x = <<x[1], x[2], x[3]>> /\ x[3] \in Seq(Nat \ {0}) /\ x[2] = 0 /\ x[1] \in Ids
  BY WireAssumption DEF AskedArgs
<1>2. Body("LINK", x, ext, acl) = data \o Str(x[3])
  BY <1>1 DEF Body, NameOps, UnservedOps, LockOps
<1>3. /\ data \in Seq(Int) /\ Len(data) = 1 /\ data[1] = x[1]
  BY <1>1 DEF Ids
<1>4. /\ Struct("LINK", ext) = fuse_link_in /\ Len(fuse_link_in) = 1 /\ Distinct(fuse_link_in)
      /\ NameCount("LINK") = 1 /\ "LINK" \notin Checked
  BY StructsDistinct DEF Structs, Struct, fuse_link_in, LockOps, NameCount, TwoNames, OneName, NameOps,
     Checked, UnservedOps
<1>5. strs[1] = x[3]
  OBVIOUS
<1> HIDE DEF data, strs
<1>6. ASSUME NEW a, Holds(fuse_link_in, a, data), NEW h, h.nodeid = 0
      PROVE  LinkArgs(h, a, strs) = x
  <2>1. a.oldnodeid = x[1]
    <3>1. a[fuse_link_in[1]] = data[1]
      BY <1>4, <1>6 DEF Holds
    <3> QED
      BY <1>3, <3>1 DEF fuse_link_in
  <2> QED
    BY <1>1, <1>5, <1>6, <2>1 DEF LinkArgs
<1>7. \A h, p : Args("LINK", h, p) = LinkArgs(h, p.arg, p.strs)
  <2> SUFFICES ASSUME NEW h, NEW p PROVE Args("LINK", h, p) = LinkArgs(h, p.arg, p.strs)
    OBVIOUS
  <2>1. Args("LINK", h, p) = NodeArgs("LINK", h, p)
    BY DEF Args, NodeOps, AccessOps, XattrOps, LockOps, LaterOps
  <2>2. NodeArgs("LINK", h, p) = LinkArgs(h, p.arg, p.strs)
    BY DEF NodeArgs
  <2> QED
    BY <2>1, <2>2
<1>8. \A a : Holds(fuse_link_in, a, data) =>
            Reads("LINK", x, acl, [arg |-> a, strs |-> strs, rest |-> <<>>])
  BY <1>4, <1>6, <1>7, AlwaysServed
<1> QED
  BY <1>1, <1>2, <1>3, <1>4, <1>8, NamedUnderstood DEF strs

(* GETXATTR is understood.                                                 *)
LEMMA GetXAttrUnderstood ==
    ASSUME NEW ext, NEW acl, NEW x \in AskedArgs("GETXATTR")
    PROVE  Understood("GETXATTR", x, ext, acl)
<1> DEFINE data == <<x[2], 0>>
           strs == <<x[1]>>
<1>1. /\ x = <<x[1], x[2]>> /\ x[1] \in Seq(Nat \ {0}) /\ x[2] \in Ids
  BY WireAssumption DEF AskedArgs
<1>2. Body("GETXATTR", x, ext, acl) = data \o Str(x[1])
  BY <1>1 DEF Body, NameOps, UnservedOps, LockOps
<1>3. /\ data \in Seq(Int) /\ Len(data) = 2 /\ data[1] = x[2]
  BY <1>1 DEF Ids
<1>4. /\ Struct("GETXATTR", ext) = fuse_getxattr_in /\ Len(fuse_getxattr_in) = 2 /\ Distinct(fuse_getxattr_in)
      /\ NameCount("GETXATTR") = 1 /\ "GETXATTR" \notin Checked
  BY StructsDistinct DEF Structs, Struct, fuse_getxattr_in, LockOps, NameCount, TwoNames, OneName,
     NameOps, Checked, UnservedOps
<1>5. strs[1] = x[1]
  OBVIOUS
<1> HIDE DEF data, strs
<1>6. ASSUME NEW a, Holds(fuse_getxattr_in, a, data)
      PROVE  GetXAttrArgs(a, strs) = x
  <2>1. a.size = x[2]
    <3>1. a[fuse_getxattr_in[1]] = data[1]
      BY <1>4, <1>6 DEF Holds
    <3> QED
      BY <1>3, <3>1 DEF fuse_getxattr_in
  <2> QED
    BY <1>1, <1>5, <1>6, <2>1 DEF GetXAttrArgs
<1>7. \A h, p : Args("GETXATTR", h, p) = GetXAttrArgs(p.arg, p.strs)
  <2> SUFFICES ASSUME NEW h, NEW p PROVE Args("GETXATTR", h, p) = GetXAttrArgs(p.arg, p.strs)
    OBVIOUS
  <2>1. Args("GETXATTR", h, p) = AccessArmArgs("GETXATTR", p)
    BY DEF Args, NodeOps, AccessOps, XattrOps, LockOps, LaterOps
  <2>2. AccessArmArgs("GETXATTR", p) = GetXAttrArgs(p.arg, p.strs)
    BY DEF AccessArmArgs
  <2> QED
    BY <2>1, <2>2
<1>8. \A a : Holds(fuse_getxattr_in, a, data) =>
            Reads("GETXATTR", x, acl, [arg |-> a, strs |-> strs, rest |-> <<>>])
  BY <1>4, <1>6, <1>7, AlwaysServed
<1> QED
  BY <1>1, <1>2, <1>3, <1>4, <1>8, NamedUnderstood DEF strs

(* CREATE is understood.                                                   *)
LEMMA CreateUnderstood ==
    ASSUME NEW ext, NEW acl, NEW x \in AskedArgs("CREATE")
    PROVE  Understood("CREATE", x, ext, acl)
<1> DEFINE data == <<x[4], x[2], x[3], Flag(OPEN_KILL_SUIDGID, x[5])>>
           strs == <<x[1]>>
<1>1. /\ x = <<x[1], x[2], x[3], x[4], x[5]>> /\ x[1] \in Seq(Nat \ {0}) /\ x[2] \in Ids
      /\ x[3] \in Ids /\ x[4] \in Ids /\ x[5] \in BOOLEAN
  BY WireAssumption DEF AskedArgs
<1>2. Body("CREATE", x, ext, acl) = data \o Str(x[1])
  BY <1>1 DEF Body, NameOps, UnservedOps, LockOps
<1>3. /\ data \in Seq(Int) /\ Len(data) = 4 /\ data[1] = x[4] /\ data[2] = x[2]
      /\ data[3] = x[3] /\ data[4] = Flag(OPEN_KILL_SUIDGID, x[5])
  BY <1>1 DEF Ids, Flag, OPEN_KILL_SUIDGID
<1>4. /\ Struct("CREATE", ext) = fuse_create_in /\ Len(fuse_create_in) = 4 /\ Distinct(fuse_create_in)
      /\ NameCount("CREATE") = 1 /\ "CREATE" \notin Checked
  BY StructsDistinct DEF Structs, Struct, fuse_create_in, LockOps, NameCount, TwoNames, OneName,
     NameOps, Checked, UnservedOps
<1>5. strs[1] = x[1]
  OBVIOUS
<1> HIDE DEF data, strs
<1>6. ASSUME NEW a, Holds(fuse_create_in, a, data)
      PROVE  CreateArgs(a, strs) = x
  <2>1. /\ a.flags = x[4] /\ a.mode = x[2] /\ a.umask = x[3]
        /\ a.open_flags = Flag(OPEN_KILL_SUIDGID, x[5])
    <3>1. /\ a[fuse_create_in[1]] = data[1] /\ a[fuse_create_in[2]] = data[2]
          /\ a[fuse_create_in[3]] = data[3] /\ a[fuse_create_in[4]] = data[4]
      BY <1>4, <1>6 DEF Holds
    <3> QED
      BY <1>3, <3>1 DEF fuse_create_in
  <2> QED
    BY <1>1, <1>5, <1>6, <2>1 DEF CreateArgs, contains, Flag, OPEN_KILL_SUIDGID
<1>7. \A h, p : Args("CREATE", h, p) = CreateArgs(p.arg, p.strs)
  <2> SUFFICES ASSUME NEW h, NEW p PROVE Args("CREATE", h, p) = CreateArgs(p.arg, p.strs)
    OBVIOUS
  <2>1. Args("CREATE", h, p) = AccessArmArgs("CREATE", p)
    BY DEF Args, NodeOps, AccessOps, XattrOps, LockOps, LaterOps
  <2>2. AccessArmArgs("CREATE", p) = CreateArgs(p.arg, p.strs)
    BY DEF AccessArmArgs
  <2> QED
    BY <2>1, <2>2
<1>8. \A a : Holds(fuse_create_in, a, data) =>
            Reads("CREATE", x, acl, [arg |-> a, strs |-> strs, rest |-> <<>>])
  BY <1>4, <1>6, <1>7, AlwaysServed
<1> QED
  BY <1>1, <1>2, <1>3, <1>4, <1>8, NamedUnderstood DEF strs

(* SYMLINK is understood.                                                  *)
LEMMA SymLinkUnderstood ==
    ASSUME NEW ext, NEW acl, NEW x \in AskedArgs("SYMLINK")
    PROVE  Understood("SYMLINK", x, ext, acl)
<1> DEFINE data == <<>>
           strs == <<x[1], x[2]>>
<1>1. /\ x = <<x[1], x[2]>> /\ x[1] \in Seq(Nat \ {0}) /\ x[2] \in Seq(Nat \ {0})
  BY WireAssumption DEF AskedArgs
<1>2. Body("SYMLINK", x, ext, acl) = data \o (Str(x[1]) \o Str(x[2]))
  BY <1>1, StrConcat DEF Body, NameOps, UnservedOps, LockOps
<1>3. /\ data \in Seq(Int) /\ Len(data) = 0
  BY <1>1 DEF Ids
<1>4. /\ Struct("SYMLINK", ext) = <<>> /\ Len(<<>>) = 0 /\ Distinct(<<>>)
      /\ NameCount("SYMLINK") = 2 /\ "SYMLINK" \notin Checked
  BY StructsDistinct DEF Structs, Struct, Distinct, LockOps, NameCount, TwoNames, OneName, NameOps,
     Checked, UnservedOps
<1>5. strs[1] = x[1] /\ strs[2] = x[2]
  OBVIOUS
<1> HIDE DEF data, strs
<1>6. ASSUME NEW a, Holds(<<>>, a, data)
      PROVE  SymLinkArgs(strs) = x
  <2> QED
    BY <1>1, <1>5, <1>6 DEF SymLinkArgs
<1>7. \A h, p : Args("SYMLINK", h, p) = SymLinkArgs(p.strs)
  <2> SUFFICES ASSUME NEW h, NEW p PROVE Args("SYMLINK", h, p) = SymLinkArgs(p.strs)
    OBVIOUS
  <2>1. Args("SYMLINK", h, p) = NodeArgs("SYMLINK", h, p)
    BY DEF Args, NodeOps, AccessOps, XattrOps, LockOps, LaterOps
  <2>2. NodeArgs("SYMLINK", h, p) = SymLinkArgs(p.strs)
    BY DEF NodeArgs
  <2> QED
    BY <2>1, <2>2
<1>8. \A a : Holds(<<>>, a, data) =>
            Reads("SYMLINK", x, acl, [arg |-> a, strs |-> strs, rest |-> <<>>])
  BY <1>4, <1>6, <1>7, AlwaysServed
<1> QED
  BY <1>1, <1>2, <1>3, <1>4, <1>8, RenamedUnderstood DEF strs

(* RENAME is understood.                                                   *)
LEMMA RenameUnderstood ==
    ASSUME NEW ext, NEW acl, NEW x \in AskedArgs("RENAME")
    PROVE  Understood("RENAME", x, ext, acl)
<1> DEFINE data == <<x[2]>>
           strs == <<x[1], x[3]>>
<1>1. /\ x = <<x[1], x[2], x[3], x[4]>> /\ x[1] \in Seq(Nat \ {0}) /\ x[3] \in Seq(Nat \ {0})
      /\ x[4] = 0 /\ x[2] \in Ids
  BY WireAssumption DEF AskedArgs
<1>2. Body("RENAME", x, ext, acl) = data \o (Str(x[1]) \o Str(x[3]))
  BY <1>1, StrConcat DEF Body, NameOps, UnservedOps, LockOps
<1>3. /\ data \in Seq(Int) /\ Len(data) = 1 /\ data[1] = x[2]
  BY <1>1 DEF Ids
<1>4. /\ Struct("RENAME", ext) = fuse_rename_in /\ Len(fuse_rename_in) = 1 /\ Distinct(fuse_rename_in)
      /\ NameCount("RENAME") = 2 /\ "RENAME" \notin Checked
  BY StructsDistinct DEF Structs, Struct, fuse_rename_in, LockOps, NameCount, TwoNames, OneName,
     NameOps, Checked, UnservedOps
<1>5. strs[1] = x[1] /\ strs[2] = x[3]
  OBVIOUS
<1> HIDE DEF data, strs
<1>6. ASSUME NEW a, Holds(fuse_rename_in, a, data)
      PROVE  RenameArgs(a, strs) = x
  <2>1. a.newdir = x[2]
    <3>1. a[fuse_rename_in[1]] = data[1]
      BY <1>4, <1>6 DEF Holds
    <3> QED
      BY <1>3, <3>1 DEF fuse_rename_in
  <2> QED
    BY <1>1, <1>5, <1>6, <2>1 DEF RenameArgs
<1>7. \A h, p : Args("RENAME", h, p) = RenameArgs(p.arg, p.strs)
  <2> SUFFICES ASSUME NEW h, NEW p PROVE Args("RENAME", h, p) = RenameArgs(p.arg, p.strs)
    OBVIOUS
  <2>1. Args("RENAME", h, p) = NodeArgs("RENAME", h, p)
    BY DEF Args, NodeOps, AccessOps, XattrOps, LockOps, LaterOps
  <2>2. NodeArgs("RENAME", h, p) = RenameArgs(p.arg, p.strs)
    BY DEF NodeArgs
  <2> QED
    BY <2>1, <2>2
<1>8. \A a : Holds(fuse_rename_in, a, data) =>
            Reads("RENAME", x, acl, [arg |-> a, strs |-> strs, rest |-> <<>>])
  BY <1>4, <1>6, <1>7, AlwaysServed
<1> QED
  BY <1>1, <1>2, <1>3, <1>4, <1>8, RenamedUnderstood DEF strs

(* TMPFILE is understood.                                                  *)
LEMMA TmpFileUnderstood ==
    ASSUME NEW ext, NEW acl, NEW x \in AskedArgs("TMPFILE")
    PROVE  Understood("TMPFILE", x, ext, acl)
<1> DEFINE data == <<x[3], x[1], x[2], Flag(OPEN_KILL_SUIDGID, x[4])>>
           strs == <<<<1>>>>
<1>1. /\ x = <<x[1], x[2], x[3], x[4]>> /\ x[1] \in Ids /\ x[2] \in Ids /\ x[3] \in Ids
      /\ x[4] \in BOOLEAN /\ <<1>> \in Seq(Nat \ {0})
  BY WireAssumption DEF AskedArgs
<1>2. Body("TMPFILE", x, ext, acl) = data \o Str(<<1>>)
  BY <1>1 DEF Body, NameOps, UnservedOps, LockOps
<1>3. /\ data \in Seq(Int) /\ Len(data) = 4 /\ data[1] = x[3] /\ data[2] = x[1]
      /\ data[3] = x[2] /\ data[4] = Flag(OPEN_KILL_SUIDGID, x[4])
  BY <1>1 DEF Ids, Flag, OPEN_KILL_SUIDGID
<1>4. /\ Struct("TMPFILE", ext) = fuse_create_in /\ Len(fuse_create_in) = 4 /\ Distinct(fuse_create_in)
      /\ NameCount("TMPFILE") = 1 /\ "TMPFILE" \notin Checked
  BY StructsDistinct DEF Structs, Struct, fuse_create_in, LockOps, NameCount, TwoNames, OneName,
     NameOps, Checked, UnservedOps
<1>5. strs[1] = <<1>>
  OBVIOUS
<1> HIDE DEF data, strs
<1>6. ASSUME NEW a, Holds(fuse_create_in, a, data)
      PROVE  TmpFileArgs(a) = x
  <2>1. /\ a.flags = x[3] /\ a.mode = x[1] /\ a.umask = x[2]
        /\ a.open_flags = Flag(OPEN_KILL_SUIDGID, x[4])
    <3>1. /\ a[fuse_create_in[1]] = data[1] /\ a[fuse_create_in[2]] = data[2]
          /\ a[fuse_create_in[3]] = data[3] /\ a[fuse_create_in[4]] = data[4]
      BY <1>4, <1>6 DEF Holds
    <3> QED
      BY <1>3, <3>1 DEF fuse_create_in
  <2> QED
    BY <1>1, <1>5, <1>6, <2>1 DEF TmpFileArgs, contains, Flag, OPEN_KILL_SUIDGID
<1>7. \A h, p : Args("TMPFILE", h, p) = TmpFileArgs(p.arg)
  <2> SUFFICES ASSUME NEW h, NEW p PROVE Args("TMPFILE", h, p) = TmpFileArgs(p.arg)
    OBVIOUS
  <2>1. Args("TMPFILE", h, p) = LaterArgs("TMPFILE", h, p)
    BY DEF Args, NodeOps, AccessOps, XattrOps, LockOps, LaterOps
  <2>2. LaterArgs("TMPFILE", h, p) = TmpFileArgs(p.arg)
    BY DEF LaterArgs
  <2> QED
    BY <2>1, <2>2
<1>8. \A a : Holds(fuse_create_in, a, data) =>
            Reads("TMPFILE", x, acl, [arg |-> a, strs |-> strs, rest |-> <<>>])
  BY <1>4, <1>6, <1>7, AlwaysServed
<1> QED
  BY <1>1, <1>2, <1>3, <1>4, <1>8, NamedUnderstood DEF strs

(* RENAME2 is understood.                                                  *)
LEMMA Rename2Understood ==
    ASSUME NEW ext, NEW acl, NEW x \in AskedArgs("RENAME2")
    PROVE  Understood("RENAME2", x, ext, acl)
<1> DEFINE data == <<x[2], x[4], 0>>
           strs == <<x[1], x[3]>>
<1>1. /\ x = <<x[1], x[2], x[3], x[4]>> /\ x[1] \in Seq(Nat \ {0}) /\ x[3] \in Seq(Nat \ {0})
      /\ x[4] \in 1 .. 5 /\ x[2] \in Ids
  BY WireAssumption DEF AskedArgs
<1>2. Body("RENAME2", x, ext, acl) = data \o (Str(x[1]) \o Str(x[3]))
  BY <1>1, StrConcat DEF Body, NameOps, UnservedOps, LockOps
<1>3. /\ data \in Seq(Int) /\ Len(data) = 3 /\ data[1] = x[2] /\ data[2] = x[4]
  BY <1>1 DEF Ids
<1>4. /\ Struct("RENAME2", ext) = fuse_rename2_in /\ Len(fuse_rename2_in) = 3 /\ Distinct(fuse_rename2_in)
      /\ NameCount("RENAME2") = 2 /\ "RENAME2" \notin Checked
  BY StructsDistinct DEF Structs, Struct, fuse_rename2_in, LockOps, NameCount, TwoNames, OneName,
     NameOps, Checked, UnservedOps
<1>5. strs[1] = x[1] /\ strs[2] = x[3]
  OBVIOUS
<1> HIDE DEF data, strs
<1>6. ASSUME NEW a, Holds(fuse_rename2_in, a, data)
      PROVE  Rename2Args(a, strs) = x /\ a.flags = x[4]
  <2>1. /\ a.newdir = x[2] /\ a.flags = x[4]
    <3>1. /\ a[fuse_rename2_in[1]] = data[1] /\ a[fuse_rename2_in[2]] = data[2]
      BY <1>4, <1>6 DEF Holds
    <3> QED
      BY <1>3, <3>1 DEF fuse_rename2_in
  <2> QED
    BY <1>1, <1>5, <1>6, <2>1 DEF Rename2Args
<1>7. \A h, p : Args("RENAME2", h, p) = Rename2Args(p.arg, p.strs)
  <2> SUFFICES ASSUME NEW h, NEW p PROVE Args("RENAME2", h, p) = Rename2Args(p.arg, p.strs)
    OBVIOUS
  <2>1. Args("RENAME2", h, p) = LaterArgs("RENAME2", h, p)
    BY DEF Args, NodeOps, AccessOps, XattrOps, LockOps, LaterOps
  <2>2. LaterArgs("RENAME2", h, p) = Rename2Args(p.arg, p.strs)
    BY DEF LaterArgs
  <2> QED
    BY <2>1, <2>2
<1>8. \A a : Holds(fuse_rename2_in, a, data) =>
            Reads("RENAME2", x, acl, [arg |-> a, strs |-> strs, rest |-> <<>>])
  BY <1>4, <1>6, <1>7, AlwaysServed
<1> QED
  BY <1>1, <1>2, <1>3, <1>4, <1>8, RenamedUnderstood DEF strs

(* FALLOCATE is understood.                                                *)
LEMMA FAllocateUnderstood ==
    ASSUME NEW ext, NEW acl, NEW x \in AskedArgs("FALLOCATE")
    PROVE  Understood("FALLOCATE", x, ext, acl)
<1> DEFINE data == <<x[1], x[2], x[3], x[4], 0>>
<1>1. /\ x = <<x[1], x[2], x[3], x[4]>> /\ x[1] \in Ids /\ x[4] \in Ids /\ x[2] \in Int
      /\ x[3] \in Int
  BY TimesAssumption DEF AskedArgs, Offs
<1>2. Body("FALLOCATE", x, ext, acl) = data
  BY <1>1 DEF Body, NameOps, UnservedOps, LockOps
<1>3. /\ data \in Seq(Int) /\ Len(data) = 5 /\ data[1] = x[1] /\ data[2] = x[2]
      /\ data[3] = x[3] /\ data[4] = x[4]
  BY <1>1 DEF Ids
<1>4. /\ Struct("FALLOCATE", ext) = fuse_fallocate_in /\ Len(fuse_fallocate_in) = 5 /\ Distinct(fuse_fallocate_in)
      /\ NameCount("FALLOCATE") = 0
  BY StructsDistinct DEF Structs, Struct, fuse_fallocate_in, LockOps, NameCount, TwoNames, OneName, NameOps
<1> HIDE DEF data
<1>5. ASSUME NEW a, Holds(fuse_fallocate_in, a, data)
      PROVE  /\ a.fh = x[1] /\ a.offset = x[2] /\ a.length = x[3] /\ a.mode = x[4]
  <2>1. /\ a[fuse_fallocate_in[1]] = data[1] /\ a[fuse_fallocate_in[2]] = data[2]
        /\ a[fuse_fallocate_in[3]] = data[3] /\ a[fuse_fallocate_in[4]] = data[4]
    BY <1>4, <1>5 DEF Holds
  <2> QED
    BY <1>3, <2>1 DEF fuse_fallocate_in
<1>6. \A h, p : Args("FALLOCATE", h, p) = FAllocateArgs(p.arg)
  <2> SUFFICES ASSUME NEW h, NEW p PROVE Args("FALLOCATE", h, p) = FAllocateArgs(p.arg)
    OBVIOUS
  <2>1. Args("FALLOCATE", h, p) = LaterArgs("FALLOCATE", h, p)
    BY DEF Args, NodeOps, AccessOps, XattrOps, LockOps, LaterOps
  <2>2. LaterArgs("FALLOCATE", h, p) = FAllocateArgs(p.arg)
    BY DEF LaterArgs
  <2> QED
    BY <2>1, <2>2
<1>7. ASSUME NEW a, Holds(fuse_fallocate_in, a, data)
      PROVE  Reads("FALLOCATE", x, acl, [arg |-> a, strs |-> <<>>, rest |-> <<>>])
  <2> DEFINE p == [arg |-> a, strs |-> <<>>, rest |-> <<>>]
  <2>1. p.arg = a /\ p.rest = <<>>
    OBVIOUS
  <2> HIDE DEF p
  <2>2. Refused("FALLOCATE", a) = Unservable("FALLOCATE", x, acl)
    BY <1>1, <1>5, <1>7 DEF Refused, UnservedOps, Offsets, validate_off_t, Unservable, When
  <2>3. ~ParsePanics("FALLOCATE", p)
    BY <1>1, <1>5, <1>7, <2>1 DEF ParsePanics
  <2>4. ASSUME NEW h, h.nodeid = 0 PROVE FAllocateArgs(p.arg) = x
    BY <1>1, <1>5, <1>7, <2>1, <2>4 DEF FAllocateArgs
  <2> QED
    BY <1>6, <2>1, <2>2, <2>3, <2>4 DEF Reads, p
<1> QED
  BY <1>1, <1>2, <1>3, <1>4, <1>7, PlainUnderstood

(* COPY_FILE_RANGE is understood.                                          *)
LEMMA CopyFileRangeUnderstood ==
    ASSUME NEW ext, NEW acl, NEW x \in AskedArgs("COPY_FILE_RANGE")
    PROVE  Understood("COPY_FILE_RANGE", x, ext, acl)
<1> DEFINE data == <<x[2], x[3], x[4], x[5], x[6], x[7], x[8]>>
<1>1. /\ x = <<x[1], x[2], x[3], x[4], x[5], x[6], x[7], x[8]>> /\ x[1] = 0 /\ x[8] = 0
      /\ x[2] \in Ids /\ x[4] \in Ids /\ x[5] \in Ids /\ x[7] \in Ids /\ x[3] \in Int
      /\ x[6] \in Int
  BY TimesAssumption DEF AskedArgs, Offs
<1>2. Body("COPY_FILE_RANGE", x, ext, acl) = data
  BY <1>1 DEF Body, NameOps, UnservedOps, LockOps
<1>3. /\ data \in Seq(Int) /\ Len(data) = 7 /\ data[1] = x[2] /\ data[2] = x[3]
      /\ data[3] = x[4] /\ data[4] = x[5] /\ data[5] = x[6] /\ data[6] = x[7] /\ data[7] = x[8]
  BY <1>1 DEF Ids
<1>4. /\ Struct("COPY_FILE_RANGE", ext) = fuse_copy_file_range_in /\ Len(fuse_copy_file_range_in) = 7 /\ Distinct(fuse_copy_file_range_in)
      /\ NameCount("COPY_FILE_RANGE") = 0
  BY StructsDistinct DEF Structs, Struct, fuse_copy_file_range_in, LockOps, NameCount, TwoNames,
     OneName, NameOps
<1> HIDE DEF data
<1>5. ASSUME NEW a, Holds(fuse_copy_file_range_in, a, data)
      PROVE  /\ a.fh_in = x[2] /\ a.off_in = x[3] /\ a.nodeid_out = x[4] /\ a.fh_out = x[5]
             /\ a.off_out = x[6] /\ a.len = x[7] /\ a.flags = x[8]
  <2>1. /\ a[fuse_copy_file_range_in[1]] = data[1] /\ a[fuse_copy_file_range_in[2]] = data[2]
        /\ a[fuse_copy_file_range_in[3]] = data[3] /\ a[fuse_copy_file_range_in[4]] = data[4]
        /\ a[fuse_copy_file_range_in[5]] = data[5] /\ a[fuse_copy_file_range_in[6]] = data[6]
        /\ a[fuse_copy_file_range_in[7]] = data[7]
    BY <1>4, <1>5 DEF Holds
  <2> QED
    BY <1>3, <2>1 DEF fuse_copy_file_range_in
<1>6. \A h, p : Args("COPY_FILE_RANGE", h, p) = CopyFileRangeArgs(h, p.arg)
  <2> SUFFICES ASSUME NEW h, NEW p PROVE Args("COPY_FILE_RANGE", h, p) = CopyFileRangeArgs(h, p.arg)
    OBVIOUS
  <2>1. Args("COPY_FILE_RANGE", h, p) = LaterArgs("COPY_FILE_RANGE", h, p)
    BY DEF Args, NodeOps, AccessOps, XattrOps, LockOps, LaterOps
  <2>2. LaterArgs("COPY_FILE_RANGE", h, p) = CopyFileRangeArgs(h, p.arg)
    BY DEF LaterArgs
  <2> QED
    BY <2>1, <2>2
<1>7. ASSUME NEW a, Holds(fuse_copy_file_range_in, a, data)
      PROVE  Reads("COPY_FILE_RANGE", x, acl, [arg |-> a, strs |-> <<>>, rest |-> <<>>])
  <2> DEFINE p == [arg |-> a, strs |-> <<>>, rest |-> <<>>]
  <2>1. p.arg = a /\ p.rest = <<>>
    OBVIOUS
  <2> HIDE DEF p
  <2>2. Refused("COPY_FILE_RANGE", a) = Unservable("COPY_FILE_RANGE", x, acl)
    BY <1>1, <1>5, <1>7 DEF Refused, UnservedOps, Offsets, validate_off_t, Unservable, When
  <2>3. ~ParsePanics("COPY_FILE_RANGE", p)
    BY <1>1, <1>5, <1>7, <2>1 DEF ParsePanics
  <2>4. ASSUME NEW h, h.nodeid = 0 PROVE CopyFileRangeArgs(h, p.arg) = x
    BY <1>1, <1>5, <1>7, <2>1, <2>4 DEF CopyFileRangeArgs
  <2> QED
    BY <1>6, <2>1, <2>2, <2>3, <2>4 DEF Reads, p
<1> QED
  BY <1>1, <1>2, <1>3, <1>4, <1>7, PlainUnderstood

(* READ is understood.                                                     *)
LEMMA ReadUnderstood ==
    ASSUME NEW ext, NEW acl, NEW x \in AskedArgs("READ")
    PROVE  Understood("READ", x, ext, acl)
<1> DEFINE data == <<x[1], x[2], x[3], Bit(READ_LOCKOWNER, x[5]), Val(x[5]), x[4], 0>>
<1>1. /\ x = <<x[1], x[2], x[3], x[4], x[5]>> /\ x[1] \in Ids /\ x[3] \in Ids /\ x[4] \in Ids
      /\ x[2] \in Int /\ x[5] \in Opt(Ids)
  BY TimesAssumption DEF AskedArgs, Offs
<1>2. Body("READ", x, ext, acl) = data
  BY <1>1 DEF Body, NameOps, UnservedOps, LockOps
<1>3. /\ data \in Seq(Int) /\ Len(data) = 7 /\ data[1] = x[1] /\ data[2] = x[2]
      /\ data[3] = x[3] /\ data[4] = Bit(READ_LOCKOWNER, x[5]) /\ data[5] = Val(x[5])
      /\ data[6] = x[4]
  BY <1>1 DEF Ids, Opt, Bit, Val, READ_LOCKOWNER
<1>4. /\ Struct("READ", ext) = fuse_read_in /\ Len(fuse_read_in) = 7 /\ Distinct(fuse_read_in)
      /\ NameCount("READ") = 0
  BY StructsDistinct DEF Structs, Struct, fuse_read_in, LockOps, NameCount, TwoNames, OneName, NameOps
<1> HIDE DEF data
<1>5. ASSUME NEW a, Holds(fuse_read_in, a, data)
      PROVE  /\ a.fh = x[1] /\ a.offset = x[2] /\ a.size = x[3]
             /\ a.read_flags = Bit(READ_LOCKOWNER, x[5]) /\ a.lock_owner = Val(x[5])
             /\ a.flags = x[4]
  <2>1. /\ a[fuse_read_in[1]] = data[1] /\ a[fuse_read_in[2]] = data[2]
        /\ a[fuse_read_in[3]] = data[3] /\ a[fuse_read_in[4]] = data[4]
        /\ a[fuse_read_in[5]] = data[5] /\ a[fuse_read_in[6]] = data[6]
    BY <1>4, <1>5 DEF Holds
  <2> QED
    BY <1>3, <2>1 DEF fuse_read_in
<1>6. \A h, p : Args("READ", h, p) = ReadArgs(p.arg)
  <2> SUFFICES ASSUME NEW h, NEW p PROVE Args("READ", h, p) = ReadArgs(p.arg)
    OBVIOUS
  <2>1. Args("READ", h, p) = FileArgs("READ", p)
    BY DEF Args, NodeOps, AccessOps, XattrOps, LockOps, LaterOps
  <2>2. FileArgs("READ", p) = ReadArgs(p.arg)
    BY DEF FileArgs
  <2> QED
    BY <2>1, <2>2
<1>7. ASSUME NEW a, Holds(fuse_read_in, a, data)
      PROVE  Reads("READ", x, acl, [arg |-> a, strs |-> <<>>, rest |-> <<>>])
  <2> DEFINE p == [arg |-> a, strs |-> <<>>, rest |-> <<>>]
  <2>1. p.arg = a /\ p.rest = <<>>
    OBVIOUS
  <2> HIDE DEF p
  <2>2. Refused("READ", a) = Unservable("READ", x, acl)
    BY <1>1, <1>5, <1>7 DEF Refused, UnservedOps, Offsets, validate_off_t, Unservable, When
  <2>3. ~ParsePanics("READ", p)
    BY <1>1, <1>5, <1>7, <2>1 DEF ParsePanics
  <2>5. /\ contains(a.read_flags, READ_LOCKOWNER) = (x[5] # {})
        /\ When(x[5] # {}, Val(x[5])) = x[5]
    BY <1>1, <1>5, <1>7, OptionSent DEF contains, Bit, READ_LOCKOWNER
  <2>4. ASSUME NEW h, h.nodeid = 0 PROVE ReadArgs(p.arg) = x
    BY <1>1, <1>5, <1>7, <2>1, <2>4, <2>5 DEF ReadArgs
  <2> QED
    BY <1>6, <2>1, <2>2, <2>3, <2>4 DEF Reads, p
<1> QED
  BY <1>1, <1>2, <1>3, <1>4, <1>7, PlainUnderstood

(* WRITE is understood.                                                    *)
LEMMA WriteUnderstood ==
    ASSUME NEW ext, NEW acl, NEW x \in AskedArgs("WRITE")
    PROVE  Understood("WRITE", x, ext, acl)
<1> DEFINE data == <<x[1], x[2], Len(x[3]), x[4], Val(x[6]), x[5], 0>>
<1>1. /\ x = <<x[1], x[2], x[3], x[4], x[5], x[6]>> /\ x[1] \in Ids /\ x[5] \in Ids
      /\ x[2] \in Int /\ x[3] \in Seq(Int) /\ x[6] \in Opt(Ids) /\ x[4] \in Int
      /\ contains(x[4], WRITE_LOCKOWNER) = (x[6] # {})
  <2>1. PICK fh \in Ids, o \in Offs, d \in Payloads, f \in {0, 1}, g \in Ids, l \in Opt(Ids) :
          x = <<fh, o, d, f + Bit(WRITE_LOCKOWNER, l), g, l>>
    BY DEF AskedArgs
  <2>2. o \in Int /\ d \in Seq(Int)
    BY TimesAssumption, WireAssumption DEF Offs
  <2>3. LET w == f + Bit(WRITE_LOCKOWNER, l) IN w \in Int /\ contains(w, WRITE_LOCKOWNER) = (l # {})
    BY DEF contains, Bit, WRITE_LOCKOWNER
  <2> QED
    BY <2>1, <2>2, <2>3
<1>2. Body("WRITE", x, ext, acl) = data \o x[3]
  BY <1>1 DEF Body, NameOps, UnservedOps, LockOps
<1>3. /\ data \in Seq(Int) /\ Len(data) = 7 /\ data[1] = x[1] /\ data[2] = x[2]
      /\ data[3] = Len(x[3]) /\ data[4] = x[4] /\ data[5] = Val(x[6]) /\ data[6] = x[5]
  BY <1>1 DEF Ids, Opt, Val
<1>4. /\ Struct("WRITE", ext) = fuse_write_in /\ Len(fuse_write_in) = 7 /\ Distinct(fuse_write_in)
      /\ NameCount("WRITE") = 0
  BY StructsDistinct DEF Structs, Struct, fuse_write_in, LockOps, NameCount, TwoNames, OneName, NameOps
<1> HIDE DEF data
<1>5. ASSUME NEW a, Holds(fuse_write_in, a, data)
      PROVE  /\ a.fh = x[1] /\ a.offset = x[2] /\ a.size = Len(x[3]) /\ a.write_flags = x[4]
             /\ a.lock_owner = Val(x[6]) /\ a.flags = x[5]
  <2>1. /\ a[fuse_write_in[1]] = data[1] /\ a[fuse_write_in[2]] = data[2]
        /\ a[fuse_write_in[3]] = data[3] /\ a[fuse_write_in[4]] = data[4]
        /\ a[fuse_write_in[5]] = data[5] /\ a[fuse_write_in[6]] = data[6]
    BY <1>4, <1>5 DEF Holds
  <2> QED
    BY <1>3, <2>1 DEF fuse_write_in
<1>6. \A h, p : Args("WRITE", h, p) = WriteArgs(p.arg, p.rest)
  <2> SUFFICES ASSUME NEW h, NEW p PROVE Args("WRITE", h, p) = WriteArgs(p.arg, p.rest)
    OBVIOUS
  <2>1. Args("WRITE", h, p) = FileArgs("WRITE", p)
    BY DEF Args, NodeOps, AccessOps, XattrOps, LockOps, LaterOps
  <2>2. FileArgs("WRITE", p) = WriteArgs(p.arg, p.rest)
    BY DEF FileArgs
  <2> QED
    BY <2>1, <2>2
<1>7. ASSUME NEW a, Holds(fuse_write_in, a, data)
      PROVE  Reads("WRITE", x, acl, [arg |-> a, strs |-> <<>>, rest |-> x[3]])
  <2> DEFINE p == [arg |-> a, strs |-> <<>>, rest |-> x[3]]
  <2>1. p.arg = a /\ p.rest = x[3]
    OBVIOUS
  <2> HIDE DEF p
  <2>2. Refused("WRITE", a) = Unservable("WRITE", x, acl)
    BY <1>1, <1>5, <1>7 DEF Refused, UnservedOps, Offsets, validate_off_t, Unservable, When
  <2>3. ~ParsePanics("WRITE", p)
    BY <1>1, <1>5, <1>7, <2>1 DEF ParsePanics
  <2>5. /\ contains(a.write_flags, WRITE_LOCKOWNER) = (x[6] # {})
        /\ When(x[6] # {}, Val(x[6])) = x[6]
    BY <1>1, <1>5, <1>7, OptionSent
  <2>4. ASSUME NEW h, h.nodeid = 0 PROVE WriteArgs(p.arg, p.rest) = x
    BY <1>1, <1>5, <1>7, <2>1, <2>4, <2>5 DEF WriteArgs
  <2> QED
    BY <1>6, <2>1, <2>2, <2>3, <2>4 DEF Reads, p
<1> QED
  BY <1>1, <1>2, <1>3, <1>4, <1>7, DataUnderstood

(* IOCTL is understood.                                                    *)
LEMMA IoCtlUnderstood ==
    ASSUME NEW ext, NEW acl, NEW x \in AskedArgs("IOCTL")
    PROVE  Understood("IOCTL", x, ext, acl)
<1> DEFINE data == <<x[1], x[2], x[3], 0, Len(x[4]), x[5]>>
<1>1. /\ x = <<x[1], x[2], x[3], x[4], x[5]>> /\ x[1] \in Ids /\ x[3] \in Ids /\ x[5] \in Ids
      /\ x[2] \in 0 .. 3 /\ x[4] \in Seq(Int)
  BY WireAssumption DEF AskedArgs
<1>2. Body("IOCTL", x, ext, acl) = data \o x[4]
  BY <1>1 DEF Body, NameOps, UnservedOps, LockOps
<1>3. /\ data \in Seq(Int) /\ Len(data) = 6 /\ data[1] = x[1] /\ data[2] = x[2]
      /\ data[3] = x[3] /\ data[5] = Len(x[4]) /\ data[6] = x[5]
  BY <1>1 DEF Ids
<1>4. /\ Struct("IOCTL", ext) = fuse_ioctl_in /\ Len(fuse_ioctl_in) = 6 /\ Distinct(fuse_ioctl_in)
      /\ NameCount("IOCTL") = 0
  BY StructsDistinct DEF Structs, Struct, fuse_ioctl_in, LockOps, NameCount, TwoNames, OneName, NameOps
<1> HIDE DEF data
<1>5. ASSUME NEW a, Holds(fuse_ioctl_in, a, data)
      PROVE  /\ a.fh = x[1] /\ a.flags = x[2] /\ a.cmd = x[3] /\ a.in_size = Len(x[4])
             /\ a.out_size = x[5]
  <2>1. /\ a[fuse_ioctl_in[1]] = data[1] /\ a[fuse_ioctl_in[2]] = data[2]
        /\ a[fuse_ioctl_in[3]] = data[3] /\ a[fuse_ioctl_in[5]] = data[5]
        /\ a[fuse_ioctl_in[6]] = data[6]
    BY <1>4, <1>5 DEF Holds
  <2> QED
    BY <1>3, <2>1 DEF fuse_ioctl_in
<1>6. \A h, p : Args("IOCTL", h, p) = IoCtlArgs(p.arg, p.rest)
  <2> SUFFICES ASSUME NEW h, NEW p PROVE Args("IOCTL", h, p) = IoCtlArgs(p.arg, p.rest)
    OBVIOUS
  <2>1. Args("IOCTL", h, p) = LaterArgs("IOCTL", h, p)
    BY DEF Args, NodeOps, AccessOps, XattrOps, LockOps, LaterOps
  <2>2. LaterArgs("IOCTL", h, p) = IoCtlArgs(p.arg, p.rest)
    BY DEF LaterArgs
  <2> QED
    BY <2>1, <2>2
<1>7. ASSUME NEW a, Holds(fuse_ioctl_in, a, data)
      PROVE  Reads("IOCTL", x, acl, [arg |-> a, strs |-> <<>>, rest |-> x[4]])
  <2> DEFINE p == [arg |-> a, strs |-> <<>>, rest |-> x[4]]
  <2>1. p.arg = a /\ p.rest = x[4]
    OBVIOUS
  <2> HIDE DEF p
  <2>2. Refused("IOCTL", a) = Unservable("IOCTL", x, acl)
    BY <1>1, <1>5, <1>7 DEF Refused, UnservedOps, Offsets, validate_off_t, Unservable, When, contains,
       IOCTL_UNRESTRICTED
  <2>3. ~ParsePanics("IOCTL", p)
    BY <1>1, <1>5, <1>7, <2>1 DEF ParsePanics
  <2>4. ASSUME NEW h, h.nodeid = 0 PROVE IoCtlArgs(p.arg, p.rest) = x
    BY <1>1, <1>5, <1>7, <2>1, <2>4 DEF IoCtlArgs
  <2> QED
    BY <1>6, <2>1, <2>2, <2>3, <2>4 DEF Reads, p
<1> QED
  BY <1>1, <1>2, <1>3, <1>4, <1>7, DataUnderstood

(* SYNCFS has a structure, and nothing in it.                              *)
LEMMA SyncFsUnderstood ==
    ASSUME NEW ext, NEW acl, NEW x \in AskedArgs("SYNCFS")
    PROVE  Understood("SYNCFS", x, ext, acl)
<1> DEFINE data == <<0>>
<1>1. x = <<>>
  BY DEF AskedArgs, NameOps, PlainOps
<1>2. Body("SYNCFS", x, ext, acl) = data /\ data \in Seq(Int) /\ Len(data) = 1
  BY DEF Body, NameOps, UnservedOps, LockOps
<1>3. /\ Struct("SYNCFS", ext) = fuse_syncfs_in /\ Len(fuse_syncfs_in) = 1 /\ Distinct(fuse_syncfs_in)
      /\ NameCount("SYNCFS") = 0 /\ "SYNCFS" \notin Checked
  BY StructsDistinct DEF Structs, Struct, fuse_syncfs_in, LockOps, NameCount, TwoNames, OneName,
     NameOps, Checked, UnservedOps
<1>4. \A h, p : Args("SYNCFS", h, p) = x
  <2> SUFFICES ASSUME NEW h, NEW p PROVE Args("SYNCFS", h, p) = x
    OBVIOUS
  <2>1. Args("SYNCFS", h, p) = LaterArgs("SYNCFS", h, p)
    BY DEF Args, NodeOps, AccessOps, XattrOps, LockOps, LaterOps
  <2> QED
    BY <1>1, <2>1 DEF LaterArgs
<1> HIDE DEF data
<1>5. \A a : Reads("SYNCFS", x, acl, [arg |-> a, strs |-> <<>>, rest |-> <<>>])
  BY <1>3, <1>4, AlwaysServed
<1> QED
  BY <1>2, <1>3, <1>5, PlainUnderstood

(* A request of a header alone.                                            *)
LEMMA BareUnderstood ==
    ASSUME NEW op \in {"READLINK", "STATFS"} \cup UnservedOps, NEW ext, NEW acl, NEW x \in AskedArgs(op)
    PROVE  Understood(op, x, ext, acl)
<1> DEFINE none == <<>>
<1>1. x = none
  BY DEF AskedArgs, NameOps, PlainOps, UnservedOps
<1>2. Body(op, x, ext, acl) = none /\ none \in Seq(Int) /\ Len(none) = 0
  BY DEF Body, NameOps, UnservedOps, LockOps
<1>3. Struct(op, ext) = none
  BY DEF Struct, LockOps, UnservedOps
<1>4. NameCount(op) = 0 /\ op \notin {"SETXATTR", "BATCH_FORGET", "WRITE", "RENAME2"}
  BY DEF NameCount, TwoNames, OneName, NameOps, UnservedOps
<1>5. Distinct(none)
  BY DEF Distinct
<1>6. ASSUME NEW p PROVE Reads(op, x, acl, p)
  <2>1. CASE op \in UnservedOps
    <3>1. Refused(op, p.arg) = Unservable(op, x, acl) /\ Unservable(op, x, acl) # {}
      BY <2>1 DEF Refused, Unservable, UnservedOps
    <3> QED
      BY <1>4, <3>1 DEF Reads
  <2>2. CASE op = "READLINK"
    <3>1. ASSUME NEW h PROVE Args(op, h, p) = x
      <4>1. Args(op, h, p) = NodeArgs(op, h, p)
        BY <2>2 DEF Args, NodeOps, AccessOps, XattrOps, LockOps, LaterOps
      <4> QED
        BY <1>1, <2>2, <4>1 DEF NodeArgs
    <3> QED
      BY <2>2, <3>1, AlwaysServed DEF Checked, UnservedOps
  <2>3. CASE op = "STATFS"
    <3>1. ASSUME NEW h PROVE Args(op, h, p) = x
      <4>1. Args(op, h, p) = FileArgs(op, p)
        BY <2>3 DEF Args, NodeOps, AccessOps, XattrOps, LockOps, LaterOps
      <4> QED
        BY <1>1, <2>3, <4>1 DEF FileArgs
    <3> QED
      BY <2>3, <3>1, AlwaysServed DEF Checked, UnservedOps
  <2> QED
    BY <2>1, <2>2, <2>3
<1> HIDE DEF none
<1> QED
  BY <1>2, <1>3, <1>4, <1>5, <1>6, PlainUnderstood

(* The nodes of BATCH_FORGET, laid out one after the other.                *)
Flat(x) == [k \in 1 .. 2 * Len(x) |-> x[(k + 1) \div 2][2 - (k % 2)]]

(* fetch_slice cuts them apart again.                                      *)
LEMMA Sliced ==
    ASSUME NEW x \in Seq(Ids \X Ids)
    PROVE  Flat(x) \in Seq(Int) /\ fetch_slice(Len(x), 2, Flat(x)) = {x}
<1> DEFINE w == Flat(x)
           n == Len(x)
           s(i) == SubSeq(w, (i - 1) * 2 + 1, i * 2)
           slices == [i \in 1 .. n |-> s(i)]
<1>1. n \in Nat /\ DOMAIN x = 1 .. n
  OBVIOUS
<1>2. ASSUME NEW i \in 1 .. n PROVE x[i] = <<x[i][1], x[i][2]>> /\ x[i][1] \in Ids /\ x[i][2] \in Ids
  <2>1. x[i] \in Ids \X Ids
    OBVIOUS
  <2> QED
    BY <2>1
<1>3. ASSUME NEW k \in 1 .. 2 * n PROVE w[k] \in Int
  <2> DEFINE i == (k + 1) \div 2
  <2>1. i \in 1 .. n /\ 2 - (k % 2) \in {1, 2}
    BY <1>1
  <2>2. w[k] = x[i][2 - (k % 2)]
    BY DEF Flat
  <2> HIDE DEF i
  <2>3. x[i][1] \in Int /\ x[i][2] \in Int
    BY <1>2, <2>1 DEF Ids
  <2> QED
    BY <2>1, <2>2, <2>3
<1>4. w \in Seq(Int) /\ Len(w) = 2 * n
  <2>1. w = [k \in 1 .. 2 * n |-> w[k]] /\ 2 * n \in Nat
    BY <1>1 DEF Flat
  <2> HIDE DEF w, n
  <2> QED
    BY <1>3, <2>1
<1>5. ASSUME NEW i \in 1 .. n PROVE w[2 * i - 1] = x[i][1] /\ w[2 * i] = x[i][2]
  <2>1. /\ 2 * i - 1 \in 1 .. 2 * n /\ 2 * i \in 1 .. 2 * n
        /\ (2 * i - 1 + 1) \div 2 = i /\ (2 * i + 1) \div 2 = i
        /\ 2 - ((2 * i - 1) % 2) = 1 /\ 2 - ((2 * i) % 2) = 2
    BY <1>1
  <2> QED
    BY <2>1 DEF Flat
<1> HIDE DEF w
<1>6. ASSUME NEW i \in 1 .. n PROVE s(i) = x[i]
  <2> DEFINE lo == (i - 1) * 2 + 1
             hi == i * 2
  <2>1. lo = 2 * i - 1 /\ hi = 2 * i /\ lo \in 1 .. Len(w) /\ hi \in 1 .. Len(w) /\ hi = lo + 1
    BY <1>1, <1>4
  <2> DEFINE z == SubSeq(w, lo, hi)
  <2> HIDE DEF lo, hi
  <2>2. z \in Seq(Int) /\ Len(z) = 2 /\ z[1] = w[lo] /\ z[2] = w[lo + 1]
    BY <1>4, <2>1
  <2> HIDE DEF z
  <2>3. z = <<z[1], z[2]>>
    BY <2>2
  <2>4. s(i) = z
    BY DEF z, lo, hi
  <2>5. w[lo] = x[i][1] /\ w[lo + 1] = x[i][2]
    BY <1>5, <2>1
  <2>6. z = <<x[i][1], x[i][2]>>
    BY <2>2, <2>3, <2>5
  <2>7. x[i] = <<x[i][1], x[i][2]>>
    BY <1>2
  <2> HIDE DEF s
  <2> QED
    BY <2>4, <2>6, <2>7
<1>7. slices = x
  <2> HIDE DEF s
  <2>1. x = [i \in 1 .. n |-> x[i]]
    BY <1>1
  <2> QED
    BY <1>6, <2>1
<1>8. fetch_slice(n, 2, w) = IF Len(w) < n * 2 THEN {} ELSE {slices}
  BY DEF fetch_slice
<1>9. ~(Len(w) < n * 2)
  BY <1>1, <1>4
<1> HIDE DEF slices
<1> QED
  BY <1>4, <1>7, <1>8, <1>9 DEF w

(* BATCH_FORGET is understood: the count is that of the nodes that follow. *)
LEMMA BatchForgetUnderstood ==
    ASSUME NEW ext, NEW acl, NEW x \in AskedArgs("BATCH_FORGET")
    PROVE  Understood("BATCH_FORGET", x, ext, acl)
<1> DEFINE op == "BATCH_FORGET"
           data == <<Len(x), 0>>
           none == <<>>
           tail == Flat(x)
<1>1. x \in Seq(Ids \X Ids)
  <2>1. PICK k \in 0 .. 2 : x \in [1 .. k -> Ids \X Ids]
    BY DEF AskedArgs, NameOps, PlainOps, UnservedOps
  <2> QED
    BY <2>1
<1>2. Body(op, x, ext, acl) = data \o tail
  BY DEF Body, NameOps, UnservedOps, LockOps, Flat
<1>3. tail \in Seq(Int) /\ fetch_slice(Len(x), 2, tail) = {x}
  BY <1>1, Sliced
<1>4. data \in Seq(Int) /\ Len(data) = 2 /\ data[1] = Len(x)
  BY <1>1
<1>5. /\ Struct(op, ext) = fuse_batch_forget_in /\ Len(fuse_batch_forget_in) = 2
      /\ Distinct(fuse_batch_forget_in) /\ NameCount(op) = 0 /\ op \notin Checked
  BY StructsDistinct DEF Structs, Struct, fuse_batch_forget_in, LockOps, NameCount, TwoNames, OneName,
     NameOps, Checked, UnservedOps
<1>6. FetchNames(NameCount(op), tail) = {[strs |-> none, rest |-> tail]}
  BY <1>5 DEF FetchNames
<1> HIDE DEF data, none, tail
<1>7. PICK a : /\ Holds(fuse_batch_forget_in, a, data)
               /\ Yields(op, data \o tail, ext, [arg |-> a, strs |-> none, rest |-> tail])
  BY <1>3, <1>4, <1>5, <1>6, ParsedOne
<1>8. a.count = Len(x)
  <2>1. a[fuse_batch_forget_in[1]] = data[1]
    BY <1>5, <1>7 DEF Holds
  <2> QED
    BY <1>4, <2>1 DEF fuse_batch_forget_in
<1> DEFINE p == [arg |-> a, strs |-> none, rest |-> tail]
<1>9. p.arg = a /\ p.rest = tail
  OBVIOUS
<1>10. Yields(op, data \o tail, ext, p)
  BY <1>7
<1> HIDE DEF p
<1>11. Accepts(op, p)
  BY <1>3, <1>8, <1>9 DEF Accepts
<1>12. parse(op, data \o tail, ext) = {p}
  BY <1>10, <1>11 DEF Yields
<1>13. ASSUME NEW h PROVE Args(op, h, p) = x
  <2>1. Args(op, h, p) = LaterArgs(op, h, p)
    BY DEF Args, NodeOps, AccessOps, XattrOps, LockOps, LaterOps
  <2>2. LaterArgs(op, h, p) = BatchForgetArgs(p.arg, p.rest)
    BY DEF LaterArgs
  <2>3. BatchForgetArgs(p.arg, p.rest) = CHOOSE nodes \in {x} : TRUE
    BY <1>3, <1>8, <1>9 DEF BatchForgetArgs
  <2> QED
    BY <2>1, <2>2, <2>3
<1>14. Reads(op, x, acl, p)
  BY <1>5, <1>13, AlwaysServed
<1> QED
  BY <1>2, <1>12, <1>14 DEF Understood

(* A time is sent as seconds and nanoseconds that count forward from them, *)
(* and put together again.                                                 *)
LEMMA TimeSplit ==
    ASSUME NEW t \in I64Min * Second .. I64Max * Second + Second - 1
    PROVE  /\ t \div Second \in I64 /\ t % Second \in 0 .. Second - 1
           /\ system_time_from_time(t \div Second, t % Second) = t
<1> DEFINE q == t \div Second
           r == t % Second
<1>1. Second \in Nat \ {0, 1} /\ I64Max \in Nat \ {0} /\ I64Min \in Int /\ I64Min <= 0
  BY TimesAssumption DEF I64Min
<1>2. I64Min * Second \in Int /\ I64Max * Second \in Int
  BY <1>1
<1>3. t \in Int /\ I64Min * Second <= t /\ t <= I64Max * Second + Second - 1
  BY <1>1, <1>2
<1>4. q \in Int /\ r \in 0 .. Second - 1 /\ t = q * Second + r
  BY <1>1, <1>3
<1> HIDE DEF q, r
<1>5. q * Second \in Int
  BY <1>1, <1>4
<1>6. q >= I64Min
  <2> SUFFICES ASSUME q < I64Min PROVE FALSE
    BY <1>1, <1>4
  <2>1. (I64Min - q) * Second >= Second
    BY <1>1, <1>4
  <2>2. (I64Min - q) * Second = I64Min * Second - q * Second
    BY <1>1, <1>4
  <2> QED
    BY <1>1, <1>2, <1>3, <1>4, <1>5, <2>1, <2>2
<1>7. q <= I64Max
  <2> SUFFICES ASSUME q > I64Max PROVE FALSE
    BY <1>1, <1>4
  <2>1. (q - I64Max) * Second >= Second
    BY <1>1, <1>4
  <2>2. (q - I64Max) * Second = q * Second - I64Max * Second
    BY <1>1, <1>4
  <2> QED
    BY <1>1, <1>2, <1>3, <1>4, <1>5, <2>1, <2>2
<1>8. q \in I64
  BY <1>1, <1>4, <1>6, <1>7 DEF I64
<1> QED
  BY <1>4, <1>8, PlaceOnTheLine DEF q, r

(* An optional time after that.                                            *)
Resent(time) == When(time # {}, IF Now \in time THEN Now ELSE At(system_time_from_time(Secs(time), Nsecs(time))))

(* It is what it was.                                                      *)
LEMMA TimeSent ==
    ASSUME NEW time \in Opt(Times)
    PROVE  Secs(time) \in Int /\ Nsecs(time) \in Int /\ Resent(time) = time
<1>1. \A t : At(t) # Now /\ At(t)[2] = t
  BY DEF At, Now
<1>2. CASE time = {}
  BY <1>2 DEF Secs, Nsecs, Resent, When
<1>3. CASE time = {Now}
  BY <1>3 DEF Secs, Nsecs, Resent, When
<1>4. CASE time # {} /\ time # {Now}
  <2>1. PICK t \in I64Min * Second .. I64Max * Second + Second - 1 : time = {At(t)}
    BY <1>4 DEF Opt, Times
  <2>2. Val(time) = At(t)
    BY <2>1 DEF Val
  <2>3. Secs(time) = t \div Second /\ Nsecs(time) = t % Second
    BY <1>1, <1>4, <2>2 DEF Secs, Nsecs
  <2>4. t \div Second \in Int /\ t % Second \in Int /\ system_time_from_time(t \div Second, t % Second) = t
    BY TimesAssumption, TimeSplit DEF I64, I64Min
  <2>5. Now \notin time
    BY <1>1, <2>1
  <2> QED
    BY <1>4, <2>1, <2>3, <2>4, <2>5 DEF Resent, When
<1> QED
  BY <1>2, <1>3, <1>4

(* The flags of SETATTR's `valid` do not disturb each other.               *)
ValidSum(m, u, g, z, a, an, t, tn, c, f, k) ==
    m + 2 * u + 4 * g + 8 * z + 16 * a + 128 * an + 32 * t + 256 * tn + 1024 * c + 64 * f + 2048 * k
ValidFlags(v, m, u, g, z, a, an, t, tn, c, f, k) ==
    /\ v \in Int
    /\ contains(v, 1) = (m = 1) /\ contains(v, 2) = (u = 1) /\ contains(v, 4) = (g = 1)
    /\ contains(v, 8) = (z = 1) /\ contains(v, 16) = (a = 1) /\ contains(v, 32) = (t = 1)
    /\ contains(v, 64) = (f = 1) /\ contains(v, 128) = (an = 1) /\ contains(v, 256) = (tn = 1)
    /\ contains(v, 1024) = (c = 1) /\ contains(v, 2048) = (k = 1)

(* Each is read back from the sum.                                         *)
LEMMA ValidBits ==
    ASSUME NEW m \in 0 .. 1, NEW u \in 0 .. 1, NEW g \in 0 .. 1, NEW z \in 0 .. 1, NEW a \in 0 .. 1,
           NEW an \in 0 .. 1, NEW t \in 0 .. 1, NEW tn \in 0 .. 1, NEW c \in 0 .. 1, NEW f \in 0 .. 1,
           NEW k \in 0 .. 1
    PROVE  ValidFlags(ValidSum(m, u, g, z, a, an, t, tn, c, f, k), m, u, g, z, a, an, t, tn, c, f, k)
<1> DEFINE v == m + 2 * u + 4 * g + 8 * z + 16 * a + 128 * an + 32 * t + 256 * tn + 1024 * c + 64 * f + 2048 * k
<1>1. v \in Int
  OBVIOUS
<1>2. v \div 1 = v /\ v % 2 = m
  OBVIOUS
<1>3. v \div 2 = u + 2 * (g + 2 * z + 4 * a + 8 * t + 16 * f + 32 * an + 64 * tn + 256 * c + 512 * k)
  OBVIOUS
<1>4. v \div 4 = g + 2 * (z + 2 * a + 4 * t + 8 * f + 16 * an + 32 * tn + 128 * c + 256 * k)
  OBVIOUS
<1>5. v \div 8 = z + 2 * (a + 2 * t + 4 * f + 8 * an + 16 * tn + 64 * c + 128 * k)
  OBVIOUS
<1>6. v \div 16 = a + 2 * (t + 2 * f + 4 * an + 8 * tn + 32 * c + 64 * k)
  OBVIOUS
<1>7. v \div 32 = t + 2 * (f + 2 * an + 4 * tn + 16 * c + 32 * k)
  OBVIOUS
<1>8. v \div 64 = f + 2 * (an + 2 * tn + 8 * c + 16 * k)
  OBVIOUS
<1>9. v \div 128 = an + 2 * (tn + 4 * c + 8 * k)
  OBVIOUS
<1>10. v \div 256 = tn + 2 * (2 * c + 4 * k)
  OBVIOUS
<1>11. v \div 1024 = c + 2 * k
  OBVIOUS
<1>12. v \div 2048 = k
  OBVIOUS
<1> HIDE DEF v
<1>13. contains(v, 1) = (m = 1) /\ contains(v, 2) = (u = 1)
  BY <1>1, <1>2, <1>3 DEF contains
<1>14. contains(v, 4) = (g = 1) /\ contains(v, 8) = (z = 1)
  BY <1>1, <1>4, <1>5 DEF contains
<1>15. contains(v, 16) = (a = 1) /\ contains(v, 32) = (t = 1)
  BY <1>1, <1>6, <1>7 DEF contains
<1>16. contains(v, 64) = (f = 1) /\ contains(v, 128) = (an = 1)
  BY <1>1, <1>8, <1>9 DEF contains
<1>17. contains(v, 256) = (tn = 1) /\ contains(v, 1024) = (c = 1) /\ contains(v, 2048) = (k = 1)
  BY <1>1, <1>10, <1>11, <1>12 DEF contains
<1> QED
  BY <1>1, <1>13, <1>14, <1>15, <1>16, <1>17 DEF ValidFlags, ValidSum, v

(* What the arguments of SETATTR are.                                      *)
LEMMA SetAttrAsked ==
    ASSUME NEW x \in AskedArgs("SETATTR")
    PROVE  /\ x = <<x[1], x[2], x[3], x[4], x[5], x[6], x[7], x[8], x[9]>>
           /\ x[1] \in Opt(Ids) /\ x[2] \in Opt(Ids) /\ x[3] \in Opt(Ids) /\ x[4] \in Opt(Ids)
           /\ x[5] \in Opt(Times) /\ x[6] \in Opt(Times) /\ x[7] \in Opt(Times) /\ Now \notin x[7]
           /\ x[8] \in Opt(Ids) /\ x[9] \in BOOLEAN
<1>1. PICK m \in Opt({1}), u \in Opt(Ids), z \in Opt({1}), a \in Opt(Times), t \in Opt({Now, At(-1)}),
           c \in Opt({At(0)}), fh \in Opt({1}), k \in BOOLEAN : x = <<m, u, u, z, a, t, c, fh, k>>
  <2>1. x \in AskedAttrs
    BY DEF AskedArgs, NameOps, PlainOps, UnservedOps
  <2> QED
    BY <2>1 DEF AskedAttrs
<1>2. At(-1) \in Times /\ At(0) \in Times /\ Now \in Times
  <2>1. I64Min * Second <= -1 /\ 0 <= I64Max * Second + Second - 1 /\ I64Min * Second \in Int /\ I64Max * Second \in Int
    <3>1. Second \in Nat \ {0, 1} /\ I64Max \in Nat
      BY TimesAssumption
    <3>2. I64Max * Second \in Nat
      BY <3>1
    <3>3. I64Min * Second = -(I64Max * Second) - Second
      BY <3>1 DEF I64Min
    <3> QED
      BY <3>1, <3>2, <3>3
  <2>2. -1 \in I64Min * Second .. I64Max * Second + Second - 1 /\ 0 \in I64Min * Second .. I64Max * Second + Second - 1
    BY TimesAssumption, <2>1
  <2> QED
    BY <2>2 DEF Times
<1>3. t \in Opt(Times) /\ c \in Opt(Times)
  BY <1>2 DEF Opt
<1>4. Now \notin c
  BY DEF Opt, Now, At
<1>5. m \in Opt(Ids) /\ z \in Opt(Ids) /\ fh \in Opt(Ids)
  BY DEF Opt, Ids
<1> QED
  BY <1>1, <1>3, <1>4, <1>5

(* SETATTR is understood: each argument is there if its flag is, and a     *)
(* time is Now or the time that was set.                                   *)
LEMMA SetAttrUnderstood ==
    ASSUME NEW ext, NEW acl, NEW x \in AskedArgs("SETATTR")
    PROVE  Understood("SETATTR", x, ext, acl)
<1> DEFINE one(set) == IF set THEN 1 ELSE 0
           m == one(x[1] # {})
           u == one(x[2] # {})
           g == one(x[3] # {})
           z == one(x[4] # {})
           at == one(x[5] # {})
           an == one(Now \in x[5])
           mt == one(x[6] # {})
           mn == one(Now \in x[6])
           c == one(x[7] # {})
           f == one(x[8] # {})
           k == one(x[9])
           valid == m + 2 * u + 4 * g + 8 * z + 16 * at + 128 * an + 32 * mt + 256 * mn + 1024 * c + 64 * f + 2048 * k
           data == <<valid, 0, Val(x[8]), Val(x[4]), 0, Secs(x[5]), Secs(x[6]), Secs(x[7]),
                     Nsecs(x[5]), Nsecs(x[6]), Nsecs(x[7]), Val(x[1]), 0, Val(x[2]), Val(x[3]), 0>>
<1>1. /\ x = <<x[1], x[2], x[3], x[4], x[5], x[6], x[7], x[8], x[9]>>
      /\ x[1] \in Opt(Ids) /\ x[2] \in Opt(Ids) /\ x[3] \in Opt(Ids) /\ x[4] \in Opt(Ids)
      /\ x[5] \in Opt(Times) /\ x[6] \in Opt(Times) /\ x[7] \in Opt(Times) /\ Now \notin x[7]
      /\ x[8] \in Opt(Ids) /\ x[9] \in BOOLEAN
  BY SetAttrAsked
<1>2. /\ valid \in Int
      /\ contains(valid, 1) = (x[1] # {}) /\ contains(valid, 2) = (x[2] # {}) /\ contains(valid, 4) = (x[3] # {})
      /\ contains(valid, 8) = (x[4] # {}) /\ contains(valid, 16) = (x[5] # {}) /\ contains(valid, 32) = (x[6] # {})
      /\ contains(valid, 64) = (x[8] # {}) /\ contains(valid, 128) = (Now \in x[5]) /\ contains(valid, 256) = (Now \in x[6])
      /\ contains(valid, 1024) = (x[7] # {}) /\ contains(valid, 2048) = x[9]
  <2>1. /\ m \in 0 .. 1 /\ u \in 0 .. 1 /\ g \in 0 .. 1 /\ z \in 0 .. 1 /\ at \in 0 .. 1 /\ an \in 0 .. 1
        /\ mt \in 0 .. 1 /\ mn \in 0 .. 1 /\ c \in 0 .. 1 /\ f \in 0 .. 1 /\ k \in 0 .. 1
    OBVIOUS
  <2>2. /\ (m = 1) = (x[1] # {}) /\ (u = 1) = (x[2] # {}) /\ (g = 1) = (x[3] # {}) /\ (z = 1) = (x[4] # {})
        /\ (at = 1) = (x[5] # {}) /\ (an = 1) = (Now \in x[5]) /\ (mt = 1) = (x[6] # {})
        /\ (mn = 1) = (Now \in x[6]) /\ (c = 1) = (x[7] # {}) /\ (f = 1) = (x[8] # {}) /\ (k = 1) = x[9]
    BY <1>1
  <2> HIDE DEF m, u, g, z, at, an, mt, mn, c, f, k
  <2>3. valid = ValidSum(m, u, g, z, at, an, mt, mn, c, f, k)
    BY DEF ValidSum
  <2> HIDE DEF valid
  <2>4. ValidFlags(valid, m, u, g, z, at, an, mt, mn, c, f, k)
    BY <2>1, <2>3, ValidBits
  <2> QED
    BY <2>2, <2>4 DEF ValidFlags
<1>3. Body("SETATTR", x, ext, acl) = data
  <2>1. Body("SETATTR", x, ext, acl) = SetAttrBody(x)
    BY DEF Body, NameOps, UnservedOps, LockOps
  <2> DEFINE sum == Bit(FATTR_MODE, x[1]) + Bit(FATTR_UID, x[2]) + Bit(FATTR_GID, x[3]) + Bit(FATTR_SIZE, x[4])
                      + Bit(FATTR_ATIME, x[5]) + Flag(FATTR_ATIME_NOW, Now \in x[5])
                      + Bit(FATTR_MTIME, x[6]) + Flag(FATTR_MTIME_NOW, Now \in x[6])
                      + Bit(FATTR_CTIME, x[7]) + Bit(FATTR_FH, x[8]) + Flag(FATTR_KILL_SUIDGID, x[9])
  <2>2. /\ Bit(FATTR_MODE, x[1]) = m /\ Bit(FATTR_UID, x[2]) = 2 * u /\ Bit(FATTR_GID, x[3]) = 4 * g
        /\ Bit(FATTR_SIZE, x[4]) = 8 * z /\ Bit(FATTR_ATIME, x[5]) = 16 * at
        /\ Flag(FATTR_ATIME_NOW, Now \in x[5]) = 128 * an /\ Bit(FATTR_MTIME, x[6]) = 32 * mt
        /\ Flag(FATTR_MTIME_NOW, Now \in x[6]) = 256 * mn /\ Bit(FATTR_CTIME, x[7]) = 1024 * c
        /\ Bit(FATTR_FH, x[8]) = 64 * f /\ Flag(FATTR_KILL_SUIDGID, x[9]) = 2048 * k
    BY DEF Bit, Flag, FATTR_MODE, FATTR_UID, FATTR_GID, FATTR_SIZE, FATTR_ATIME, FATTR_ATIME_NOW,
       FATTR_MTIME,
           FATTR_MTIME_NOW, FATTR_CTIME, FATTR_FH, FATTR_KILL_SUIDGID
  <2>3. sum = valid
    BY <2>2
  <2> QED
    BY <2>1, <2>3 DEF SetAttrBody
<1> HIDE DEF valid
<1>4. /\ Val(x[1]) \in Int /\ Val(x[2]) \in Int /\ Val(x[3]) \in Int /\ Val(x[4]) \in Int /\ Val(x[8]) \in Int
      /\ Secs(x[5]) \in Int /\ Secs(x[6]) \in Int /\ Secs(x[7]) \in Int
      /\ Nsecs(x[5]) \in Int /\ Nsecs(x[6]) \in Int /\ Nsecs(x[7]) \in Int
  <2>1. \A opt \in Opt(Ids) : Val(opt) \in Int
    BY OptionSent DEF Val, Ids
  <2> QED
    BY <1>1, <2>1, TimeSent
<1>5. /\ data \in Seq(Int) /\ Len(data) = 16 /\ data[1] = valid /\ data[3] = Val(x[8])
      /\ data[4] = Val(x[4]) /\ data[6] = Secs(x[5]) /\ data[7] = Secs(x[6])
      /\ data[8] = Secs(x[7]) /\ data[9] = Nsecs(x[5]) /\ data[10] = Nsecs(x[6])
      /\ data[11] = Nsecs(x[7]) /\ data[12] = Val(x[1]) /\ data[14] = Val(x[2])
      /\ data[15] = Val(x[3])
  BY <1>2, <1>4
<1>6. /\ Struct("SETATTR", ext) = fuse_setattr_in /\ Len(fuse_setattr_in) = 16 /\ Distinct(fuse_setattr_in)
      /\ NameCount("SETATTR") = 0 /\ "SETATTR" \notin Checked
  BY StructsDistinct DEF Structs, Struct, fuse_setattr_in, LockOps, NameCount, TwoNames, OneName,
     NameOps, Checked, UnservedOps
<1> HIDE DEF data
<1>7. ASSUME NEW a, Holds(fuse_setattr_in, a, data)
      PROVE  SetAttrArgs(a) = x
  <2>1. /\ a.valid = valid /\ a.fh = Val(x[8]) /\ a.size = Val(x[4]) /\ a.atime = Secs(x[5])
        /\ a.mtime = Secs(x[6]) /\ a.ctime = Secs(x[7]) /\ a.atimensec = Nsecs(x[5])
        /\ a.mtimensec = Nsecs(x[6]) /\ a.ctimensec = Nsecs(x[7]) /\ a.mode = Val(x[1])
        /\ a.uid = Val(x[2]) /\ a.gid = Val(x[3])
    <3>1. /\ a[fuse_setattr_in[1]] = data[1] /\ a[fuse_setattr_in[3]] = data[3]
          /\ a[fuse_setattr_in[4]] = data[4] /\ a[fuse_setattr_in[6]] = data[6]
          /\ a[fuse_setattr_in[7]] = data[7] /\ a[fuse_setattr_in[8]] = data[8]
          /\ a[fuse_setattr_in[9]] = data[9] /\ a[fuse_setattr_in[10]] = data[10]
          /\ a[fuse_setattr_in[11]] = data[11] /\ a[fuse_setattr_in[12]] = data[12]
          /\ a[fuse_setattr_in[14]] = data[14] /\ a[fuse_setattr_in[15]] = data[15]
      BY <1>6, <1>7 DEF Holds
    <3> QED
      BY <1>5, <3>1 DEF fuse_setattr_in
  <2>2. /\ When(x[1] # {}, Val(x[1])) = x[1] /\ When(x[2] # {}, Val(x[2])) = x[2]
        /\ When(x[3] # {}, Val(x[3])) = x[3] /\ When(x[4] # {}, Val(x[4])) = x[4]
        /\ When(x[8] # {}, Val(x[8])) = x[8]
    BY <1>1, OptionSent
  <2>3. /\ When(x[5] # {}, IF Now \in x[5] THEN Now ELSE At(system_time_from_time(Secs(x[5]), Nsecs(x[5])))) = x[5]
        /\ When(x[6] # {}, IF Now \in x[6] THEN Now ELSE At(system_time_from_time(Secs(x[6]), Nsecs(x[6])))) = x[6]
        /\ When(x[7] # {}, At(system_time_from_time(Secs(x[7]), Nsecs(x[7])))) = x[7]
    BY <1>1, TimeSent DEF Resent
  <2>4. /\ When(contains(a.valid, FATTR_MODE), a.mode) = x[1]
        /\ When(contains(a.valid, FATTR_UID), a.uid) = x[2]
        /\ When(contains(a.valid, FATTR_GID), a.gid) = x[3]
        /\ When(contains(a.valid, FATTR_SIZE), a.size) = x[4]
        /\ When(contains(a.valid, FATTR_FH), a.fh) = x[8]
        /\ contains(a.valid, FATTR_KILL_SUIDGID) = x[9]
    BY <1>2, <2>1, <2>2 DEF FATTR_MODE, FATTR_UID, FATTR_GID, FATTR_SIZE, FATTR_FH, FATTR_KILL_SUIDGID
  <2>5. When(contains(a.valid, FATTR_ATIME),
             IF contains(a.valid, FATTR_ATIME_NOW) THEN Now ELSE At(system_time_from_time(a.atime, a.atimensec))) = x[5]
    <3>1. contains(a.valid, FATTR_ATIME) = (x[5] # {}) /\ contains(a.valid, FATTR_ATIME_NOW) = (Now \in x[5])
      BY <1>2, <2>1 DEF FATTR_ATIME, FATTR_ATIME_NOW
    <3> QED
      BY <2>1, <2>3, <3>1, Zenon
  <2>6. When(contains(a.valid, FATTR_MTIME),
             IF contains(a.valid, FATTR_MTIME_NOW) THEN Now ELSE At(system_time_from_time(a.mtime, a.mtimensec))) = x[6]
    <3>1. contains(a.valid, FATTR_MTIME) = (x[6] # {}) /\ contains(a.valid, FATTR_MTIME_NOW) = (Now \in x[6])
      BY <1>2, <2>1 DEF FATTR_MTIME, FATTR_MTIME_NOW
    <3> QED
      BY <2>1, <2>3, <3>1, Zenon
  <2>7. When(contains(a.valid, FATTR_CTIME), At(system_time_from_time(a.ctime, a.ctimensec))) = x[7]
    BY <1>2, <2>1, <2>3 DEF FATTR_CTIME
  <2>8. SetAttrArgs(a) = <<x[1], x[2], x[3], x[4], x[5], x[6], x[7], x[8], x[9]>>
    BY <2>4, <2>5, <2>6, <2>7 DEF SetAttrArgs
  <2> QED
    BY <1>1, <2>8
<1>8. \A h, p : Args("SETATTR", h, p) = SetAttrArgs(p.arg)
  <2> SUFFICES ASSUME NEW h, NEW p PROVE Args("SETATTR", h, p) = SetAttrArgs(p.arg)
    OBVIOUS
  <2>1. Args("SETATTR", h, p) = NodeArgs("SETATTR", h, p)
    BY DEF Args, NodeOps, AccessOps, XattrOps, LockOps, LaterOps
  <2> QED
    BY <2>1 DEF NodeArgs
<1>9. \A a : Holds(fuse_setattr_in, a, data) =>
            Reads("SETATTR", x, acl, [arg |-> a, strs |-> <<>>, rest |-> <<>>])
  BY <1>6, <1>7, <1>8, AlwaysServed
<1> QED
  BY <1>3, <1>5, <1>6, <1>9, PlainUnderstood

(* Short messages put together.                                            *)
LEMMA FourJoined ==
    ASSUME NEW S, NEW a \in S, NEW b \in S, NEW c \in S, NEW d \in S
    PROVE  <<a, b>> \o <<c, d>> = <<a, b, c, d>>
<1> DEFINE u == <<a, b>>
           v == <<c, d>>
           w == <<a, b, c, d>>
           z == u \o v
<1>1. u \in Seq(S) /\ Len(u) = 2 /\ u[1] = a /\ u[2] = b
  OBVIOUS
<1>2. v \in Seq(S) /\ Len(v) = 2 /\ v[1] = c /\ v[2] = d
  OBVIOUS
<1>3. w \in Seq(S) /\ Len(w) = 4 /\ w[1] = a /\ w[2] = b /\ w[3] = c /\ w[4] = d
  OBVIOUS
<1> HIDE DEF u, v, w
<1>4. u \in Seq(S) /\ v \in Seq(S)
  BY <1>1, <1>2
<1>5. /\ z \in Seq(S) /\ Len(z) = Len(u) + Len(v)
      /\ \A i \in 1 .. Len(u) : z[i] = u[i]
      /\ \A i \in 1 .. Len(v) : z[Len(u) + i] = v[i]
  BY <1>4, ConcatAt
<1>6. z[1] = a /\ z[2] = b /\ z[3] = c /\ z[4] = d
  <2> HIDE DEF z
  <2>1. z[1] = a /\ z[2] = b /\ z[2 + 1] = c /\ z[2 + 2] = d
    BY <1>1, <1>2, <1>5
  <2> QED
    BY <2>1
<1> HIDE DEF z
<1>7. \A i \in 1 .. Len(z) : z[i] = w[i]
  BY <1>1, <1>2, <1>3, <1>5, <1>6
<1>8. z = w
  BY <1>1, <1>2, <1>3, <1>5, <1>7, EqualSeqs
<1> QED
  BY <1>8 DEF z, u, v, w

LEMMA TwoJoined ==
    ASSUME NEW S, NEW a \in S, NEW b \in S
    PROVE  <<a>> \o <<b>> = <<a, b>>
<1> DEFINE u == <<a>>
           v == <<b>>
           w == <<a, b>>
           z == u \o v
<1>1. u \in Seq(S) /\ Len(u) = 1 /\ u[1] = a
  OBVIOUS
<1>2. v \in Seq(S) /\ Len(v) = 1 /\ v[1] = b
  OBVIOUS
<1>3. w \in Seq(S) /\ Len(w) = 2 /\ w[1] = a /\ w[2] = b
  OBVIOUS
<1> HIDE DEF u, v, w
<1>4. u \in Seq(S) /\ v \in Seq(S)
  BY <1>1, <1>2
<1>5. /\ z \in Seq(S) /\ Len(z) = Len(u) + Len(v)
      /\ \A i \in 1 .. Len(u) : z[i] = u[i]
      /\ \A i \in 1 .. Len(v) : z[Len(u) + i] = v[i]
  BY <1>4, ConcatAt
<1>6. z[1] = a /\ z[2] = b
  <2> HIDE DEF z
  <2>1. z[1] = a /\ z[1 + 1] = b
    BY <1>1, <1>2, <1>5
  <2> QED
    BY <2>1
<1> HIDE DEF z
<1>7. \A i \in 1 .. Len(z) : z[i] = w[i]
  BY <1>1, <1>2, <1>3, <1>5, <1>6
<1>8. z = w
  BY <1>1, <1>2, <1>3, <1>5, <1>7, EqualSeqs
<1> QED
  BY <1>8 DEF z, u, v, w

LEMMA ShortStr == Str(<<1>>) = <<1, 0>>
<1> DEFINE w == Str(<<1>>)
           z == <<1, 0>>
<1>1. w \in Seq(Int) /\ Len(w) = 2 /\ w[1] = 1 /\ w[2] = 0
  BY DEF Str
<1>2. z \in Seq(Int) /\ Len(z) = 2 /\ z[1] = 1 /\ z[2] = 0
  OBVIOUS
<1> HIDE DEF w, z
<1>3. \A i \in 1 .. Len(w) : w[i] = z[i]
  BY <1>1, <1>2
<1>4. w = z
  BY <1>1, <1>2, <1>3, EqualSeqs
<1> QED
  BY <1>4 DEF w, z

(* The structure of SETXATTR, as INIT agreed on it.                        *)
setxattr_in(ext) ==
    IF ext THEN <<"size", "flags", "setxattr_flags", "padding">> ELSE <<"size", "flags">>

(* Its fields are distinct, and setxattr_flags is one of them if and only  *)
(* if the extension was agreed on.                                         *)
LEMMA SetXAttrStruct ==
    ASSUME NEW ext \in BOOLEAN
    PROVE  /\ Struct("SETXATTR", ext) = setxattr_in(ext) /\ Distinct(setxattr_in(ext))
           /\ Len(setxattr_in(ext)) = IF ext THEN 4 ELSE 2
           /\ ("setxattr_flags" \in ToSet(setxattr_in(ext))) = ext
           /\ NameCount("SETXATTR") = 1
<1>1. fuse_setxattr_in \o fuse_setxattr_in_ext = <<"size", "flags", "setxattr_flags", "padding">>
  <2> DEFINE S == {"size", "flags", "setxattr_flags", "padding"}
  <2>1. "size" \in S /\ "flags" \in S /\ "setxattr_flags" \in S /\ "padding" \in S
    OBVIOUS
  <2> HIDE DEF S
  <2> QED
    BY <2>1, FourJoined DEF fuse_setxattr_in, fuse_setxattr_in_ext
<1>2. Struct("SETXATTR", ext) = setxattr_in(ext)
  BY <1>1 DEF Struct, setxattr_in, fuse_setxattr_in, LockOps
<1>3. CASE ext
  <2>1. setxattr_in(ext) = <<"size", "flags", "setxattr_flags", "padding">>
    BY <1>3 DEF setxattr_in
  <2>2. Distinct(setxattr_in(ext)) /\ Len(setxattr_in(ext)) = 4
    BY <2>1 DEF Distinct
  <2>3. "setxattr_flags" \in ToSet(setxattr_in(ext))
    BY <2>1 DEF ToSet
  <2> QED
    BY <1>2, <1>3, <2>2, <2>3 DEF NameCount, TwoNames, OneName, NameOps
<1>4. CASE ~ext
  <2>1. setxattr_in(ext) = <<"size", "flags">>
    BY <1>4 DEF setxattr_in
  <2>2. Distinct(setxattr_in(ext)) /\ Len(setxattr_in(ext)) = 2
    BY <2>1 DEF Distinct
  <2>3. "setxattr_flags" \notin ToSet(setxattr_in(ext))
    BY <2>1 DEF ToSet
  <2> QED
    BY <1>2, <1>4, <2>2, <2>3 DEF NameCount, TwoNames, OneName, NameOps
<1> QED
  BY <1>3, <1>4

(* How the kernel lays it out.                                             *)
LEMMA SetXAttrSent ==
    ASSUME NEW ext \in BOOLEAN, NEW acl \in 0 .. 1, NEW x \in AskedArgs("SETXATTR")
    PROVE  /\ x = <<x[1], x[2], x[3]>> /\ x[1] \in Seq(Nat \ {0}) /\ x[1] # <<>> /\ x[2] \in Seq(Int) /\ x[3] \in Ids
           /\ Body("SETXATTR", x, ext, acl)
                = (IF ext THEN <<Len(x[2]), x[3], acl, 0>> ELSE <<Len(x[2]), x[3]>>) \o (Str(x[1]) \o x[2])
<1>1. x = <<x[1], x[2], x[3]>> /\ x[1] \in Seq(Nat \ {0}) /\ x[1] # <<>> /\ x[2] \in Seq(Int) /\ x[3] \in Ids
  BY WireAssumption DEF AskedArgs, NameOps, PlainOps, UnservedOps
<1> DEFINE a == <<Len(x[2]), x[3]>>
           e == IF ext THEN <<acl, 0>> ELSE <<>>
           data == IF ext THEN <<Len(x[2]), x[3], acl, 0>> ELSE <<Len(x[2]), x[3]>>
<1>2. Body("SETXATTR", x, ext, acl) = ((a \o e) \o Str(x[1])) \o x[2]
  BY DEF Body, NameOps, UnservedOps, LockOps
<1>3. a \o e = data /\ data \in Seq(Int)
  <2>1. Len(x[2]) \in Int /\ x[3] \in Int /\ acl \in Int
    BY <1>1 DEF Ids
  <2>2. CASE ext
    <3>1. <<Len(x[2]), x[3]>> \o <<acl, 0>> = <<Len(x[2]), x[3], acl, 0>>
      BY <2>1, FourJoined
    <3> QED
      BY <2>1, <2>2, <3>1
  <2>3. CASE ~ext
    <3> DEFINE d == <<Len(x[2]), x[3]>>
    <3>1. d \in Seq(Int)
      BY <2>1
    <3> HIDE DEF d
    <3>2. d \o <<>> = d
      BY <3>1
    <3> QED
      BY <2>3, <3>1, <3>2 DEF d
  <2> QED
    BY <2>2, <2>3
<1> HIDE DEF a, e, data
<1>4. ((a \o e) \o Str(x[1])) \o x[2] = data \o (Str(x[1]) \o x[2])
  BY <1>1, <1>3, StrConcat
<1> QED
  BY <1>1, <1>2, <1>4 DEF data

(* SETXATTR laid out as agreed on is understood.                           *)
LEMMA SetXAttrUnderstood ==
    ASSUME NEW ext \in BOOLEAN, NEW acl \in 0 .. 1, acl # 0 => ext, NEW x \in AskedArgs("SETXATTR")
    PROVE  Understood("SETXATTR", x, ext, acl)
<1> DEFINE op == "SETXATTR"
           struct == setxattr_in(ext)
           data == IF ext THEN <<Len(x[2]), x[3], acl, 0>> ELSE <<Len(x[2]), x[3]>>
           tail == Str(x[1]) \o x[2]
           strs == <<x[1]>>
           rest == x[2]
<1>1. /\ x = <<x[1], x[2], x[3]>> /\ x[1] \in Seq(Nat \ {0}) /\ x[2] \in Seq(Int) /\ x[3] \in Ids
      /\ Body(op, x, ext, acl) = data \o tail
  BY SetXAttrSent
<1>2. /\ Struct(op, ext) = struct /\ Distinct(struct) /\ Len(struct) = (IF ext THEN 4 ELSE 2)
      /\ ("setxattr_flags" \in ToSet(struct)) = ext /\ NameCount(op) = 1
      /\ struct[1] = "size" /\ struct[2] = "flags" /\ (ext => struct[3] = "setxattr_flags")
  BY SetXAttrStruct DEF setxattr_in
<1>3. tail \in Seq(Int) /\ FetchNames(NameCount(op), tail) = {[strs |-> strs, rest |-> rest]}
  BY <1>1, <1>2, NameFetched
<1>4. /\ data \in Seq(Int) /\ Len(data) = Len(struct) /\ data[1] = Len(x[2]) /\ data[2] = x[3]
      /\ ext => data[3] = acl
  BY <1>1, <1>2 DEF Ids
<1>5. strs[1] = x[1]
  OBVIOUS
<1> HIDE DEF data, tail, strs, struct, rest
<1>6. PICK a : Holds(struct, a, data) /\ Yields(op, data \o tail, ext, [arg |-> a, strs |-> strs, rest |-> rest])
  BY <1>2, <1>3, <1>4, ParsedOne
<1>7. /\ a.size = Len(x[2]) /\ a.flags = x[3] /\ (ext => a.setxattr_flags = acl)
      /\ ("setxattr_flags" \in DOMAIN a) = ext
  <2>1. a[struct[1]] = data[1] /\ a[struct[2]] = data[2] /\ (ext => a[struct[3]] = data[3])
    BY <1>2, <1>6 DEF Holds
  <2> QED
    BY <1>2, <1>4, <1>6, <2>1 DEF Holds
<1> DEFINE p == [arg |-> a, strs |-> strs, rest |-> rest]
<1>8. p.arg = a /\ p.strs = strs /\ p.rest = rest /\ Yields(op, data \o tail, ext, p)
  BY <1>6
<1> HIDE DEF p
<1>9. Accepts(op, p)
  BY <1>7, <1>8 DEF Accepts, rest
<1>10. parse(op, data \o tail, ext) = {p}
  BY <1>8, <1>9 DEF Yields
<1>11. ASSUME NEW h PROVE Args(op, h, p) = x
  <2>1. Args(op, h, p) = AccessArmArgs(op, p)
    BY DEF Args, NodeOps, AccessOps, XattrOps, LockOps, LaterOps
  <2>2. AccessArmArgs(op, p) = SetXAttrArgs(p.arg, p.strs, p.rest)
    BY DEF AccessArmArgs
  <2> QED
    BY <1>1, <1>5, <1>7, <1>8, <2>1, <2>2 DEF SetXAttrArgs, rest
<1>12. Refused(op, a) = Unservable(op, x, acl)
  <2>1. Unservable(op, x, acl) = When(acl # 0, "ENOTSUP")
    BY DEF Unservable, UnservedOps
  <2>2. CASE acl # 0
    BY <1>7, <2>1, <2>2 DEF Refused, UnservedOps, Offsets, When
  <2>3. CASE acl = 0
    <3>1. ~("setxattr_flags" \in DOMAIN a /\ a.setxattr_flags # 0)
      BY <1>7, <2>3
    <3> QED
      BY <2>1, <2>3, <3>1 DEF Refused, UnservedOps, Offsets, When
  <2> QED
    BY <2>2, <2>3
<1>13. ~ParsePanics(op, p)
  BY DEF ParsePanics
<1>14. Reads(op, x, acl, p)
  BY <1>8, <1>11, <1>12, <1>13 DEF Reads
<1> QED
  BY <1>1, <1>10, <1>14 DEF Understood

(* Laid out the other way, it is rejected: with the extension where none   *)
(* was agreed on, the value has not the length the structure gives;        *)
(* without it, the name's first unit is taken for flags, and is not 0.     *)
LEMMA MislaidRejected ==
    ASSUME NEW ext \in BOOLEAN, NEW acl \in 0 .. 1, acl # 0 => ~ext, NEW x \in AskedArgs("SETXATTR"),
           NEW p \in parse("SETXATTR", Body("SETXATTR", x, ~ext, acl), ext)
    PROVE  Refused("SETXATTR", p.arg) = {"ENOTSUP"}
<1> DEFINE op == "SETXATTR"
           struct == setxattr_in(ext)
           name == x[1]
           value == x[2]
           w == Str(name) \o value
           body == Body(op, x, ~ext, acl)
<1>1. /\ name \in Seq(Nat \ {0}) /\ name # <<>> /\ value \in Seq(Int) /\ x[3] \in Ids
      /\ body = (IF ~ext THEN <<Len(value), x[3], acl, 0>> ELSE <<Len(value), x[3]>>) \o w
  <2>1. (~ext) \in BOOLEAN
    OBVIOUS
  <2> QED
    BY <2>1, SetXAttrSent
<1>2. /\ Struct(op, ext) = struct /\ Distinct(struct) /\ Len(struct) = (IF ext THEN 4 ELSE 2)
      /\ ("setxattr_flags" \in ToSet(struct)) = ext /\ NameCount(op) = 1
      /\ struct[1] = "size" /\ struct[2] = "flags" /\ (ext => struct[3] = "setxattr_flags")
  BY SetXAttrStruct DEF setxattr_in
<1>3. /\ w \in Seq(Int) /\ Len(w) \in Nat /\ Len(w) > Len(value) /\ Len(value) \in Nat
      /\ 1 \in 1 .. Len(w) /\ w[1] = name[1] /\ name[1] \in Nat \ {0} /\ x[3] \in Int
  <2>1. Len(name) \in Nat \ {0} /\ name[1] \in Nat \ {0}
    BY <1>1
  <2>2. Str(name) \in Seq(Int) /\ Len(Str(name)) = Len(name) + 1 /\ Str(name)[1] = name[1]
    <3> DEFINE n == name
    <3>1. n \in Seq(Nat \ {0}) /\ Len(n) \in Nat \ {0}
      BY <1>1, <2>1
    <3> HIDE DEF n
    <3>2. Append(n, 0) \in Seq(Int) /\ Len(Append(n, 0)) = Len(n) + 1
      BY <3>1
    <3>3. Append(n, 0)[1] = n[1]
      BY <3>1
    <3> QED
      BY <3>2, <3>3 DEF Str, n
  <2> DEFINE s == Str(name)
  <2> HIDE DEF s
  <2>3. s \in Seq(Int) /\ value \in Seq(Int) /\ Len(value) \in Nat
    <3>1. value \in Seq(Int)
      BY <1>1
    <3> HIDE DEF value
    <3>2. Len(value) \in Nat
      BY <3>1
    <3> QED
      BY <2>2, <3>1, <3>2 DEF s
  <2>4. /\ s \o value \in Seq(Int) /\ Len(s \o value) = Len(s) + Len(value)
        /\ \A i \in 1 .. Len(s) : (s \o value)[i] = s[i]
    BY <2>3, ConcatAt
  <2>5. 1 \in 1 .. Len(s)
    BY <2>1, <2>2 DEF s
  <2>6. w = s \o value
    BY DEF s
  <2> HIDE DEF w
  <2>7. x[3] \in Int
    BY <1>1 DEF Ids
  <2>8. Len(s) = Len(name) + 1 /\ s[1] = name[1]
    BY <2>2 DEF s
  <2>9. w \in Seq(Int) /\ Len(w) = Len(s) + Len(value) /\ w[1] = s[1]
    <3>1. (s \o value)[1] = s[1]
      BY <2>4, <2>5
    <3> QED
      BY <2>4, <2>6, <3>1, Zenon
  <2> HIDE DEF name, value
  <2>10. Len(w) = Len(name) + 1 + Len(value) /\ w[1] = name[1]
    BY <2>1, <2>3, <2>8, <2>9
  <2>11. Len(w) \in Nat /\ Len(w) > Len(value) /\ 1 \in 1 .. Len(w)
    BY <2>1, <2>3, <2>10
  <2> QED
    BY <2>1, <2>3, <2>7, <2>9, <2>10, <2>11
<1>4. p \in parse(op, body, ext)
  OBVIOUS
<1> HIDE DEF struct, w, body
<1>5. CASE ~ext
  <2> DEFINE data == <<Len(value), x[3]>>
             first == IF acl = 0 THEN <<>> ELSE <<1>>
             strs == <<first>>
             rest == (IF acl = 0 THEN <<0>> ELSE <<>>) \o w
             tail == Str(first) \o rest
  <2>1. /\ first \in Seq(Nat \ {0}) /\ rest \in Seq(Int) /\ tail \in Seq(Int)
        /\ Len(rest) > Len(value)
    <3>1. first \in Seq(Nat \ {0})
      <4>1. <<>> \in Seq(Nat \ {0}) /\ <<1>> \in Seq(Nat \ {0})
        OBVIOUS
      <4> QED
        BY <4>1
    <3> DEFINE before == IF acl = 0 THEN <<0>> ELSE <<>>
    <3>2. before \in Seq(Int) /\ Len(before) >= 0 /\ Len(before) \in Nat
      OBVIOUS
    <3> HIDE DEF before, first
    <3>3. before \o w \in Seq(Int) /\ Len(before \o w) = Len(before) + Len(w)
      BY <1>3, <3>2, ConcatAt
    <3>4. before \o w \in Seq(Int) /\ Len(before \o w) > Len(value)
      BY <1>3, <3>2, <3>3
    <3>5. rest \in Seq(Int) /\ Len(rest) > Len(value)
      BY <3>4 DEF before
    <3> QED
      BY <3>1, <3>5, NameFetched
  <2>2. body = data \o tail
    <3>1. body = <<Len(value), x[3], acl, 0>> \o w
      BY <1>1, <1>5
    <3>2. w \in Seq(Int) /\ Len(value) \in Int /\ x[3] \in Int /\ acl \in Int
      BY <1>3
    <3>3. tail = IF acl = 0 THEN Str(<<>>) \o (<<0>> \o w) ELSE Str(<<1>>) \o (<<>> \o w)
      OBVIOUS
    <3>4. Str(<<>>) = <<0>> /\ Str(<<1>>) = <<1, 0>>
      BY ShortStr DEF Str
    <3> HIDE DEF tail
    <3>5. tail = <<acl, 0>> \o w
      <4>1. CASE acl = 0
        <5> DEFINE z == <<0>>
        <5>1. z \o z = <<0, 0>>
          <6>1. 0 \in Int
            OBVIOUS
          <6> QED
            BY <6>1, TwoJoined
        <5>2. tail = z \o (z \o w)
          BY <3>3, <3>4, <4>1
        <5>3. z \in Seq(Int)
          OBVIOUS
        <5> HIDE DEF z
        <5>4. (z \o z) \o w = z \o (z \o w)
          BY <3>2, <5>3, Associative, Zenon
        <5> QED
          BY <4>1, <5>1, <5>2, <5>4
      <4>2. CASE acl = 1
        <5>1. <<>> \o w = w
          BY <3>2
        <5>2. tail = Str(<<1>>) \o (<<>> \o w)
          BY <3>3, <4>2
        <5>3. tail = <<1, 0>> \o w
          BY <3>4, <5>1, <5>2, Zenon
        <5> QED
          BY <4>2, <5>3
      <4> QED
        BY <4>1, <4>2
    <3>6. <<Len(value), x[3], acl, 0>> \o w = <<Len(value), x[3]>> \o (<<acl, 0>> \o w)
      <4> DEFINE d == <<Len(value), x[3]>>
                 e == <<acl, 0>>
      <4>1. d \o e = <<Len(value), x[3], acl, 0>>
        <5>1. Len(value) \in Int /\ x[3] \in Int /\ acl \in Int /\ 0 \in Int
          BY <3>2
        <5>2. \A i, j, k, l \in Int : <<i, j>> \o <<k, l>> = <<i, j, k, l>>
          BY FourJoined
        <5> QED
          BY <5>1, <5>2
      <4>2. d \in Seq(Int) /\ e \in Seq(Int)
        BY <3>2
      <4> HIDE DEF d, e
      <4>3. (d \o e) \o w = d \o (e \o w)
        BY <3>2, <4>2, Associative, Zenon
      <4> QED
        BY <4>1, <4>3 DEF d, e
    <3> QED
      BY <3>1, <3>5, <3>6
  <2>3. data \in Seq(Int) /\ Len(data) = Len(struct) /\ data[1] = Len(value)
    BY <1>1, <1>2, <1>3, <1>5 DEF Ids
  <2> HIDE DEF data, first, rest, strs
  <2>4. FetchNames(NameCount(op), tail) = {[strs |-> strs, rest |-> rest]}
    BY <1>2, <2>1, NameFetched DEF strs
  <2> HIDE DEF tail
  <2>5. PICK a : Holds(struct, a, data) /\ Yields(op, data \o tail, ext, [arg |-> a, strs |-> strs, rest |-> rest])
    BY <1>2, <2>1, <2>3, <2>4, ParsedOne
  <2>6. a.size = Len(value)
    <3>1. a[struct[1]] = data[1]
      BY <1>2, <1>5, <2>5 DEF Holds
    <3> QED
      BY <1>2, <2>3, <3>1
  <2> DEFINE q == [arg |-> a, strs |-> strs, rest |-> rest]
  <2>7. q.arg = a /\ q.rest = rest /\ Yields(op, data \o tail, ext, q)
    BY <2>5
  <2> HIDE DEF q
  <2>8. ~Accepts(op, q)
    BY <1>3, <2>1, <2>6, <2>7 DEF Accepts
  <2>9. parse(op, body, ext) = {}
    BY <2>2, <2>7, <2>8 DEF Yields
  <2> QED
    BY <1>4, <2>9
<1>6. CASE ext
  <2>1. PICK s \in fetch(struct, body) : p.arg = s.arg
    <3>1. p \in UNION {{[arg |-> u.arg, strs |-> n.strs, rest |-> n.rest] :
                          n \in FetchNames(NameCount(op), u.rest)} : u \in fetch(struct, body)}
      BY <1>2, <1>4 DEF parse
    <3>2. PICK u \in fetch(struct, body) :
             p \in {[arg |-> u.arg, strs |-> n.strs, rest |-> n.rest] : n \in FetchNames(NameCount(op), u.rest)}
      BY <3>1
    <3>3. PICK n \in FetchNames(NameCount(op), u.rest) : p = [arg |-> u.arg, strs |-> n.strs, rest |-> n.rest]
      BY <3>2
    <3> QED
      BY <3>3
  <2>2. s.arg = [f \in ToSet(struct) |-> body[CHOOSE i \in DOMAIN struct : struct[i] = f]]
    <3>1. fetch(struct, body) # {}
      BY <2>1
    <3>2. fetch(struct, body)
            = {[arg |-> [f \in ToSet(struct) |-> body[CHOOSE i \in DOMAIN struct : struct[i] = f]],
                rest |-> SubSeq(body, Len(struct) + 1, Len(body))]}
      BY <3>1 DEF fetch
    <3> DEFINE all == [f \in ToSet(struct) |-> body[CHOOSE i \in DOMAIN struct : struct[i] = f]]
    <3>3. fetch(struct, body) = {[arg |-> all, rest |-> SubSeq(body, Len(struct) + 1, Len(body))]}
      BY <3>2
    <3> HIDE DEF all
    <3>4. s.arg = all
      BY <3>3
    <3> QED
      BY <3>4 DEF all
  <2>3. (CHOOSE i \in DOMAIN struct : struct[i] = "setxattr_flags") = 3
    BY <1>2, <1>6 DEF Distinct
  <2>4. body[3] = name[1]
    <3> DEFINE data == <<Len(value), x[3]>>
    <3>1. body = data \o w
      BY <1>1, <1>6
    <3>2. data \in Seq(Int) /\ Len(data) = 2
      BY <1>3
    <3> HIDE DEF data
    <3>3. data \in Seq(Int) /\ w \in Seq(Int)
      BY <1>3, <3>2
    <3>4. \A i \in 1 .. Len(w) : (data \o w)[Len(data) + i] = w[i]
      BY <3>3, ConcatAt
    <3> DEFINE b == data \o w
    <3> HIDE DEF b
    <3>5. b[Len(data) + 1] = w[1]
      BY <1>3, <3>4 DEF b
    <3>6. body = b
      BY <3>1 DEF b
    <3> QED
      BY <1>3, <3>2, <3>5, <3>6
  <2>5. "setxattr_flags" \in ToSet(struct)
    BY <1>2, <1>6
  <2>6. DOMAIN p.arg = ToSet(struct) /\ p.arg["setxattr_flags"] = body[3]
    BY <2>1, <2>2, <2>3, <2>5
  <2>7. p.arg.setxattr_flags # 0 /\ "setxattr_flags" \in DOMAIN p.arg
    BY <1>3, <2>4, <2>5, <2>6
  <2> QED
    BY <2>7 DEF Refused, UnservedOps, Offsets
<1> QED
  BY <1>5, <1>6

---------------------------------------------------------------------------
(* Exchanges.                                                              *)

(* Every other request is understood.                                      *)
LEMMA RequestUnderstood ==
    ASSUME NEW op \in Ops \ {"SETXATTR"}, NEW ext, NEW acl, NEW x \in AskedArgs(op)
    PROVE  Understood(op, x, ext, acl)
<1>1. CASE op \in NameOps
  BY <1>1, LookupUnderstood, UnlinkUnderstood, RmDirUnderstood, RemoveXAttrUnderstood DEF NameOps
<1>2. CASE op \in PlainOps \cup UnservedOps
  BY <1>2, BareUnderstood, SyncFsUnderstood DEF PlainOps
<1>3. CASE op \in ForgetOps \cup AttrOps \cup {"SETATTR", "LINK"}
  BY <1>3, ForgetUnderstood, BatchForgetUnderstood, GetAttrUnderstood, StatXUnderstood, SetAttrUnderstood,
     LinkUnderstood DEF ForgetOps, AttrOps
<1>4. CASE op \in MakeOps \cup RenameOps
  BY <1>4, SymLinkUnderstood, MkNodUnderstood, MkDirUnderstood, CreateUnderstood, TmpFileUnderstood,
     RenameUnderstood, Rename2Understood DEF MakeOps, RenameOps
<1>5. CASE op \in OpenOps
  BY <1>5, OpenUnderstood, OpenDirUnderstood, ReleaseUnderstood, ReleaseDirUnderstood, FlushUnderstood,
     FSyncUnderstood, FSyncDirUnderstood DEF OpenOps
<1>6. CASE op \in DataOps
  BY <1>6, ReadUnderstood, WriteUnderstood, FAllocateUnderstood, CopyFileRangeUnderstood,
     LseekUnderstood DEF DataOps
<1>7. CASE op \in XattrOps
  BY <1>7, GetXAttrUnderstood, ListXAttrUnderstood DEF XattrOps
<1>8. CASE op \in LockOps
  BY <1>8, GetLkUnderstood, SetLkUnderstood, SetLkWUnderstood DEF LockOps
<1>9. CASE op \in OtherOps
  BY <1>9, AccessUnderstood, BMapUnderstood, PollUnderstood, IoCtlUnderstood DEF OtherOps
<1> QED
  BY <1>1, <1>2, <1>3, <1>4, <1>5, <1>6, <1>7, <1>8, <1>9 DEF Ops

(* The id on the wire is the caller's, or with idmapping the owner's.      *)
OwnedAsMeant(op, x, caller, mapped, h, a) ==
    /\ request_header(h) = IF idmapped THEN Invalid ELSE caller
    /\ Owner(op, h, a) = IF Creates(op, x) THEN {IF idmapped THEN mapped ELSE caller} ELSE {}

(* The filesystem sees them so, and no id that stands for none.            *)
LEMMA OwnerMeant ==
    ASSUME NEW op, NEW x, NEW caller \in Ids, NEW mapped \in Ids, NEW h, NEW a,
           h.uid = SentId(op, x, caller, mapped), op = "RENAME2" => a.flags = x[4]
    PROVE  OwnedAsMeant(op, x, caller, mapped, h, a)
<1>1. request_header(h) = IF idmapped THEN Invalid ELSE caller
  BY DEF request_header, SentId
<1>2. CASE op \in MakeOps
  <2>1. Creates(op, x) /\ Owner(op, h, a) = {h.uid}
    BY <1>2 DEF Creates, Owner, MakeOps
  <2> QED
    BY <1>1, <2>1 DEF OwnedAsMeant, SentId
<1>3. CASE op = "RENAME2"
  <2>1. /\ Creates(op, x) <=> contains(x[4], RENAME_WHITEOUT)
        /\ Owner(op, h, a) = When(contains(x[4], RENAME_WHITEOUT) /\ h.uid # Invalid, h.uid)
    <3>1. Creates(op, x) <=> contains(x[4], RENAME_WHITEOUT)
      BY <1>3 DEF Creates, MakeOps
    <3>2. Owner(op, h, a) = whiteout_owner(h, a.flags) /\ a.flags = x[4]
      BY <1>3 DEF Owner, MakeOps
    <3> QED
      BY <3>1, <3>2 DEF whiteout_owner
  <2>2. Invalid # caller /\ Invalid # mapped
    BY WireAssumption
  <2> QED
    BY <1>1, <2>1, <2>2 DEF OwnedAsMeant, SentId, When
<1>4. CASE op \notin MakeOps \cup {"RENAME2"}
  BY <1>1, <1>4 DEF OwnedAsMeant, Creates, Owner, MakeOps
<1> QED
  BY <1>2, <1>3, <1>4

(* There is one errno for a request that is not served.                    *)
LEMMA UnservableOne ==
    ASSUME NEW op, NEW x, NEW acl, Unservable(op, x, acl) # {}
    PROVE  \E e : Unservable(op, x, acl) = {e}
  BY DEF Unservable, When, UnservedOps

(* A request that is understood has the outcome it is meant to have.       *)
LEMMA Served ==
    ASSUME NEW op, NEW x, NEW acl, NEW caller \in Ids, NEW mapped \in Ids, NEW h, NEW body,
           body = Body(op, x, "SETXATTR_EXT" \in negotiated, acl),
           Understood(op, x, "SETXATTR_EXT" \in negotiated, acl),
           h.opcode = op, h.nodeid = 0, h.uid = SentId(op, x, caller, mapped)
    PROVE  IF Unservable(op, x, acl) # {} THEN {dispatch(h, body).result} = Unservable(op, x, acl)
           ELSE dispatch(h, body) = Meant(op, x, caller, mapped)
<1> DEFINE parsed == parse(op, body, "SETXATTR_EXT" \in negotiated)
           q == CHOOSE z \in parsed : TRUE
<1>1. PICK p : parsed = {p} /\ Reads(op, x, acl, p)
  BY DEF Understood
<1>2. q = p /\ parsed # {}
  BY <1>1
<1>3. dispatch(h, body)
        = IF parsed = {} THEN Answered("ENOSYS")
          ELSE IF op = "WRITE" /\ ParsePanics(op, q) THEN Answered("panic")
          ELSE IF Refused(op, q.arg) # {} THEN Answered(CHOOSE e \in Refused(op, q.arg) : TRUE)
          ELSE IF ParsePanics(op, q) THEN Answered("panic")
          ELSE Call(op, h, q)
  BY DEF dispatch
<1> HIDE DEF parsed, q
<1>4. CASE Unservable(op, x, acl) # {}
  <2>1. PICK e : Unservable(op, x, acl) = {e}
    BY <1>4, UnservableOne
  <2>2. Refused(op, p.arg) = {e} /\ ~(op = "WRITE" /\ ParsePanics(op, p))
    BY <1>1, <2>1 DEF Reads
  <2>3. dispatch(h, body) = Answered(e)
    BY <1>2, <1>3, <2>2
  <2> QED
    BY <1>4, <2>1, <2>3 DEF Answered
<1>5. CASE Unservable(op, x, acl) = {}
  <2>1. Refused(op, p.arg) = {} /\ ~ParsePanics(op, p) /\ Args(op, h, p) = x
    BY <1>1, <1>5 DEF Reads
  <2>2. dispatch(h, body) = Call(op, h, p)
    BY <1>2, <1>3, <2>1
  <2>3. op = "RENAME2" => p.arg.flags = x[4]
    BY <1>1 DEF Reads
  <2>4. OwnedAsMeant(op, x, caller, mapped, h, p.arg)
    BY <2>3, OwnerMeant
  <2>5. Call(op, h, p) = Meant(op, x, caller, mapped)
    BY <2>1, <2>4 DEF Call, Meant, OwnedAsMeant
  <2> QED
    BY <1>5, <2>2, <2>5
<1> QED
  BY <1>4, <1>5

(* SETXATTR laid out the other way is refused.                             *)
LEMMA MislaidRefused ==
    ASSUME NEW x \in AskedArgs("SETXATTR"), NEW acl \in 0 .. 1, NEW h, NEW body, h.opcode = "SETXATTR",
           acl # 0 => ~("SETXATTR_EXT" \in negotiated),
           body = Body("SETXATTR", x, ~("SETXATTR_EXT" \in negotiated), acl)
    PROVE  dispatch(h, body).result \in {"ENOSYS", "ENOTSUP"}
<1> DEFINE op == "SETXATTR"
           ext == "SETXATTR_EXT" \in negotiated
           parsed == parse(op, body, ext)
           q == CHOOSE z \in parsed : TRUE
<1>1. ASSUME NEW p \in parsed PROVE Refused(op, p.arg) = {"ENOTSUP"}
  <2>1. ext \in BOOLEAN
    OBVIOUS
  <2> HIDE DEF ext
  <2> QED
    BY <2>1, MislaidRejected DEF ext
<1>2. dispatch(h, body)
        = IF parsed = {} THEN Answered("ENOSYS")
          ELSE IF op = "WRITE" /\ ParsePanics(op, q) THEN Answered("panic")
          ELSE IF Refused(op, q.arg) # {} THEN Answered(CHOOSE e \in Refused(op, q.arg) : TRUE)
          ELSE IF ParsePanics(op, q) THEN Answered("panic")
          ELSE Call(op, h, q)
  BY DEF dispatch
<1>3. parsed # {} => q \in parsed
  OBVIOUS
<1> HIDE DEF parsed, q
<1>4. CASE parsed = {}
  BY <1>2, <1>4 DEF Answered
<1>5. CASE parsed # {}
  <2>1. Refused(op, q.arg) = {"ENOTSUP"}
    BY <1>1, <1>3, <1>5
  <2>2. dispatch(h, body) = Answered("ENOTSUP")
    BY <1>2, <1>5, <2>1
  <2> QED
    BY <2>2 DEF Answered
<1> QED
  BY <1>4, <1>5

(* What an exchange leaves behind.                                         *)
LEMMA Exchanged ==
    ASSUME NEW op \in Ops, NEW x \in AskedArgs(op), NEW caller \in Ids, NEW acl \in 0 .. 1, NEW mislaid \in BOOLEAN,
           op # "SETXATTR" => ~mislaid, op = "SETXATTR" /\ acl # 0 => ("SETXATTR_EXT" \in negotiated) # mislaid,
           Exchange(op, x, caller, 1 - caller, acl, mislaid)
    PROVE  /\ CalledAsMeant'
           /\ \/ times' = times
              \/ /\ op = "SETATTR" /\ x[5] \in Opt(Times)
                 /\ times' = [wanted |-> Kept(times.wanted, x[5]), kept |-> Kept(times.kept, x[5])]
<1> DEFINE ext == ("SETXATTR_EXT" \in negotiated) # mislaid
           h == [opcode |-> op, nodeid |-> 0, uid |-> SentId(op, x, caller, 1 - caller)]
           body == Body(op, x, ext, acl)
           made == dispatch(h, body)
           meant == Meant(op, x, caller, 1 - caller)
           refuse == Unservable(op, x, acl)
<1>1. /\ outcome' = made
      /\ asked' = [meant |-> meant, refuse |-> refuse, mislaid |-> mislaid]
      /\ times' = IF op = "SETATTR" /\ made.result = "call"
                  THEN [wanted |-> Kept(times.wanted, x[5]), kept |-> Kept(times.kept, made.args[5])]
                  ELSE times
  BY DEF Exchange
<1>2. asked'.meant = meant /\ asked'.refuse = refuse /\ asked'.mislaid = mislaid
  BY <1>1
<1>3. h.opcode = op /\ h.nodeid = 0 /\ h.uid = SentId(op, x, caller, 1 - caller) /\ 1 - caller \in Ids
  BY DEF Ids
<1>4. CASE mislaid
  <2>1. op = "SETXATTR" /\ ext = ~("SETXATTR_EXT" \in negotiated)
    BY <1>4
  <2> HIDE DEF h
  <2>2. body = Body("SETXATTR", x, ~("SETXATTR_EXT" \in negotiated), acl)
    BY <2>1
  <2> HIDE DEF body
  <2>3. made.result \in {"ENOSYS", "ENOTSUP"}
    BY <1>3, <1>4, <2>1, <2>2, MislaidRefused
  <2> HIDE DEF made
  <2> QED
    BY <1>1, <1>2, <1>4, <2>1, <2>3 DEF CalledAsMeant
<1>5. CASE ~mislaid
  <2>1. ext = ("SETXATTR_EXT" \in negotiated)
    BY <1>5
  <2>2. Understood(op, x, "SETXATTR_EXT" \in negotiated, acl)
    <3>1. CASE op = "SETXATTR"
      <4> DEFINE e == "SETXATTR_EXT" \in negotiated
      <4>1. e \in BOOLEAN /\ (acl # 0 => e)
        BY <1>5, <3>1
      <4> HIDE DEF e
      <4>2. Understood("SETXATTR", x, e, acl)
        BY <3>1, <4>1, SetXAttrUnderstood
      <4> QED
        BY <3>1, <4>2 DEF e
    <3>2. CASE op # "SETXATTR"
      BY <3>2, RequestUnderstood
    <3> QED
      BY <3>1, <3>2
  <2>3. body = Body(op, x, "SETXATTR_EXT" \in negotiated, acl)
    BY <2>1
  <2> HIDE DEF h, body
  <2>4. IF refuse # {} THEN {made.result} = refuse ELSE made = meant
    BY <1>3, <2>2, <2>3, Served
  <2> HIDE DEF made, meant, refuse
  <2>5. CalledAsMeant'
    BY <1>1, <1>2, <1>5, <2>4 DEF CalledAsMeant
  <2>6. CASE op = "SETATTR"
    <3>1. refuse = {}
      BY <2>6 DEF refuse, Unservable, UnservedOps
    <3>2. made.result = "call" /\ made.args = x
      BY <2>4, <3>1 DEF meant, Meant
    <3>3. x[5] \in Opt(Times)
      BY <2>6, SetAttrAsked
    <3> QED
      BY <1>1, <2>5, <2>6, <3>2, <3>3
  <2>7. CASE op # "SETATTR"
    BY <1>1, <2>5, <2>7
  <2> QED
    BY <2>6, <2>7
<1> QED
  BY <1>4, <1>5

---------------------------------------------------------------------------
(* The theorems.                                                           *)

(* Each step is an exchange, or leaves requests and times alone.           *)
LEMMA StepIsExchange ==
    ASSUME [Next]_vars
    PROVE  \/ UNCHANGED <<asked, outcome, times>>
           \/ \E op \in Ops, caller \in Ids, acl \in 0 .. 1, mislaid \in BOOLEAN : \E x \in AskedArgs(op) :
                 /\ op # "SETXATTR" => ~mislaid
                 /\ op = "SETXATTR" /\ acl # 0 => ("SETXATTR_EXT" \in negotiated) # mislaid
                 /\ Exchange(op, x, caller, 1 - caller, acl, mislaid)
<1>1. CASE Request
  <2>1. PICK op \in Ops \ {"SETXATTR"} : \E x \in AskedArgs(op), caller \in Ids : Exchange(op, x, caller, 1 - caller, 0, FALSE)
    BY <1>1 DEF Request
  <2>2. PICK x \in AskedArgs(op), caller \in Ids : Exchange(op, x, caller, 1 - caller, 0, FALSE)
    BY <2>1
  <2>3. 0 \in 0 .. 1 /\ FALSE \in BOOLEAN
    OBVIOUS
  <2> QED
    BY <2>2, <2>3
<1>2. CASE SetXattr
  <2>1. PICK x \in AskedArgs("SETXATTR"), caller \in Ids, acl \in 0 .. 1, mislaid \in BOOLEAN :
           /\ acl # 0 => ("SETXATTR_EXT" \in negotiated) # mislaid
           /\ Exchange("SETXATTR", x, caller, 1 - caller, acl, mislaid)
    BY <1>2 DEF SetXattr
  <2>2. "SETXATTR" \in Ops
    BY DEF Ops, XattrOps
  <2> QED
    BY <2>1, <2>2
<1>3. CASE ReadDir(FALSE) \/ ReadDir(TRUE)
  BY <1>3 DEF ReadDir
<1>4. CASE UNCHANGED vars
  BY <1>4 DEF vars
<1> QED
  BY <1>1, <1>2, <1>3, <1>4 DEF Next

(* A callback is called with exactly what the system call asked for, and   *)
(* what cannot be served is refused with the errno for it, whatever the    *)
(* opcode, the names, the data and what INIT agreed on: what op::parse and *)
(* the accessors of ll::op read is what the kernel's layout says, and      *)
(* SETXATTR laid out otherwise than agreed on is never applied.            *)
THEOREM MeantCorrect == Spec => []CalledAsMeant
<1>1. Init => CalledAsMeant
  BY DEF Init, CalledAsMeant, Nothing
<1>2. CalledAsMeant /\ [Next]_vars => CalledAsMeant'
  <2> SUFFICES ASSUME CalledAsMeant, [Next]_vars PROVE CalledAsMeant'
    OBVIOUS
  <2>1. CASE UNCHANGED <<asked, outcome, times>>
    BY <2>1 DEF CalledAsMeant
  <2>2. ASSUME NEW op \in Ops, NEW caller \in Ids, NEW acl \in 0 .. 1, NEW mislaid \in BOOLEAN, NEW x \in AskedArgs(op),
               op # "SETXATTR" => ~mislaid, op = "SETXATTR" /\ acl # 0 => ("SETXATTR_EXT" \in negotiated) # mislaid,
               Exchange(op, x, caller, 1 - caller, acl, mislaid)
        PROVE  CalledAsMeant'
    BY <2>2, Exchanged
  <2> QED
    BY <2>1, <2>2, StepIsExchange
<1> QED
  BY <1>1, <1>2, PTL DEF Spec

(* The file's time is one the wire can carry, and the one that was set.    *)
TimesKept ==
    /\ times.wanted = times.kept
    /\ times.kept \in I64Min * Second .. I64Max * Second + Second - 1

(* A time set through SETATTR is the time a later stat reports, for every  *)
(* range of seconds and every number of nanoseconds in one: Resent gives   *)
(* back what the flags and the two fields say, and RoundTrip the rest.     *)
THEOREM SurviveCorrect == Spec => []TimesSurvive
<1> DEFINE R == I64Min * Second .. I64Max * Second + Second - 1
<1>1. 0 \in R
  <2>1. Second \in Nat \ {0, 1} /\ I64Max \in Nat
    BY TimesAssumption
  <2>2. I64Max * Second \in Nat /\ I64Min * Second = -(I64Max * Second) - Second
    BY <2>1 DEF I64Min
  <2> QED
    BY <2>1, <2>2
<1>2. ASSUME NEW time \in Opt(Times), NEW old \in R PROVE Kept(old, time) \in R
  <2>1. CASE time = {}
    BY <2>1 DEF Kept
  <2>2. CASE time # {}
    <3>1. Val(time) \in Times
      BY <2>2, OptionSent
    <3>2. Val(time)[2] \in R
      <4> DEFINE v == Val(time)
      <4> HIDE DEF v
      <4>1. v \in Times
        BY <3>1 DEF v
      <4>2. CASE v = Now
        BY <1>1, <4>2 DEF Now, v
      <4>3. CASE v # Now
        <5>1. PICK t \in R : v = At(t)
          BY <4>1, <4>3 DEF Times
        <5> QED
          BY <5>1 DEF At, v
      <4> QED
        BY <4>2, <4>3
    <3> QED
      BY <2>2, <3>2 DEF Kept
  <2> QED
    BY <2>1, <2>2
<1> HIDE DEF R
<1>3. Init => TimesKept
  BY <1>1 DEF Init, TimesKept, R
<1>4. TimesKept /\ [Next]_vars => TimesKept'
  <2> SUFFICES ASSUME TimesKept, [Next]_vars PROVE TimesKept'
    OBVIOUS
  <2>1. CASE times' = times
    BY <2>1 DEF TimesKept
  <2>2. ASSUME NEW time \in Opt(Times),
               times' = [wanted |-> Kept(times.wanted, time), kept |-> Kept(times.kept, time)]
        PROVE  TimesKept'
    <3>1. times'.wanted = Kept(times.wanted, time) /\ times'.kept = Kept(times.kept, time)
      BY <2>2
    <3>2. Kept(times.kept, time) \in R
      BY <1>2 DEF TimesKept, R
    <3> QED
      BY <3>1, <3>2 DEF TimesKept, R
  <2>3. ASSUME NEW op \in Ops, NEW caller \in Ids, NEW acl \in 0 .. 1, NEW mislaid \in BOOLEAN, NEW x \in AskedArgs(op),
               op # "SETXATTR" => ~mislaid, op = "SETXATTR" /\ acl # 0 => ("SETXATTR_EXT" \in negotiated) # mislaid,
               Exchange(op, x, caller, 1 - caller, acl, mislaid)
        PROVE  TimesKept'
    <3>1. \/ times' = times
          \/ /\ x[5] \in Opt(Times)
             /\ times' = [wanted |-> Kept(times.wanted, x[5]), kept |-> Kept(times.kept, x[5])]
      BY <2>3, Exchanged
    <3> QED
      BY <2>1, <2>2, <3>1
  <2> QED
    BY <2>1, <2>3, StepIsExchange
<1>5. TimesKept => TimesSurvive
  <2> SUFFICES ASSUME TimesKept PROVE TimesSurvive
    OBVIOUS
  <2> DEFINE t == times.kept
             q == t \div Second
             r == t % Second
  <2>1. t \in R /\ times.wanted = t
    BY DEF TimesKept, R
  <2> HIDE DEF t
  <2>2. q \in I64 /\ r \in 0 .. Second - 1 /\ system_time_from_time(q, r) = t
    BY <2>1, TimeSplit DEF R
  <2> HIDE DEF q, r
  <2>3. time_from_system_time(t) = <<q, r>>
    BY <2>2, RoundTrip
  <2>4. q * Second + r = t
    BY <2>2, PlaceOnTheLine
  <2>5. <<q, r>> \in Timespec
    BY <2>2 DEF Timespec
  <2> QED
    BY <2>1, <2>3, <2>4, <2>5 DEF TimesSurvive, t
<1> QED
  BY <1>3, <1>4, <1>5, PTL DEF Spec

---------------------------------------------------------------------------
(* Directories: what one answer holds, and what the kernel finds in it.    *)

(* A set of numbers that is not empty has a least one; so what holds of 0, *)
(* and of the next number with each, holds up to any number.               *)
LEMMA LeastNumber ==
    ASSUME NEW T, T \subseteq Nat, T # {}
    PROVE  \E x \in T : \A y \in T : x <= y
<1> DEFINE R == OpToRel(<, Nat)
<1>1. IsWellFoundedOn(R, Nat)
  BY NatLessThanWellFounded
<1>2. \A x, y \in Nat : x < y => <<x, y>> \in R
  BY DEF OpToRel
<1> HIDE DEF R
<1>3. PICK x \in T : \A y \in T : <<y, x>> \notin R
  BY <1>1, WFMin
<1>4. \A y \in T : ~(y < x)
  BY <1>2, <1>3
<1> QED
  BY <1>4

LEMMA UpTo ==
    ASSUME NEW l \in Nat, NEW P, 0 \in P, \A k \in 1 .. l : k - 1 \in P => k \in P
    PROVE  \A k \in 0 .. l : k \in P
<1> DEFINE T == {k \in 0 .. l : k \notin P}
<1> SUFFICES ASSUME T # {} PROVE FALSE
  OBVIOUS
<1>1. T \subseteq Nat
  OBVIOUS
<1>2. PICK k \in T : \A y \in T : k <= y
  <2> HIDE DEF T
  <2> QED
    BY <1>1, LeastNumber
<1>3. k \in 1 .. l /\ k - 1 \in 0 .. l /\ k - 1 \notin T
  BY <1>2
<1> QED
  BY <1>3

(* next_multiple_of rounds up.                                             *)
LEMMA RoundedUp ==
    ASSUME NEW n \in Nat
    PROVE  next_multiple_of(n) \in Nat /\ next_multiple_of(n) >= n
<1> DEFINE x == n + Align - 1
           q == x \div Align
           r == x % Align
<1>1. Align \in Nat \ {0} /\ x \in Nat
  BY ListingAssumption
<1> HIDE DEF x
<1>2. q \in Int /\ r \in 0 .. Align - 1 /\ x = q * Align + r
  BY <1>1
<1> HIDE DEF q, r
<1>3. q * Align \in Int
  BY <1>1, <1>2
<1>4. next_multiple_of(n) = q * Align
  BY DEF next_multiple_of, q, x
<1> HIDE DEF next_multiple_of
<1> QED
  BY <1>1, <1>2, <1>3, <1>4 DEF x

(* The entries of a directory, as the filesystem adds them.                *)
Entries == [name : Seq(Nat), off : Nat]
Ent(D, k) == [name |-> D[k], off |-> k]
EntSize(D, plus, k) == next_multiple_of(HeaderSize(plus) + Len(D[k]))
Bufs == [max_size : Nat, len : Nat, at : Seq(Nat \X Entries)]

LEMMA EntFacts ==
    ASSUME NEW D \in Seq(Names), NEW plus \in BOOLEAN, NEW k \in 1 .. Len(D)
    PROVE  /\ Ent(D, k) \in Entries /\ Ent(D, k).name = D[k] /\ Ent(D, k).off = k
           /\ HeaderSize(plus) \in Nat \ {0}
           /\ EntSize(D, plus, k) \in Nat /\ EntSize(D, plus, k) >= HeaderSize(plus)
<1>1. D[k] \in Seq(Nat) /\ Len(D[k]) \in Nat
  BY WireAssumption
<1>2. HeaderSize(plus) \in Nat \ {0}
  BY ListingAssumption DEF HeaderSize
<1>3. HeaderSize(plus) + Len(D[k]) \in Nat
  BY <1>1, <1>2
<1>4. EntSize(D, plus, k) \in Nat /\ EntSize(D, plus, k) >= HeaderSize(plus) + Len(D[k])
  BY <1>3, RoundedUp DEF EntSize
<1>5. Ent(D, k) \in Entries /\ Ent(D, k).name = D[k] /\ Ent(D, k).off = k
  BY <1>1 DEF Ent, Entries
<1> QED
  BY <1>1, <1>2, <1>4, <1>5

(* EntListBuf::push adds an entry at the end, or leaves the buffer alone.  *)
LEMMA PushFacts ==
    ASSUME NEW buf \in Bufs, NEW plus, NEW entry \in Entries,
           next_multiple_of(HeaderSize(plus) + Len(entry.name)) \in Nat \ {0}
    PROVE  LET n == next_multiple_of(HeaderSize(plus) + Len(entry.name))
           IN  /\ full(buf, plus, entry) <=> buf.len + n > buf.max_size
               /\ ~full(buf, plus, entry) =>
                    /\ push(buf, plus, entry) \in Bufs
                    /\ push(buf, plus, entry).max_size = buf.max_size
                    /\ push(buf, plus, entry).len = buf.len + n
                    /\ push(buf, plus, entry).at = Append(buf.at, <<buf.len, entry>>)
<1> DEFINE n == next_multiple_of(HeaderSize(plus) + Len(entry.name))
           at == Append(buf.at, <<buf.len, entry>>)
           len == buf.len + n
           new == [buf EXCEPT !.len = len, !.at = at]
<1>1. buf.max_size \in Nat /\ buf.len \in Nat /\ buf.at \in Seq(Nat \X Entries)
  BY DEF Bufs
<1>2. push(buf, plus, entry) = IF buf.len + n > buf.max_size THEN buf ELSE new
  BY DEF push
<1>3. n \in Nat \ {0}
  OBVIOUS
<1> HIDE DEF n
<1>4. at \in Seq(Nat \X Entries) /\ len \in Nat /\ len # buf.len
  BY <1>1, <1>3
<1> HIDE DEF at, len
<1>5. new \in Bufs /\ new.max_size = buf.max_size /\ new.len = len /\ new.at = at
  <2> DEFINE S == Seq(Nat \X Entries)
  <2>1. Bufs = [max_size : Nat, len : Nat, at : S] /\ buf \in Bufs /\ at \in S /\ len \in Nat
    BY <1>4 DEF Bufs
  <2> HIDE DEF S
  <2> QED
    BY <2>1
<1> HIDE DEF new
<1>6. new # buf
  BY <1>4, <1>5
<1> QED
  BY <1>1, <1>2, <1>3, <1>5, <1>6 DEF full, at, len, n

(* The rounds of Fill.                                                     *)
FillStep(D, plus, k, b) ==
    IF b.over \/ full(b.list, plus, Ent(D, k)) THEN [b EXCEPT !.over = TRUE]
    ELSE [b EXCEPT !.list = push(b.list, plus, Ent(D, k))]
FillRound(f, D, o, plus, z, k) ==
    IF k <= o THEN [list |-> EmptyBuf(z), over |-> FALSE] ELSE FillStep(D, plus, k, f[k - 1])
Filled(D, o, plus, z) == CHOOSE f : f = [k \in 0 .. Len(D) |-> FillRound(f, D, o, plus, z, k)]

LEMMA FillIsFilled ==
    ASSUME NEW D, NEW o, NEW plus, NEW z PROVE Fill(D, o, plus, z) = Filled(D, o, plus, z)[Len(D)].list
  BY DEF Fill, Filled, FillRound, FillStep, Ent

(* The rounds of Walk.                                                     *)
WalkStep(buf, plus, b) ==
    LET here == {j \in DOMAIN buf.at : buf.at[j][1] = b.pos}
        entry == IF here = {} THEN Garbage ELSE buf.at[CHOOSE j \in here : TRUE][2]
    IN  IF b.pos + HeaderSize(plus) > buf.len THEN b
        ELSE [pos |-> b.pos + next_multiple_of(HeaderSize(plus) + Len(entry.name)),
              found |-> Append(b.found, entry)]
WalkRound(f, buf, plus, k) ==
    IF k = 0 THEN [pos |-> 0, found |-> <<>>] ELSE WalkStep(buf, plus, f[k - 1])
Walked(buf, plus) == CHOOSE f : f = [k \in 0 .. Len(buf.at) |-> WalkRound(f, buf, plus, k)]

LEMMA WalkIsWalked ==
    ASSUME NEW buf, NEW plus PROVE Walk(buf, plus) = Walked(buf, plus)[Len(buf.at)].found
  BY DEF Walk, Walked, WalkRound, WalkStep

(* The rounds of Fill are a function.                                      *)
LEMMA FilledExists ==
    ASSUME NEW D, NEW o \in Nat, NEW plus, NEW z, NEW l \in Nat
    PROVE  \E f : f = [k \in 0 .. l |-> FillRound(f, D, o, plus, z, k)]
<1> DEFINE Has(n) == \E f : f = [k \in 0 .. n |-> FillRound(f, D, o, plus, z, k)]
           T == {n \in 0 .. l : Has(n)}
<1>1. ASSUME NEW f, NEW g, NEW k \in Nat, k # 0 => g[k - 1] = f[k - 1]
      PROVE  FillRound(g, D, o, plus, z, k) = FillRound(f, D, o, plus, z, k)
  BY <1>1 DEF FillRound
<1>2. 0 \in T
  <2> DEFINE g == [k \in 0 .. 0 |-> FillRound(0, D, o, plus, z, 0)]
  <2>1. \A k \in 0 .. 0 : FillRound(g, D, o, plus, z, k) = FillRound(0, D, o, plus, z, 0)
    <3> HIDE DEF g
    <3> QED
      BY <1>1
  <2>2. g = [k \in 0 .. 0 |-> FillRound(g, D, o, plus, z, k)]
    BY <2>1
  <2>3. Has(0)
    BY <2>2
  <2> QED
    BY <2>3
<1>3. ASSUME NEW m \in 1 .. l, m - 1 \in T PROVE m \in T
  <2>1. PICK f : f = [k \in 0 .. m - 1 |-> FillRound(f, D, o, plus, z, k)]
    BY <1>3
  <2> DEFINE g == [k \in 0 .. m |-> IF k <= m - 1 THEN f[k] ELSE FillRound(f, D, o, plus, z, m)]
  <2>2. \A k \in 0 .. m - 1 : k \in 0 .. m /\ g[k] = f[k]
    OBVIOUS
  <2>3. g[m] = FillRound(f, D, o, plus, z, m) /\ g = [k \in 0 .. m |-> g[k]]
    OBVIOUS
  <2> HIDE DEF g
  <2>4. \A k \in 0 .. m : g[k] = FillRound(g, D, o, plus, z, k)
    <3> SUFFICES ASSUME NEW k \in 0 .. m PROVE g[k] = FillRound(g, D, o, plus, z, k)
      OBVIOUS
    <3>1. k \in Nat /\ (k # 0 => k - 1 \in 0 .. m - 1)
      OBVIOUS
    <3>2. FillRound(g, D, o, plus, z, k) = FillRound(f, D, o, plus, z, k)
      BY <1>1, <2>2, <3>1
    <3>3. CASE k = m
      BY <2>3, <3>2, <3>3
    <3>4. CASE k # m
      <4>1. k \in 0 .. m - 1
        BY <3>4
      <4>2. f[k] = FillRound(f, D, o, plus, z, k)
        BY <2>1, <4>1
      <4> QED
        BY <2>2, <3>2, <4>1, <4>2
    <3> QED
      BY <3>3, <3>4
  <2>5. g = [k \in 0 .. m |-> FillRound(g, D, o, plus, z, k)]
    BY <2>3, <2>4
  <2>6. Has(m)
    BY <2>5
  <2> QED
    BY <2>6
<1>4. l \in T
  <2>1. \A m \in 1 .. l : m - 1 \in T => m \in T
    BY <1>3
  <2> HIDE DEF T
  <2> QED
    BY <1>2, <2>1, UpTo
<1> QED
  BY <1>4

LEMMA FilledAt ==
    ASSUME NEW D, NEW o \in Nat, NEW plus, NEW z, Len(D) \in Nat, NEW k \in 0 .. Len(D)
    PROVE  Filled(D, o, plus, z)[k] = FillRound(Filled(D, o, plus, z), D, o, plus, z, k)
<1> DEFINE f == Filled(D, o, plus, z)
<1>1. f = [j \in 0 .. Len(D) |-> FillRound(f, D, o, plus, z, j)]
  <2>1. \E g : g = [j \in 0 .. Len(D) |-> FillRound(g, D, o, plus, z, j)]
    BY FilledExists
  <2> QED
    BY <2>1 DEF Filled
<1> HIDE DEF f
<1>2. f[k] = FillRound(f, D, o, plus, z, k)
  BY <1>1
<1> QED
  BY <1>2 DEF f

(* The rounds of Walk are a function.                                      *)
LEMMA WalkedExists ==
    ASSUME NEW buf, NEW plus, NEW l \in Nat
    PROVE  \E f : f = [k \in 0 .. l |-> WalkRound(f, buf, plus, k)]
<1> DEFINE Has(n) == \E f : f = [k \in 0 .. n |-> WalkRound(f, buf, plus, k)]
           T == {n \in 0 .. l : Has(n)}
<1>1. ASSUME NEW f, NEW g, NEW k \in Nat, k # 0 => g[k - 1] = f[k - 1]
      PROVE  WalkRound(g, buf, plus, k) = WalkRound(f, buf, plus, k)
  BY <1>1 DEF WalkRound
<1>2. 0 \in T
  <2> DEFINE g == [k \in 0 .. 0 |-> WalkRound(0, buf, plus, 0)]
  <2>1. \A k \in 0 .. 0 : WalkRound(g, buf, plus, k) = WalkRound(0, buf, plus, 0)
    <3> HIDE DEF g
    <3> QED
      BY <1>1
  <2>2. g = [k \in 0 .. 0 |-> WalkRound(g, buf, plus, k)]
    BY <2>1
  <2>3. Has(0)
    BY <2>2
  <2> QED
    BY <2>3
<1>3. ASSUME NEW m \in 1 .. l, m - 1 \in T PROVE m \in T
  <2>1. PICK f : f = [k \in 0 .. m - 1 |-> WalkRound(f, buf, plus, k)]
    BY <1>3
  <2> DEFINE g == [k \in 0 .. m |-> IF k <= m - 1 THEN f[k] ELSE WalkRound(f, buf, plus, m)]
  <2>2. \A k \in 0 .. m - 1 : k \in 0 .. m /\ g[k] = f[k]
    OBVIOUS
  <2>3. g[m] = WalkRound(f, buf, plus, m) /\ g = [k \in 0 .. m |-> g[k]]
    OBVIOUS
  <2> HIDE DEF g
  <2>4. \A k \in 0 .. m : g[k] = WalkRound(g, buf, plus, k)
    <3> SUFFICES ASSUME NEW k \in 0 .. m PROVE g[k] = WalkRound(g, buf, plus, k)
      OBVIOUS
    <3>1. k \in Nat /\ (k # 0 => k - 1 \in 0 .. m - 1)
      OBVIOUS
    <3>2. WalkRound(g, buf, plus, k) = WalkRound(f, buf, plus, k)
      BY <1>1, <2>2, <3>1
    <3>3. CASE k = m
      BY <2>3, <3>2, <3>3
    <3>4. CASE k # m
      <4>1. k \in 0 .. m - 1
        BY <3>4
      <4>2. f[k] = WalkRound(f, buf, plus, k)
        BY <2>1, <4>1
      <4> QED
        BY <2>2, <3>2, <4>1, <4>2
    <3> QED
      BY <3>3, <3>4
  <2>5. g = [k \in 0 .. m |-> WalkRound(g, buf, plus, k)]
    BY <2>3, <2>4
  <2>6. Has(m)
    BY <2>5
  <2> QED
    BY <2>6
<1>4. l \in T
  <2>1. \A m \in 1 .. l : m - 1 \in T => m \in T
    BY <1>3
  <2> HIDE DEF T
  <2> QED
    BY <1>2, <2>1, UpTo
<1> QED
  BY <1>4

LEMMA WalkedAt ==
    ASSUME NEW buf, NEW plus, Len(buf.at) \in Nat, NEW k \in 0 .. Len(buf.at)
    PROVE  Walked(buf, plus)[k] = WalkRound(Walked(buf, plus), buf, plus, k)
<1> DEFINE f == Walked(buf, plus)
<1>1. f = [j \in 0 .. Len(buf.at) |-> WalkRound(f, buf, plus, j)]
  <2> DEFINE l == Len(buf.at)
  <2>1. l \in Nat
    OBVIOUS
  <2> HIDE DEF l
  <2>2. \E g : g = [j \in 0 .. l |-> WalkRound(g, buf, plus, j)]
    BY <2>1, WalkedExists
  <2> QED
    BY <2>2 DEF Walked, l
<1> HIDE DEF f
<1>2. f[k] = WalkRound(f, buf, plus, k)
  BY <1>1
<1> QED
  BY <1>2 DEF f

(* A buffer that holds the entries after the o-th, one after the other,    *)
(* each with room for itself and its padding.                              *)
Chained(buf, D, o, plus) ==
    /\ buf \in Bufs /\ Len(buf.at) \in 0 .. Len(D) - o
    /\ \A j \in 1 .. Len(buf.at) :
          /\ buf.at[j] \in Nat \X Entries /\ buf.at[j][2] = Ent(D, o + j)
          /\ buf.at[j][1] + EntSize(D, plus, o + j) <= buf.len
          /\ buf.at[j][1] + EntSize(D, plus, o + j) = IF j = Len(buf.at) THEN buf.len ELSE buf.at[j + 1][1]
    /\ IF Len(buf.at) = 0 THEN buf.len = 0 ELSE buf.at[1][1] = 0
    /\ \A i, j \in 1 .. Len(buf.at) : i # j => buf.at[i][1] # buf.at[j][1]

LEMMA EmptyChained ==
    ASSUME NEW D \in Seq(Names), NEW o \in 0 .. Len(D), NEW plus, NEW z \in Nat
    PROVE  Chained(EmptyBuf(z), D, o, plus) /\ EmptyBuf(z).max_size = z /\ Len(EmptyBuf(z).at) = 0
<1> DEFINE none == <<>>
           buf == EmptyBuf(z)
<1>1. none \in Seq(Nat \X Entries) /\ Len(none) = 0
  OBVIOUS
<1>2. buf = [max_size |-> z, len |-> 0, at |-> none]
  BY DEF EmptyBuf
<1> HIDE DEF none, buf
<1>3. buf \in Bufs /\ buf.max_size = z /\ buf.len = 0 /\ buf.at = none
  BY <1>1, <1>2 DEF Bufs
<1> QED
  BY <1>1, <1>3 DEF Chained, buf

(* push adds the next entry to such a buffer.                              *)
LEMMA PushChained ==
    ASSUME NEW D \in Seq(Names), NEW o \in 0 .. Len(D), NEW plus \in BOOLEAN, NEW buf, NEW k \in 1 .. Len(D),
           Chained(buf, D, o, plus), k = o + Len(buf.at) + 1
    PROVE  /\ full(buf, plus, Ent(D, k)) <=> buf.len + EntSize(D, plus, k) > buf.max_size
           /\ ~full(buf, plus, Ent(D, k)) =>
                /\ Chained(push(buf, plus, Ent(D, k)), D, o, plus)
                /\ push(buf, plus, Ent(D, k)).max_size = buf.max_size
                /\ Len(push(buf, plus, Ent(D, k)).at) = Len(buf.at) + 1
<1> DEFINE e == Ent(D, k)
           n == EntSize(D, plus, k)
           new == push(buf, plus, e)
           m == Len(buf.at)
<1>1. /\ e \in Entries /\ n \in Nat \ {0} /\ n = next_multiple_of(HeaderSize(plus) + Len(e.name))
  <2>1. /\ Ent(D, k) \in Entries /\ Ent(D, k).name = D[k] /\ EntSize(D, plus, k) \in Nat
        /\ EntSize(D, plus, k) >= HeaderSize(plus) /\ HeaderSize(plus) \in Nat \ {0}
    BY EntFacts
  <2> HIDE DEF Ent
  <2> QED
    BY <2>1 DEF EntSize
<1>2. /\ buf \in Bufs /\ buf.len \in Nat /\ buf.at \in Seq(Nat \X Entries) /\ m \in Nat /\ m <= Len(D) - o
      /\ buf.max_size \in Nat
  BY DEF Chained, Bufs
<1>3. /\ full(buf, plus, e) <=> buf.len + n > buf.max_size
      /\ ~full(buf, plus, e) =>
            /\ new \in Bufs /\ new.max_size = buf.max_size /\ new.len = buf.len + n
            /\ new.at = Append(buf.at, <<buf.len, e>>)
  <2> HIDE DEF e, n
  <2> QED
    BY <1>1, <1>2, PushFacts DEF n
<1>4. ASSUME ~full(buf, plus, e)
      PROVE  Chained(new, D, o, plus) /\ new.max_size = buf.max_size /\ Len(new.at) = m + 1
  <2> DEFINE x == <<buf.len, e>>
             at == new.at
  <2>1. x \in Nat \X Entries /\ x[1] = buf.len /\ x[2] = e
    BY <1>1, <1>2
  <2> HIDE DEF x, e, n, new
  <2>2. at = Append(buf.at, x) /\ new \in Bufs /\ new.max_size = buf.max_size /\ new.len = buf.len + n
    BY <1>3, <1>4 DEF x, new
  <2>3. Len(at) = m + 1 /\ at[m + 1] = x /\ \A j \in 1 .. m : at[j] = buf.at[j]
    BY <1>2, <2>1, <2>2
  <2>4. k = o + (m + 1) /\ e = Ent(D, o + (m + 1)) /\ n = EntSize(D, plus, o + (m + 1))
    BY <1>2 DEF e, n
  <2>5. \A j \in 1 .. m : EntSize(D, plus, o + j) \in Nat \ {0}
    <3> SUFFICES ASSUME NEW j \in 1 .. m PROVE EntSize(D, plus, o + j) \in Nat \ {0}
      OBVIOUS
    <3>1. o + j \in 1 .. Len(D)
      BY <1>2
    <3>2. EntSize(D, plus, o + j) \in Nat /\ EntSize(D, plus, o + j) >= HeaderSize(plus)
          /\ HeaderSize(plus) \in Nat \ {0}
      BY <3>1, EntFacts
    <3> QED
      BY <3>2
  <2>6. /\ \A j \in 1 .. m :
              /\ buf.at[j] \in Nat \X Entries /\ buf.at[j][2] = Ent(D, o + j) /\ buf.at[j][1] \in Nat
              /\ buf.at[j][1] + EntSize(D, plus, o + j) <= buf.len
              /\ buf.at[j][1] + EntSize(D, plus, o + j) = IF j = m THEN buf.len ELSE buf.at[j + 1][1]
        /\ IF m = 0 THEN buf.len = 0 ELSE buf.at[1][1] = 0
        /\ \A i, j \in 1 .. m : i # j => buf.at[i][1] # buf.at[j][1]
    BY DEF Chained
  <2>7. m + 1 \in 0 .. Len(D) - o
    BY <1>2, <2>4
  <2> HIDE DEF m, at
  <2>8. ASSUME NEW j \in 1 .. m + 1
        PROVE  /\ at[j] \in Nat \X Entries /\ at[j][2] = Ent(D, o + j)
               /\ at[j][1] + EntSize(D, plus, o + j) <= new.len
               /\ at[j][1] + EntSize(D, plus, o + j) = IF j = m + 1 THEN new.len ELSE at[j + 1][1]
    <3>1. CASE j = m + 1
      <4>1. at[j] = x /\ n = EntSize(D, plus, o + j) /\ e = Ent(D, o + j)
        BY <2>3, <2>4, <3>1
      <4>2. new.len = buf.len + n /\ buf.len \in Nat /\ n \in Nat
        BY <1>1, <1>2, <2>2
      <4> QED
        BY <2>1, <3>1, <4>1, <4>2
    <3>2. CASE j \in 1 .. m
      <4>1. at[j] = buf.at[j] /\ j # m + 1
        BY <1>2, <2>3, <3>2
      <4>2. at[j + 1][1] = IF j = m THEN buf.len ELSE buf.at[j + 1][1]
        <5>1. CASE j = m
          BY <2>1, <2>3, <5>1
        <5>2. CASE j # m
          <6>1. j + 1 \in 1 .. m
            BY <1>2, <3>2, <5>2
          <6> QED
            BY <2>3, <5>2, <6>1
        <5> QED
          BY <5>1, <5>2
      <4>3. new.len = buf.len + n /\ n \in Nat /\ buf.len \in Nat
        BY <1>1, <1>2, <2>2
      <4> DEFINE p == buf.at[j][1]
                 s == EntSize(D, plus, o + j)
      <4>4. /\ p \in Nat /\ s \in Nat /\ p + s <= buf.len /\ at[j][1] = p
            /\ p + s = IF j = m THEN buf.len ELSE buf.at[j + 1][1]
            /\ at[j] \in Nat \X Entries /\ at[j][2] = Ent(D, o + j)
        BY <2>5, <2>6, <3>2, <4>1
      <4> HIDE DEF p, s
      <4>5. p + s <= new.len /\ p + s = at[j + 1][1]
        BY <4>2, <4>3, <4>4
      <4> QED
        BY <4>1, <4>4, <4>5 DEF s
    <3> QED
      BY <1>2, <3>1, <3>2
  <2>9. at[1][1] = 0
    <3>1. CASE m = 0
      BY <2>1, <2>3, <2>6, <3>1
    <3>2. CASE m # 0
      <4>1. 1 \in 1 .. m
        BY <1>2, <3>2
      <4> QED
        BY <2>3, <2>6, <3>2, <4>1
    <3> QED
      BY <3>1, <3>2
  <2>10. ASSUME NEW i \in 1 .. m + 1, NEW j \in 1 .. m + 1, i # j PROVE at[i][1] # at[j][1]
    <3>1. \A h \in 1 .. m : at[h][1] \in Nat /\ at[h][1] < buf.len /\ at[h] = buf.at[h]
      <4> SUFFICES ASSUME NEW h \in 1 .. m
                   PROVE  at[h][1] \in Nat /\ at[h][1] < buf.len /\ at[h] = buf.at[h]
        OBVIOUS
      <4> DEFINE p == buf.at[h][1]
                 s == EntSize(D, plus, o + h)
      <4>1. p \in Nat /\ s \in Nat \ {0} /\ p + s <= buf.len /\ buf.len \in Nat
        BY <1>2, <2>5, <2>6
      <4>2. at[h] = buf.at[h]
        BY <2>3
      <4>3. at[h][1] = p
        BY <4>2
      <4> HIDE DEF p, s
      <4> QED
        BY <4>1, <4>2, <4>3
    <3>2. at[m + 1][1] = buf.len
      BY <2>1, <2>3
    <3>3. CASE i = m + 1
      <4>1. j \in 1 .. m
        BY <1>2, <2>10, <3>3
      <4> QED
        BY <1>2, <3>1, <3>2, <3>3, <4>1
    <3>4. CASE j = m + 1
      <4>1. i \in 1 .. m
        BY <1>2, <2>10, <3>4
      <4> QED
        BY <1>2, <3>1, <3>2, <3>4, <4>1
    <3>5. CASE i # m + 1 /\ j # m + 1
      <4>1. i \in 1 .. m /\ j \in 1 .. m
        BY <1>2, <3>5
      <4> QED
        BY <2>6, <2>10, <3>1, <4>1
    <3> QED
      BY <3>3, <3>4, <3>5
  <2>11. Len(at) # 0 /\ Len(at) = m + 1
    BY <1>2, <2>3
  <2>12. Chained(new, D, o, plus)
    BY <2>2, <2>7, <2>8, <2>9, <2>10, <2>11 DEF Chained, at
  <2> QED
    BY <2>2, <2>11, <2>12 DEF at
<1> QED
  BY <1>3, <1>4

(* What the kernel lists with: buffers that have room for any one entry.   *)
Roomy ==
    /\ Sizes \subseteq Nat
    /\ \A size \in Sizes, name \in Names, plus \in BOOLEAN :
          next_multiple_of(HeaderSize(plus) + Len(name)) <= size

(* After each round of Fill the buffer holds the entries so far, or those  *)
(* that fitted.                                                            *)
FilledTo(b, D, o, plus, z, k) ==
    /\ b \in [list : Bufs, over : BOOLEAN]
    /\ Chained(b.list, D, o, plus) /\ b.list.max_size = z
    /\ ~b.over => Len(b.list.at) = IF k <= o THEN 0 ELSE k - o
    /\ IF k <= o THEN ~b.over ELSE Len(b.list.at) >= 1

LEMMA FillStepFacts ==
    ASSUME NEW b \in [list : Bufs, over : BOOLEAN], NEW D, NEW plus, NEW k
    PROVE  /\ b.over \/ full(b.list, plus, Ent(D, k)) =>
                /\ FillStep(D, plus, k, b).list = b.list /\ FillStep(D, plus, k, b).over
                /\ FillStep(D, plus, k, b) \in [list : Bufs, over : BOOLEAN]
           /\ ~b.over /\ ~full(b.list, plus, Ent(D, k)) /\ push(b.list, plus, Ent(D, k)) \in Bufs =>
                /\ FillStep(D, plus, k, b).list = push(b.list, plus, Ent(D, k)) /\ ~FillStep(D, plus, k, b).over
                /\ FillStep(D, plus, k, b) \in [list : Bufs, over : BOOLEAN]
<1> DEFINE new == push(b.list, plus, Ent(D, k))
           stop == b.over \/ full(b.list, plus, Ent(D, k))
           c == FillStep(D, plus, k, b)
<1>1. c = IF stop THEN [b EXCEPT !.over = TRUE] ELSE [b EXCEPT !.list = new]
  BY DEF FillStep
<1> HIDE DEF new, stop, c
<1>2. stop => c.list = b.list /\ c.over /\ c \in [list : Bufs, over : BOOLEAN]
  BY <1>1
<1>3. ~stop /\ new \in Bufs => c.list = new /\ c.over = b.over /\ c \in [list : Bufs, over : BOOLEAN]
  BY <1>1
<1> QED
  BY <1>2, <1>3 DEF stop, c, new

LEMMA FillChained ==
    ASSUME Roomy, NEW D \in Seq(Names), NEW o \in 0 .. Len(D), NEW plus \in BOOLEAN, NEW z \in Sizes
    PROVE  /\ Chained(Fill(D, o, plus, z), D, o, plus)
           /\ o < Len(D) => Len(Fill(D, o, plus, z).at) >= 1
<1> DEFINE f == Filled(D, o, plus, z)
           l == Len(D)
           P == {k \in 0 .. l : FilledTo(f[k], D, o, plus, z, k)}
<1>1. l \in Nat /\ o \in Nat /\ z \in Nat /\ o <= l
  BY DEF Roomy
<1>2. \A k \in 0 .. l : f[k] = FillRound(f, D, o, plus, z, k)
  BY <1>1, FilledAt
<1> HIDE DEF f
<1>3. ASSUME NEW k \in 0 .. l, k <= o PROVE k \in P
  <2> DEFINE buf == EmptyBuf(z)
             b == [list |-> buf, over |-> FALSE]
  <2>1. Chained(buf, D, o, plus) /\ buf.max_size = z /\ Len(buf.at) = 0
    BY <1>1, EmptyChained
  <2>2. f[k] = b
    BY <1>2, <1>3 DEF FillRound
  <2> HIDE DEF buf
  <2>3. buf \in Bufs
    BY <2>1 DEF Chained
  <2>4. b \in [list : Bufs, over : BOOLEAN] /\ b.list = buf /\ ~b.over
    BY <2>3
  <2> HIDE DEF b
  <2> QED
    BY <1>1, <1>3, <2>1, <2>2, <2>4 DEF FilledTo
<1>4. ASSUME NEW k \in 1 .. l, k > o, k - 1 \in P PROVE k \in P
  <2> DEFINE b == f[k - 1]
             buf == b.list
             e == Ent(D, k)
             c == FillStep(D, plus, k, b)
  <2>1. k - 1 \in 0 .. l /\ FilledTo(b, D, o, plus, z, k - 1)
    BY <1>4
  <2>2. f[k] = c
    BY <1>1, <1>2, <1>4 DEF FillRound
  <2> HIDE DEF b, c
  <2>3. /\ b \in [list : Bufs, over : BOOLEAN] /\ Chained(buf, D, o, plus) /\ buf.max_size = z
        /\ ~b.over => Len(buf.at) = k - 1 - o
        /\ IF k - 1 <= o THEN ~b.over ELSE Len(buf.at) >= 1
    BY <1>1, <1>4, <2>1 DEF FilledTo
  <2>4. /\ b.over \/ full(buf, plus, e) =>
              c.list = buf /\ c.over /\ c \in [list : Bufs, over : BOOLEAN]
        /\ ~b.over /\ ~full(buf, plus, e) /\ push(buf, plus, e) \in Bufs =>
              c.list = push(buf, plus, e) /\ ~c.over /\ c \in [list : Bufs, over : BOOLEAN]
    BY <2>3, FillStepFacts DEF c
  <2>5. Len(buf.at) \in Nat /\ (Len(buf.at) = 0 => buf.len = 0) /\ buf \in Bufs
    BY <2>3 DEF Chained
  <2>6. EntSize(D, plus, k) <= z /\ EntSize(D, plus, k) \in Nat
    <3>1. D[k] \in Names
      OBVIOUS
    <3>2. EntSize(D, plus, k) \in Nat
      BY EntFacts
    <3> QED
      BY <3>1, <3>2 DEF Roomy, EntSize
  <2>7. CASE b.over
    <3>1. Len(buf.at) >= 1
      BY <2>3, <2>7
    <3> HIDE DEF buf
    <3>2. c.list = buf /\ c.over /\ c \in [list : Bufs, over : BOOLEAN]
      BY <2>4, <2>7
    <3> QED
      BY <1>1, <1>4, <2>2, <2>3, <3>1, <3>2 DEF FilledTo
  <2>8. CASE ~b.over
    <3>1. k = o + Len(buf.at) + 1
      BY <1>1, <2>3, <2>8
    <3> DEFINE new == push(buf, plus, e)
    <3> HIDE DEF buf
    <3>2. /\ full(buf, plus, e) <=> buf.len + EntSize(D, plus, k) > z
          /\ ~full(buf, plus, e) =>
                /\ Chained(new, D, o, plus) /\ new.max_size = z /\ Len(new.at) = Len(buf.at) + 1
      BY <2>3, <3>1, PushChained
    <3> HIDE DEF e, new
    <3>3. CASE full(buf, plus, e)
      <4>1. Len(buf.at) >= 1
        BY <1>1, <2>5, <2>6, <3>2, <3>3
      <4>2. c.list = buf /\ c.over /\ c \in [list : Bufs, over : BOOLEAN]
        BY <2>4, <3>3
      <4> QED
        BY <1>1, <1>4, <2>2, <2>3, <4>1, <4>2 DEF FilledTo
    <3>4. CASE ~full(buf, plus, e)
      <4>1. new \in Bufs
        BY <3>2, <3>4 DEF Chained
      <4>2. c.list = new /\ ~c.over /\ c \in [list : Bufs, over : BOOLEAN]
        BY <2>4, <2>8, <3>4, <4>1 DEF new
      <4>3. Len(new.at) = k - o /\ Len(new.at) >= 1
        BY <1>1, <2>5, <3>1, <3>2, <3>4
      <4> QED
        BY <1>1, <1>4, <2>2, <3>2, <3>4, <4>2, <4>3 DEF FilledTo
    <3> QED
      BY <3>3, <3>4
  <2> QED
    BY <2>7, <2>8
<1>5. l \in P
  <2>1. 0 \in P
    <3>1. 0 \in 0 .. l /\ 0 <= o
      BY <1>1
    <3> HIDE DEF P
    <3> QED
      BY <1>3, <3>1
  <2>2. \A k \in 1 .. l : k - 1 \in P => k \in P
    <3> SUFFICES ASSUME NEW k \in 1 .. l, k - 1 \in P PROVE k \in P
      OBVIOUS
    <3>1. k \in 0 .. l
      OBVIOUS
    <3> HIDE DEF P
    <3>2. CASE k <= o
      BY <1>3, <3>1, <3>2
    <3>3. CASE k > o
      BY <1>4, <3>3
    <3> QED
      BY <1>1, <3>2, <3>3
  <2>3. l \in Nat /\ l \in 0 .. l
    BY <1>1
  <2> HIDE DEF P, l
  <2>4. \A k \in 0 .. l : k \in P
    BY <2>1, <2>2, <2>3, UpTo
  <2> QED
    BY <2>3, <2>4
<1>6. Fill(D, o, plus, z) = f[l].list
  BY FillIsFilled DEF f
<1> QED
  BY <1>1, <1>5, <1>6 DEF FilledTo

(* After each round of Walk the kernel has found one entry more, and is    *)
(* where the next one starts.                                              *)
WalkedTo(b, buf, k) ==
    /\ b \in [pos : Nat, found : Seq(Entries)]
    /\ Len(b.found) = k /\ \A j \in 1 .. k : b.found[j] = buf.at[j][2]
    /\ b.pos = IF k = Len(buf.at) THEN buf.len ELSE buf.at[k + 1][1]

LEMMA WalkFinds ==
    ASSUME NEW D \in Seq(Names), NEW o \in 0 .. Len(D), NEW plus \in BOOLEAN, NEW buf, Chained(buf, D, o, plus)
    PROVE  /\ Walk(buf, plus) \in Seq(Entries) /\ Len(Walk(buf, plus)) = Len(buf.at)
           /\ \A j \in 1 .. Len(buf.at) : Walk(buf, plus)[j] = Ent(D, o + j)
<1> DEFINE f == Walked(buf, plus)
           l == Len(buf.at)
           P == {k \in 0 .. l : WalkedTo(f[k], buf, k)}
<1>1. l \in Nat /\ buf.at \in Seq(Nat \X Entries) /\ buf.len \in Nat /\ DOMAIN buf.at = 1 .. l
  BY DEF Chained, Bufs
<1>2. \A k \in 0 .. l : f[k] = WalkRound(f, buf, plus, k)
  BY <1>1, WalkedAt
<1>3. /\ \A j \in 1 .. l : /\ buf.at[j][1] \in Nat /\ buf.at[j][2] = Ent(D, o + j)
                           /\ o + j \in 1 .. Len(D)
                           /\ buf.at[j][1] + EntSize(D, plus, o + j) <= buf.len
                           /\ buf.at[j][1] + EntSize(D, plus, o + j) = IF j = l THEN buf.len ELSE buf.at[j + 1][1]
      /\ IF l = 0 THEN buf.len = 0 ELSE buf.at[1][1] = 0
      /\ \A i, j \in 1 .. l : i # j => buf.at[i][1] # buf.at[j][1]
  BY DEF Chained
<1> HIDE DEF f, l
<1>4. 0 \in P
  <2> DEFINE none == <<>>
             b == [pos |-> 0, found |-> none]
  <2>1. 0 \in 0 .. l /\ none \in Seq(Entries) /\ Len(none) = 0
    BY <1>1
  <2>2. f[0] = b
    BY <1>2, <2>1 DEF WalkRound
  <2> HIDE DEF none
  <2>3. b \in [pos : Nat, found : Seq(Entries)] /\ b.pos = 0 /\ b.found = none
    BY <2>1
  <2> HIDE DEF b
  <2>4. 0 = IF 0 = l THEN buf.len ELSE buf.at[0 + 1][1]
    BY <1>3
  <2>5. WalkedTo(b, buf, 0)
    BY <2>1, <2>3, <2>4 DEF WalkedTo, l
  <2> QED
    BY <2>1, <2>2, <2>5
<1>5. ASSUME NEW k \in 1 .. l, k - 1 \in P PROVE k \in P
  <2> DEFINE b == f[k - 1]
             here == {j \in DOMAIN buf.at : buf.at[j][1] = b.pos}
             at == buf.at[k]
             e == Ent(D, o + k)
             s == EntSize(D, plus, o + k)
             c == [pos |-> b.pos + s, found |-> Append(b.found, e)]
  <2>1. k - 1 \in 0 .. l /\ WalkedTo(b, buf, k - 1)
    BY <1>5
  <2>2. f[k] = WalkStep(buf, plus, b)
    BY <1>1, <1>2, <1>5 DEF WalkRound
  <2> HIDE DEF b
  <2>3. /\ b \in [pos : Nat, found : Seq(Entries)] /\ Len(b.found) = k - 1
        /\ \A j \in 1 .. k - 1 : b.found[j] = buf.at[j][2]
        /\ b.pos = at[1]
    BY <1>1, <1>5, <2>1 DEF WalkedTo, l
  <2>4. here = {k}
    <3>1. k \in DOMAIN buf.at /\ buf.at[k][1] = b.pos
      BY <1>1, <2>3
    <3>2. ASSUME NEW j \in DOMAIN buf.at, buf.at[j][1] = b.pos PROVE j = k
      BY <1>1, <1>3, <3>1, <3>2
    <3> QED
      BY <3>1, <3>2
  <2>5. at[2] = e /\ at[1] \in Nat /\ o + k \in 1 .. Len(D)
    BY <1>3, <1>5
  <2>6. e \in Entries /\ HeaderSize(plus) \in Nat /\ s \in Nat /\ s >= HeaderSize(plus) /\ e.name = D[o + k]
    BY <2>5, EntFacts
  <2>7. at[1] + s <= buf.len /\ at[1] + s = IF k = l THEN buf.len ELSE buf.at[k + 1][1]
    BY <1>3, <1>5
  <2>8. ~(b.pos + HeaderSize(plus) > buf.len)
    <3> DEFINE q == at[1]
               n == HeaderSize(plus)
               z == buf.len
    <3>1. q \in Nat /\ n \in Nat /\ s \in Nat /\ z \in Nat /\ s >= n /\ q + s <= z
      BY <1>1, <2>5, <2>6, <2>7
    <3> HIDE DEF q, n, s, z
    <3>2. ~(q + n > z)
      BY <3>1
    <3> QED
      BY <2>3, <3>2 DEF q, n, z
  <2>9. WalkStep(buf, plus, b) = c
    <3>1. here # {} /\ (CHOOSE j \in here : TRUE) = k
      BY <2>4
    <3>2. (IF here = {} THEN Garbage ELSE buf.at[CHOOSE j \in here : TRUE][2]) = e
      BY <2>5, <3>1
    <3>3. s = next_multiple_of(HeaderSize(plus) + Len(e.name))
      BY <2>6 DEF EntSize
    <3> HIDE DEF e, s
    <3> QED
      BY <2>8, <3>2, <3>3 DEF WalkStep
  <2> HIDE DEF e, s, at
  <2> DEFINE found == Append(b.found, e)
  <2>10. /\ found \in Seq(Entries) /\ Len(found) = k /\ found[k] = e
         /\ \A j \in 1 .. k - 1 : found[j] = b.found[j]
    <3> DEFINE w == b.found
    <3>1. w \in Seq(Entries) /\ Len(w) = k - 1 /\ k \in Nat /\ found = Append(w, e)
      BY <1>1, <1>5, <2>3
    <3> HIDE DEF w
    <3>2. /\ Append(w, e) \in Seq(Entries) /\ Len(Append(w, e)) = k /\ Append(w, e)[k] = e
          /\ \A j \in 1 .. k - 1 : Append(w, e)[j] = w[j]
      BY <2>6, <3>1
    <3> QED
      BY <3>1, <3>2 DEF w
  <2> HIDE DEF found
  <2>11. c \in [pos : Nat, found : Seq(Entries)] /\ c.pos = at[1] + s /\ c.found = found
    <3>1. c = [pos |-> b.pos + s, found |-> found] /\ b.pos + s \in Nat
      BY <2>3, <2>5, <2>6 DEF found
    <3> QED
      BY <2>3, <2>10, <3>1
  <2> HIDE DEF c
  <2>12. \A j \in 1 .. k : found[j] = buf.at[j][2]
    <3> SUFFICES ASSUME NEW j \in 1 .. k PROVE found[j] = buf.at[j][2]
      OBVIOUS
    <3>1. CASE j = k
      BY <2>5, <2>10, <3>1 DEF at
    <3>2. CASE j # k
      <4>1. j \in 1 .. k - 1
        BY <1>1, <1>5, <3>2
      <4> QED
        BY <2>3, <2>10, <4>1
    <3> QED
      BY <3>1, <3>2
  <2>13. WalkedTo(c, buf, k)
    BY <2>7, <2>10, <2>11, <2>12 DEF WalkedTo, l
  <2>14. k \in 0 .. l
    BY <1>1, <1>5
  <2> QED
    BY <2>2, <2>9, <2>13, <2>14
<1>6. WalkedTo(f[l], buf, l)
  <2>1. \A k \in 1 .. l : k - 1 \in P => k \in P
    BY <1>5
  <2>2. l \in P
    <3>1. l \in Nat /\ l \in 0 .. l
      BY <1>1
    <3> HIDE DEF P
    <3>2. \A k \in 0 .. l : k \in P
      BY <1>4, <2>1, <3>1, UpTo
    <3> QED
      BY <3>1, <3>2
  <2> QED
    BY <2>2
<1>7. Walk(buf, plus) = f[l].found
  BY WalkIsWalked DEF f, l
<1> QED
  BY <1>3, <1>6, <1>7 DEF WalkedTo, l

(* READDIR and READDIRPLUS reach the filesystem with the offset and the    *)
(* size the kernel sent.                                                   *)
LEMMA ListingAsked ==
    ASSUME NEW o \in Nat, NEW size \in Nat, NEW op \in {"READDIR", "READDIRPLUS"}, NEW h, h.opcode = op
    PROVE  LET made == dispatch(h, <<1, o, size, 0, 0, 0, 0>>) IN made.args[2] = o /\ made.args[3] = size
<1> DEFINE data == <<1, o, size, 0, 0, 0, 0>>
           none == <<>>
           ext == "SETXATTR_EXT" \in negotiated
           made == dispatch(h, data)
<1>1. data \in Seq(Int) /\ Len(data) = 7 /\ data[1] = 1 /\ data[2] = o /\ data[3] = size
  OBVIOUS
<1>2. data \o none = data
  OBVIOUS
<1>3. /\ Struct(op, ext) = fuse_read_in /\ Len(fuse_read_in) = 7 /\ Distinct(fuse_read_in)
      /\ NameCount(op) = 0 /\ op \notin {"SETXATTR", "BATCH_FORGET"}
  <2>1. Struct("READDIR", ext) = fuse_read_in /\ NameCount("READDIR") = 0
    BY DEF Struct, LockOps, NameCount, TwoNames, OneName, NameOps
  <2>2. Struct("READDIRPLUS", ext) = fuse_read_in /\ NameCount("READDIRPLUS") = 0
    BY DEF Struct, LockOps, NameCount, TwoNames, OneName, NameOps
  <2>3. Len(fuse_read_in) = 7 /\ Distinct(fuse_read_in)
    BY StructsDistinct DEF Structs, fuse_read_in
  <2> QED
    BY <2>1, <2>2, <2>3
<1> HIDE DEF data, none, ext
<1>4. PICK a : /\ Holds(fuse_read_in, a, data)
               /\ parse(op, data \o none, ext) = {[arg |-> a, strs |-> <<>>, rest |-> none]}
  <2>1. /\ none \in Seq(Int) /\ data \in Seq(Int) /\ Len(data) = Len(fuse_read_in)
        /\ Struct(op, ext) = fuse_read_in /\ Distinct(fuse_read_in)
        /\ NameCount(op) = 0 /\ op \notin {"SETXATTR", "BATCH_FORGET"}
    BY <1>1, <1>3 DEF none
  <2> QED
    BY <2>1, ParsedPlain
<1>5. a.offset = o /\ a.size = size
  <2>1. a[fuse_read_in[1]] = data[1] /\ a[fuse_read_in[2]] = data[2] /\ a[fuse_read_in[3]] = data[3]
    BY <1>3, <1>4 DEF Holds
  <2> QED
    BY <1>1, <2>1 DEF fuse_read_in
<1> DEFINE p == [arg |-> a, strs |-> <<>>, rest |-> none]
<1>6. parse(op, data, ext) = {p} /\ p.arg = a
  BY <1>2, <1>4
<1> HIDE DEF p
<1>7. Refused(op, a) = {} /\ ~ParsePanics(op, p)
  BY DEF Refused, UnservedOps, Offsets, ParsePanics
<1>8. Args(op, h, p) = <<a.fh, a.offset, a.size>>
  <2>1. CASE op = "READDIR"
    <3>1. Args(op, h, p) = FileArgs(op, p)
      BY <2>1 DEF Args, NodeOps, AccessOps, XattrOps, LockOps, LaterOps
    <3>2. FileArgs(op, p) = ReadDirArgs(p.arg)
      BY <2>1 DEF FileArgs
    <3> QED
      BY <1>6, <3>1, <3>2 DEF ReadDirArgs
  <2>2. CASE op = "READDIRPLUS"
    <3>1. Args(op, h, p) = LaterArgs(op, h, p)
      BY <2>2 DEF Args, NodeOps, AccessOps, XattrOps, LockOps, LaterOps
    <3>2. LaterArgs(op, h, p) = ReadDirPlusArgs(p.arg)
      BY <2>2 DEF LaterArgs
    <3> QED
      BY <1>6, <3>1, <3>2 DEF ReadDirPlusArgs, ReadDirArgs
  <2> QED
    BY <2>1, <2>2
<1>9. made = Call(op, h, p)
  <2>1. (CHOOSE x \in {p} : TRUE) = p
    OBVIOUS
  <2> QED
    BY <1>6, <1>7, <2>1 DEF dispatch, ext
<1>10. made.args = Args(op, h, p)
  <2> DEFINE args == Args(op, h, p)
  <2>1. made = [result |-> "call", call |-> Callback(op), node |-> h.nodeid, caller |-> request_header(h),
                owner |-> Owner(op, h, p.arg), args |-> args]
    BY <1>9 DEF Call
  <2> HIDE DEF args, made
  <2>2. made.args = args
    BY <2>1
  <2> QED
    BY <2>2 DEF args
<1> QED
  BY <1>5, <1>8, <1>10 DEF data

(* What the kernel has got so far is what the directory holds up to the    *)
(* offset it will go on from.                                              *)
ListedTo ==
    /\ directory \in Seq(Names) /\ listing.got \in Seq(Names)
    /\ listing.offset \in 0 .. Len(directory) /\ Len(listing.got) = listing.offset
    /\ \A j \in 1 .. listing.offset : listing.got[j] = directory[j]
    /\ listing.done => listing.offset = Len(directory)

LEMMA ListingGoesOn ==
    ASSUME Roomy, ListedTo, NEW plus \in BOOLEAN, ReadDir(plus)
    PROVE  ListedTo'
<1> DEFINE op == IF plus THEN "READDIRPLUS" ELSE "READDIR"
           h == [opcode |-> op, nodeid |-> 0, uid |-> 0]
           D == directory
           o == listing.offset
<1>1. PICK size \in Sizes :
         LET made == dispatch(h, <<1, o, size, 0, 0, 0, 0>>)
             found == Walk(Fill(D, made.args[2], plus, made.args[3]), plus)
         IN  /\ listing' = [got |-> listing.got \o [i \in DOMAIN found |-> found[i].name],
                            offset |-> IF found = <<>> THEN o ELSE found[Len(found)].off,
                            done |-> found = <<>>]
             /\ directory' = D
  BY DEF ReadDir
<1> DEFINE made == dispatch(h, <<1, o, size, 0, 0, 0, 0>>)
           buf == Fill(D, o, plus, size)
           found == Walk(buf, plus)
           m == Len(found)
           names == [i \in DOMAIN found |-> found[i].name]
<1>2. /\ D \in Seq(Names) /\ o \in 0 .. Len(D) /\ o \in Nat /\ size \in Nat
      /\ listing.got \in Seq(Names) /\ Len(listing.got) = o /\ Len(D) \in Nat
      /\ \A j \in 1 .. o : listing.got[j] = D[j]
  BY DEF ListedTo, Roomy
<1>3. op \in {"READDIR", "READDIRPLUS"} /\ h.opcode = op
  OBVIOUS
<1> HIDE DEF op, h, D, o
<1>4. made.args[2] = o /\ made.args[3] = size
  BY <1>2, <1>3, ListingAsked
<1>5. /\ listing' = [got |-> listing.got \o names, offset |-> IF found = <<>> THEN o ELSE found[Len(found)].off,
                     done |-> found = <<>>]
      /\ directory' = D
  <2> HIDE DEF made
  <2> QED
    BY <1>1, <1>4 DEF made
<1>6. Chained(buf, D, o, plus) /\ (o < Len(D) => Len(buf.at) >= 1)
  BY <1>2, FillChained
<1> HIDE DEF buf
<1>7. /\ found \in Seq(Entries) /\ m = Len(buf.at) /\ m \in 0 .. Len(D) - o
      /\ \A j \in 1 .. m : found[j] = Ent(D, o + j)
  <2>1. Len(buf.at) \in 0 .. Len(D) - o
    BY <1>6 DEF Chained
  <2> QED
    BY <1>2, <1>6, <2>1, WalkFinds
<1> HIDE DEF found, m
<1>8. m = Len(found) /\ m \in Nat /\ DOMAIN found = 1 .. m /\ (found = <<>> <=> m = 0)
  BY <1>2, <1>7 DEF m
<1>9. \A j \in 1 .. m : o + j \in 1 .. Len(D) /\ found[j].name = D[o + j] /\ found[j].off = o + j
  <2> SUFFICES ASSUME NEW j \in 1 .. m
               PROVE  o + j \in 1 .. Len(D) /\ found[j].name = D[o + j] /\ found[j].off = o + j
    OBVIOUS
  <2>1. o + j \in 1 .. Len(D)
    BY <1>2, <1>7
  <2>2. Ent(D, o + j).name = D[o + j] /\ Ent(D, o + j).off = o + j
    BY <1>2, <2>1, EntFacts
  <2> QED
    BY <1>7, <2>1, <2>2
<1>10. names \in Seq(Names) /\ Len(names) = m /\ \A j \in 1 .. m : names[j] = D[o + j]
  <2>1. names = [i \in 1 .. m |-> D[o + i]]
    BY <1>8, <1>9
  <2>2. \A i \in 1 .. m : D[o + i] \in Names
    BY <1>2, <1>9
  <2> HIDE DEF names
  <2> QED
    BY <1>8, <2>1, <2>2
<1>11. (IF found = <<>> THEN o ELSE found[Len(found)].off) = o + m
  <2>1. CASE m = 0
    BY <1>2, <1>8, <2>1
  <2>2. CASE m # 0
    <3>1. m \in 1 .. m
      BY <1>8, <2>2
    <3> QED
      BY <1>8, <1>9, <2>2, <3>1
  <2> QED
    BY <2>1, <2>2
<1>12. found = <<>> => o + m = Len(D)
  BY <1>2, <1>6, <1>7, <1>8
<1> HIDE DEF names
<1> DEFINE got == listing.got \o names
           done == found = <<>>
<1>13. /\ got \in Seq(Names) /\ Len(got) = o + m
       /\ \A j \in 1 .. o : got[j] = listing.got[j]
       /\ \A j \in 1 .. m : got[o + j] = names[j]
  <2> DEFINE u == listing.got
  <2>1. u \in Seq(Names) /\ names \in Seq(Names) /\ Len(u) = o /\ Len(names) = m
    BY <1>2, <1>10
  <2> HIDE DEF u
  <2>2. /\ u \o names \in Seq(Names) /\ Len(u \o names) = Len(u) + Len(names)
        /\ \A i \in 1 .. Len(u) : (u \o names)[i] = u[i]
        /\ \A i \in 1 .. Len(names) : (u \o names)[Len(u) + i] = names[i]
    BY <2>1
  <2> QED
    BY <2>1, <2>2 DEF u
<1>14. \A j \in 1 .. o + m : got[j] = D[j]
  <2> SUFFICES ASSUME NEW j \in 1 .. o + m PROVE got[j] = D[j]
    OBVIOUS
  <2> HIDE DEF got
  <2>1. CASE j \in 1 .. o
    BY <1>2, <1>13, <2>1
  <2>2. CASE j \notin 1 .. o
    <3>1. j - o \in 1 .. m /\ j = o + (j - o)
      BY <1>2, <1>8, <2>2
    <3>2. got[o + (j - o)] = names[j - o] /\ names[j - o] = D[o + (j - o)]
      BY <1>10, <1>13, <3>1
    <3> QED
      BY <3>1, <3>2
  <2> QED
    BY <2>1, <2>2
<1>15. listing'.got = got /\ listing'.offset = o + m /\ listing'.done = done
  <2>1. listing' = [got |-> got, offset |-> o + m, done |-> done]
    BY <1>5, <1>11
  <2> HIDE DEF got, done
  <2> QED
    BY <2>1
<1>16. o + m \in 0 .. Len(D)
  BY <1>2, <1>7
<1> HIDE DEF got
<1>17. /\ directory' \in Seq(Names) /\ listing'.got \in Seq(Names)
       /\ listing'.offset \in 0 .. Len(directory') /\ Len(listing'.got) = listing'.offset
       /\ \A j \in 1 .. listing'.offset : listing'.got[j] = directory'[j]
       /\ listing'.done => listing'.offset = Len(directory')
  BY <1>2, <1>5, <1>12, <1>13, <1>14, <1>15, <1>16
<1> QED
  BY <1>17 DEF ListedTo

(* A directory that does not change is listed completely, every entry once *)
(* and in order, whatever its entries, the sizes the kernel asks for and   *)
(* the alignment, as long as a buffer has room for any one entry: what     *)
(* EntListBuf::push adds or refuses is just what the kernel's walk over    *)
(* the padded entries finds, and the offset it goes on from is the last    *)
(* entry's.                                                                *)
THEOREM ListedCorrect == Roomy => (Spec => []ListedOnce)
<1> SUFFICES ASSUME Roomy PROVE Spec => []ListedOnce
  OBVIOUS
<1>1. Init => ListedTo
  <2> SUFFICES ASSUME Init PROVE ListedTo
    OBVIOUS
  <2>1. directory \in Seq(Names)
    <3>1. PICK k \in 0 .. MaxListing : directory \in [1 .. k -> Names]
      BY DEF Init, Directories
    <3>2. k \in Nat
      BY <3>1
    <3> QED
      BY <3>1, <3>2
  <2> DEFINE none == <<>>
  <2>2. none \in Seq(Names) /\ Len(none) = 0
    OBVIOUS
  <2>3. listing = [got |-> none, offset |-> 0, done |-> FALSE]
    BY DEF Init
  <2> HIDE DEF none
  <2>4. listing.got = none /\ listing.offset = 0 /\ listing.done = FALSE
    BY <2>3
  <2> QED
    BY <2>1, <2>2, <2>4 DEF ListedTo
<1>2. ListedTo /\ [Next]_vars => ListedTo'
  <2> SUFFICES ASSUME ListedTo, [Next]_vars PROVE ListedTo'
    OBVIOUS
  <2>1. CASE UNCHANGED <<directory, listing>>
    BY <2>1 DEF ListedTo
  <2>2. CASE Request \/ SetXattr \/ UNCHANGED vars
    <3>1. ASSUME NEW op, NEW x, NEW caller, NEW mapped, NEW acl, NEW mislaid,
                 Exchange(op, x, caller, mapped, acl, mislaid)
          PROVE  UNCHANGED <<directory, listing>>
      BY <3>1 DEF Exchange
    <3>2. CASE Request
      BY <2>1, <3>1, <3>2 DEF Request
    <3>3. CASE SetXattr
      BY <2>1, <3>1, <3>3 DEF SetXattr
    <3>4. CASE UNCHANGED vars
      BY <2>1, <3>4 DEF vars
    <3> QED
      BY <2>2, <3>2, <3>3, <3>4
  <2>3. CASE ReadDir(FALSE) \/ ReadDir(TRUE)
    BY <2>3, ListingGoesOn
  <2> QED
    BY <2>2, <2>3 DEF Next
<1>3. ListedTo => ListedOnce
  <2> SUFFICES ASSUME ListedTo PROVE ListedOnce
    OBVIOUS
  <2> DEFINE s == listing.got
             t == directory
             n == listing.offset
  <2>1. /\ s \in Seq(Names) /\ t \in Seq(Names) /\ n \in 0 .. Len(t) /\ Len(s) = n
        /\ \A j \in 1 .. n : s[j] = t[j]
        /\ listing.done => n = Len(t)
    BY DEF ListedTo
  <2> HIDE DEF s, t, n
  <2>2. /\ SubSeq(s, 1, n) \in Seq(Names) /\ Len(SubSeq(s, 1, n)) = n
        /\ \A j \in 1 .. n : SubSeq(s, 1, n)[j] = s[j]
    BY <2>1
  <2>3. /\ SubSeq(t, 1, n) \in Seq(Names) /\ Len(SubSeq(t, 1, n)) = n
        /\ \A j \in 1 .. n : SubSeq(t, 1, n)[j] = t[j]
    BY <2>1
  <2>4. SubSeq(s, 1, n) = SubSeq(t, 1, n)
    BY <2>1, <2>2, <2>3, EqualSeqs
  <2>5. IsPrefix(s, t)
    BY <2>1, <2>4 DEF IsPrefix
  <2>6. listing.done => s = t
    BY <2>1, EqualSeqs
  <2> QED
    BY <2>5, <2>6 DEF ListedOnce, s, t
<1> QED
  BY <1>1, <1>2, <1>3, PTL DEF Spec

=============================================================================
