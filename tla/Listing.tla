------------------------------ MODULE Listing ------------------------------
(***************************************************************************)
(* Directory listings: the buffer a filesystem fills through               *)
(* ReplyDirectory or ReplyDirectoryPlus (EntListBuf in ll/reply.rs), and   *)
(* the walk the kernel makes over it.  A buffer maps the place where each  *)
(* entry starts to the entry; lengths are in bytes, scaled down.           *)
(***************************************************************************)
EXTENDS Integers, Sequences, SequencesExt

CONSTANTS DirentSize,     \* size of fuse_dirent, the header of an entry
          DirentPlusSize, \* size of fuse_direntplus
          Align           \* entries are padded to a multiple of this

ASSUME ListingAssumption ==
    DirentSize \in Nat \ {0} /\ DirentPlusSize \in Nat \ {0} /\ Align \in Nat \ {0}

HeaderSize(plus) == IF plus THEN DirentPlusSize ELSE DirentSize

next_multiple_of(n) == ((n + Align - 1) \div Align) * Align

(* EntListBuf::new                                                         *)
EmptyBuf(max_size) == [max_size |-> max_size, len |-> 0, at |-> <<>>]

\* Mutant of push: an entry is not padded.
pushUnpadded(buf, plus, entry) ==
    LET entsize == HeaderSize(plus) + Len(entry.name)
    IN  IF buf.len + entsize > buf.max_size THEN buf
        ELSE [buf EXCEPT !.len = @ + entsize, !.at = Append(@, <<buf.len, entry>>)]

(* EntListBuf::push: an entry is added whole and padded, or not at all.    *)
push(buf, plus, entry) ==
    LET entsize == next_multiple_of(HeaderSize(plus) + Len(entry.name))
    IN  IF buf.len + entsize > buf.max_size THEN buf
        ELSE [buf EXCEPT !.len = @ + entsize, !.at = Append(@, <<buf.len, entry>>)]
full(buf, plus, entry) == push(buf, plus, entry) = buf

(* readdir as examples/simple.rs answers it: the entries from the offset   *)
(* on, each with the offset of the one after it, until one does not fit.   *)
Fill(directory, offset, plus, max_size) ==
    LET buf[k \in 0 .. Len(directory)] ==
            IF k <= offset THEN [list |-> EmptyBuf(max_size), over |-> FALSE]
            ELSE LET before == buf[k - 1]
                     entry == [name |-> directory[k], off |-> k]
                 IN  IF before.over \/ full(before.list, plus, entry)
                     THEN [before EXCEPT !.over = TRUE]
                     ELSE [before EXCEPT !.list = push(before.list, plus, entry)]
    IN  buf[Len(directory)].list

(* The kernel walks the reply: it expects an entry where the one before it *)
(* ends, padding included, and stops where no header fits any more.  Where *)
(* none starts it takes for one whatever is there.                         *)
Garbage == [name |-> <<>>, off |-> 0]

Walk(buf, plus) ==
    LET walk[k \in 0 .. Len(buf.at)] ==
            IF k = 0 THEN [pos |-> 0, found |-> <<>>]
            ELSE LET before == walk[k - 1]
                     here == {j \in DOMAIN buf.at : buf.at[j][1] = before.pos}
                 IN  IF before.pos + HeaderSize(plus) > buf.len THEN before
                     ELSE LET entry == IF here = {} THEN Garbage ELSE buf.at[CHOOSE j \in here : TRUE][2]
                          IN  [pos |-> before.pos
                                       + next_multiple_of(HeaderSize(plus) + Len(entry.name)),
                               found |-> Append(before.found, entry)]
    IN  walk[Len(buf.at)].found

=============================================================================
