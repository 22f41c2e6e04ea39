--------------------------------- MODULE RLP ---------------------------------
(***************************************************************************)
(* libdevcore/RLP: the encoding of what is stored and sent.  A stream      *)
(* appends data and lists and puts the prefix of a list in when its last   *)
(* item is there; a reader finds the items of a list again, and keeps the  *)
(* place of the last one for the next access.  A byte is one of Base       *)
(* values and a length has at most MaxLengthBytes of them, so that a small *)
(* base has all the forms of prefix.  What is read is what a stream gave;  *)
(* lengths near the width of size_t are left out.                          *)
(***************************************************************************)
EXTENDS Integers, Sequences, SequencesExt

CONSTANTS
    Base, MaxLengthBytes, \* 256 and 8
    Bytes,     \* strings that are appended
    Ints,      \* numbers that are appended
    ListSizes, \* sizes of the lists that are started
    Raws,      \* encoded items that are appended raw
    MaxAppended

ASSUME RLPAssumption ==
    /\ Base \in Nat /\ MaxLengthBytes \in Nat \ {0} /\ Base % 4 = 0 /\ Base \div 4 > MaxLengthBytes + 1
    /\ Bytes \subseteq Seq(0..Base - 1) /\ Ints \subseteq Nat /\ ListSizes \subseteq Nat

VARIABLES
    out,       \* m_out
    listStack, \* m_listStack: the items a list still lacks, and where it starts
    appended,  \* what was appended, in order
    lastIndex, lastEnd, lastItem, \* of an RLP over out, when it is complete
    got        \* the item read last, and its index

streamVars == <<out, listStack, appended>>
rlpVars == <<streamVars, lastIndex, lastEnd, lastItem, got>>

DataImmLenStart == Base \div 2
ListStart == 3 * (Base \div 4)
DataImmLenCount == ListStart - DataImmLenStart - MaxLengthBytes
DataIndLenZero == DataImmLenStart + DataImmLenCount - 1
ListImmLenCount == Base - ListStart - MaxLengthBytes
ListIndLenZero == ListStart + ListImmLenCount - 1
-----------------------------------------------------------------------------
(* The stream. *)

BytesRequired(n) == CHOOSE k \in 0..n : n < Base ^ k /\ \A j \in 0..k - 1 : n >= Base ^ j
BigEndian(n) == LET k == BytesRequired(n) IN [i \in 1..k |-> (n \div Base ^ (k - i)) % Base]
PushCount(n, zero) == <<zero + BytesRequired(n)>> \o BigEndian(n)

AsData(s) ==
    IF Len(s) = 1 /\ s[1] < DataImmLenStart THEN s
    ELSE (IF Len(s) < DataImmLenCount THEN <<DataImmLenStart + Len(s)>> ELSE PushCount(Len(s), DataIndLenZero)) \o s

AsInt(n) ==
    IF n = 0 THEN <<DataImmLenStart>>
    ELSE IF n < DataImmLenStart THEN <<n>>
    ELSE LET br == BytesRequired(n)
         IN  (IF br < DataImmLenCount THEN <<DataImmLenStart + br>> ELSE PushCount(br, DataIndLenZero)) \o BigEndian(n)

\* Bug variant: a list whose size needs an indirect prefix from one byte later on.
BugListPrefix(size) ==
    IF size <= ListImmLenCount THEN <<ListStart + size>> ELSE PushCount(size, ListIndLenZero)

ListPrefix(size) ==
    IF size < ListImmLenCount THEN <<ListStart + size>> ELSE PushCount(size, ListIndLenZero)

\* noteAppended: a list that has its last item gets its prefix, and is an item of
\* the list around it.
RECURSIVE NoteAppended(_, _, _)
NoteAppended(bytes, stack, count) ==
    IF stack = <<>> THEN [out |-> bytes, stack |-> <<>>]
    ELSE LET top == Last(stack)
         IN  IF top.lacks > count
             THEN [out |-> bytes, stack |-> Append(Front(stack), [top EXCEPT !.lacks = @ - count])]
             ELSE LET list == SubSeq(bytes, top.from + 1, Len(bytes))
                  IN  NoteAppended(SubSeq(bytes, 1, top.from) \o ListPrefix(Len(list)) \o list, Front(stack), 1)

\* The RLP over what was written before is gone.
Write(bytes, count, event) ==
    /\ Len(appended) < MaxAppended
    /\ listStack # <<>> => count <= Last(listStack).lacks
    /\ LET noted == NoteAppended(out \o bytes, listStack, count)
       IN  out' = noted.out /\ listStack' = noted.stack
    /\ appended' = Append(appended, event)
    /\ lastIndex' = -1 /\ lastEnd' = 0 /\ lastItem' = <<>> /\ got' = <<>>

AppendBytes(s) == Write(AsData(s), 1, [kind |-> "data", of |-> s])
AppendInt(n) == Write(AsInt(n), 1, [kind |-> "data", of |-> BigEndian(n)])
AppendRaw(raw) == Write(raw.bytes, Len(raw.items), [kind |-> "raw", of |-> raw.items])

\* appendList(items), which for none is appendList of no bytes.
AppendList(n) ==
    IF n = 0 THEN Write(<<ListStart>>, 1, [kind |-> "list", of |-> 0])
    ELSE /\ Len(appended) < MaxAppended
         /\ listStack' = Append(listStack, [lacks |-> n, from |-> Len(out)])
         /\ appended' = Append(appended, [kind |-> "list", of |-> n])
         /\ lastIndex' = -1 /\ lastEnd' = 0 /\ lastItem' = <<>> /\ got' = <<>>
         /\ UNCHANGED out
-----------------------------------------------------------------------------
(* The reader. *)

IsData(d) == d # <<>> /\ d[1] < ListStart
IsList(d) == d # <<>> /\ d[1] >= ListStart
IsSingleByte(d) == d # <<>> /\ d[1] < DataImmLenStart
LengthSize(d) ==
    IF IsData(d) /\ d[1] > DataIndLenZero THEN d[1] - DataIndLenZero
    ELSE IF IsList(d) /\ d[1] > ListIndLenZero THEN d[1] - ListIndLenZero ELSE 0
PayloadOffset(d) == IF IsSingleByte(d) THEN 0 ELSE 1 + LengthSize(d)
FromBigEndian(s) == FoldLeft(LAMBDA n, b : n * Base + b, 0, s)

\* length(): what it throws for is not Good.
Length(d) ==
    IF IsSingleByte(d) THEN 1
    ELSE IF LengthSize(d) > 0 THEN FromBigEndian(SubSeq(d, 2, 1 + LengthSize(d)))
    ELSE IF IsData(d) THEN d[1] - DataImmLenStart ELSE d[1] - ListStart

Good(d) ==
    /\ d[1] = DataImmLenStart + 1 => Len(d) >= 2 /\ d[2] >= DataImmLenStart
    /\ LengthSize(d) > 0 =>
        /\ Len(d) > LengthSize(d) /\ d[2] # 0
        /\ Length(d) >= IF IsData(d) THEN DataImmLenCount ELSE ListImmLenCount

ActualSize(d) == IF d = <<>> THEN 0 ELSE IF IsSingleByte(d) THEN 1 ELSE PayloadOffset(d) + Length(d)
Readable(d) == d = <<>> \/ (Good(d) /\ ActualSize(d) <= Len(d))
Cropped(d, from) == SubSeq(d, from + 1, Len(d))
Payload(d) == SubSeq(d, PayloadOffset(d) + 1, PayloadOffset(d) + Length(d))
FirstItem(d) == SubSeq(d, 1, ActualSize(d))

IsInt(d) ==
    /\ IsData(d)
    /\ d[1] # DataImmLenStart => d[1 + PayloadOffset(d)] # 0

Complete == out # <<>> /\ listStack = <<>> /\ Readable(out) /\ ActualSize(out) = Len(out) /\ IsList(out)

\* operator[]: back to the first item for one before the last, and on from it.
RECURSIVE Onward(_, _)
Onward(s, i) ==
    IF s.index >= i \/ s.item = <<>> THEN s
    ELSE LET item == FirstItem(Cropped(Payload(out), s.end))
         IN  Onward([index |-> s.index + 1, end |-> s.end + Len(item), item |-> item], i)

\* Bug variant: m_lastEnd is not set back.
BugRestarted(i) ==
    IF lastIndex = -1 \/ i < lastIndex
    THEN LET item == FirstItem(Payload(out))
         IN  [index |-> 0, end |-> IF lastIndex = -1 THEN Len(item) ELSE lastEnd, item |-> item]
    ELSE [index |-> lastIndex, end |-> lastEnd, item |-> lastItem]

\* -1 stands for the greatest index, which no access has passed.
Restarted(i) ==
    IF lastIndex = -1 \/ i < lastIndex
    THEN LET item == FirstItem(Payload(out)) IN [index |-> 0, end |-> Len(item), item |-> item]
    ELSE [index |-> lastIndex, end |-> lastEnd, item |-> lastItem]

Index(i) ==
    /\ Complete
    /\ LET s == Onward(Restarted(i), i)
       IN  /\ lastIndex' = s.index /\ lastEnd' = s.end /\ lastItem' = s.item
           /\ got' = <<i, s.item>>
    /\ UNCHANGED streamVars

RLPInit ==
    /\ out = <<>> /\ listStack = <<>> /\ appended = <<>>
    /\ lastIndex = -1 /\ lastEnd = 0 /\ lastItem = <<>> /\ got = <<>>

RLPNext ==
    \/ \E s \in Bytes : AppendBytes(s)
    \/ \E n \in Ints : AppendInt(n)
    \/ \E raw \in Raws : AppendRaw(raw)
    \/ \E n \in ListSizes : AppendList(n)
    \/ \E i \in 0..MaxAppended : Index(i)

RLPSpec == RLPInit /\ [][RLPNext]_rlpVars
-----------------------------------------------------------------------------
(***************************************************************************)
(* Properties                                                              *)
(***************************************************************************)

Leaf(s) == [data |-> s, items |-> <<>>, list |-> FALSE]
Node(items) == [data |-> <<>>, items |-> items, list |-> TRUE]

\* What the calls said: a list is what the next so many items are.
RECURSIVE Said(_, _)
Said(events, n) ==
    IF n = 0 \/ events = <<>> THEN [items |-> <<>>, rest |-> events]
    ELSE LET e == Head(events)
             inner == Said(Tail(events), IF e.kind = "list" THEN e.of ELSE 0)
             items == CASE e.kind = "data" -> <<Leaf(e.of)>>
                        [] e.kind = "raw"  -> e.of
                        [] e.kind = "list" -> <<Node(inner.items)>>
             others == Said(inner.rest, n - Len(items))
         IN  [items |-> items \o others.items, rest |-> others.rest]

\* What is read, item by item: by items() and the iterators.
RECURSIVE Items(_)
Items(d) ==
    IF d = <<>> THEN <<>>
    ELSE LET item == FirstItem(d) IN <<item>> \o Items(Cropped(d, Len(item)))

RECURSIVE Read(_)
Read(d) ==
    IF IsList(d) THEN LET items == Items(Payload(d)) IN Node([i \in DOMAIN items |-> Read(items[i])])
    ELSE Leaf(Payload(d))

RECURSIVE AllReadable(_)
AllReadable(d) ==
    d # <<>> =>
        /\ Readable(d)
        /\ IsList(d) => AllReadable(Payload(d))
        /\ AllReadable(Cropped(d, ActualSize(d)))

\* Whatever is appended in whatever order, as data, numbers, lists or raw items,
\* the stream that has all its items is read back item by item as what was said,
\* and nothing in it is refused; numbers are numbers again.
StreamIsRead ==
    listStack = <<>> =>
        /\ AllReadable(out)
        /\ LET items == Items(out)
           IN  [i \in DOMAIN items |-> Read(items[i])] = Said(appended, Len(out)).items
        /\ \A n \in Ints : out = AsInt(n) => IsInt(out) /\ FromBigEndian(Payload(out)) = n

\* operator[] gives "the list item" at an index, and nothing behind the last,
\* whatever was accessed before, forwards and backwards (RLP.h:119).
ItemsAreTheirs ==
    got # <<>> => LET items == Items(Payload(out))
                  IN  got[2] = IF got[1] < Len(items) THEN items[got[1] + 1] ELSE <<>>

EncodingIsRead == StreamIsRead /\ ItemsAreTheirs
=============================================================================
