---------------------------- MODULE ToolsProofs -----------------------------
(***************************************************************************)
(* The tools. First the head-and-tail buffer of BoundedExec, for all       *)
(* capacities, all outputs and all ways to cut an output into writes. Then *)
(* the calls of FileTools, for all files, requests and numbers of calls.   *)
(* Last the searches of Search, for all trees, requests and limits.        *)
(***************************************************************************)
EXTENDS BoundedExec, FileTools, Search, NumberFacts, SequenceTheorems, FiniteSetTheorems, TLAPS

-----------------------------------------------------------------------------
(* The buffer: its invariant                                               *)

\* Bytes that have left the current Write: in the head, in the ring, or dropped.
Consumed == Len(written) - Len(pending)

BufferTypes ==
  /\ head \in Seq(Bytes) /\ written \in Seq(Bytes) /\ pending \in Seq(Bytes)
  /\ tail \in [Slots -> Bytes] /\ tailStart \in Slots /\ tailLen \in 0 .. TailCap
  /\ total = Len(written)

\* The head holds the first bytes. Only a full head lets bytes pass.
HeadInv ==
  /\ Len(head) <= HeadCap
  /\ Len(head) < HeadCap => Len(written) = Len(head)
  /\ \A i \in 1 .. Len(head) : head[i] = written[i]

\* What is pending are the last bytes of written.
PendingInv ==
  /\ Len(head) + tailLen <= Consumed
  /\ \A i \in 1 .. Len(pending) : pending[i] = written[Consumed + i]

\* The ring, read from tailStart on, holds the last bytes consumed; nothing is dropped before
\* it is full.
RingInv ==
  /\ tailLen < TailCap => Consumed = Len(head) + tailLen
  /\ \A i \in 1 .. tailLen : tail[(tailStart + i - 1) % TailCap] = written[Consumed - tailLen + i]

BufferInv == BufferTypes /\ HeadInv /\ PendingInv /\ RingInv

-----------------------------------------------------------------------------
(* The buffer: numbers and sequences                                       *)

\* Going round the ring at most once.
LEMMA Wrap ==
  ASSUME NEW a \in Slots, NEW b \in 0 .. TailCap
  PROVE  (a + b) % TailCap = IF a + b < TailCap THEN a + b ELSE a + b - TailCap
  <1> DEFINE j == a + b
  <1>1. j \in Nat /\ j < 2 * TailCap
    BY BoundedExecAssumption DEF Slots
  <1> HIDE DEF j
  <1>2. j % TailCap = IF j < TailCap THEN j ELSE j - TailCap
    BY <1>1, BoundedExecAssumption
  <1> QED BY <1>2, BoundedExecAssumption DEF j, Slots

\* The slot of the i-th byte of a ring that begins at a.
LEMMA WrapIndex ==
  ASSUME NEW a \in Slots, NEW i \in 1 .. TailCap
  PROVE  (a + i - 1) % TailCap = IF a + i - 1 < TailCap THEN a + i - 1 ELSE a + i - 1 - TailCap
  <1>1. i - 1 \in 0 .. TailCap /\ a + (i - 1) = a + i - 1
    BY BoundedExecAssumption DEF Slots
  <1>2. (a + (i - 1)) % TailCap = IF a + (i - 1) < TailCap THEN a + (i - 1) ELSE a + (i - 1) - TailCap
    BY <1>1, Wrap
  <1> QED BY <1>1, <1>2

\* A concatenation, element by element.
LEMMA Concat == ASSUME NEW s \in Seq(Bytes), NEW t \in Seq(Bytes)
                PROVE  /\ s \o t \in Seq(Bytes) /\ Len(s \o t) = Len(s) + Len(t)
                       /\ \A i \in 1 .. Len(s) : (s \o t)[i] = s[i]
                       /\ \A i \in 1 .. Len(t) : (s \o t)[Len(s) + i] = t[i]
  BY ConcatProperties

\* A part of a sequence, element by element.
LEMMA Part == ASSUME NEW s \in Seq(Bytes), NEW m \in 1 .. Len(s) + 1, NEW n \in m - 1 .. Len(s)
              PROVE  /\ SubSeq(s, m, n) \in Seq(Bytes) /\ Len(SubSeq(s, m, n)) = n - m + 1
                     /\ \A i \in 1 .. n - m + 1 : SubSeq(s, m, n)[i] = s[m + i - 1]
  <1>1. \A i \in m .. n : s[i] \in Bytes
    BY ElementOfSeq
  <1> QED BY <1>1, SubSeqProperties

\* TrimHead keeps a prefix that ends with the last newline, or everything.
LEMMA TrimHeadIsPrefix ==
  ASSUME NEW s \in Seq(Bytes)
  PROVE  \E m \in 0 .. Len(s) :
           /\ TrimHead(s) = SubSeq(s, 1, m)
           /\ IF \E i \in 1 .. Len(s) : s[i] = Newline THEN m > 0 /\ s[m] = Newline ELSE m = Len(s)
           /\ \A i \in m + 1 .. Len(s) : s[i] # Newline
  <1>0. Len(s) \in Nat /\ Newlines(s) \in SUBSET (1 .. Len(s))
        /\ \A i \in 1 .. Len(s) : i \in Newlines(s) <=> s[i] = Newline
    BY DEF Newlines
  <1>1. CASE Newlines(s) = {}
    BY <1>0, <1>1, SubSeqFull DEF TrimHead
  <1>2. CASE Newlines(s) # {}
    <2>1. Newlines(s) \in SUBSET (0 .. Len(s))
      BY <1>0
    <2>2. \E x \in Newlines(s) : \A y \in Newlines(s) : x >= y
      BY <1>0, <2>1, <1>2, GreatestNumber
    <2>3. Max(Newlines(s)) \in Newlines(s) /\ \A y \in Newlines(s) : Max(Newlines(s)) >= y
      BY <2>2 DEF Max
    <2>4. PICK m \in 1 .. Len(s) : m = Max(Newlines(s))
      BY <1>0, <2>3
    <2>5. TrimHead(s) = SubSeq(s, 1, m)
      BY <1>2, <2>4 DEF TrimHead
    <2>6. s[m] = Newline
      BY <1>0, <2>3, <2>4
    <2>7. \A i \in m + 1 .. Len(s) : s[i] # Newline
      BY <1>0, <2>3, <2>4
    <2>8. m \in 0 .. Len(s) /\ m > 0 /\ \E i \in 1 .. Len(s) : s[i] = Newline
      BY <1>0, <2>4, <2>6
    <2> QED BY <2>5, <2>6, <2>7, <2>8
  <1> QED BY <1>1, <1>2

\* TrimTail keeps a suffix that follows the first newline, or everything.
LEMMA TrimTailIsSuffix ==
  ASSUME NEW s \in Seq(Bytes)
  PROVE  \E m \in 0 .. Len(s) :
           /\ TrimTail(s) = SubSeq(s, m + 1, Len(s))
           /\ IF \E i \in 1 .. Len(s) : s[i] = Newline THEN m > 0 /\ s[m] = Newline ELSE m = 0
           /\ \A i \in 1 .. m - 1 : s[i] # Newline
  <1>0. Len(s) \in Nat /\ Newlines(s) \in SUBSET (1 .. Len(s))
        /\ \A i \in 1 .. Len(s) : i \in Newlines(s) <=> s[i] = Newline
    BY DEF Newlines
  <1>1. CASE Newlines(s) = {}
    BY <1>0, <1>1, SubSeqFull DEF TrimTail
  <1>2. CASE Newlines(s) # {}
    <2>1. Newlines(s) \in SUBSET Nat
      BY <1>0
    <2>2. \E x \in Newlines(s) : \A y \in Newlines(s) : x =< y
      BY <2>1, <1>2, LeastNumber
    <2>3. Min(Newlines(s)) \in Newlines(s) /\ \A y \in Newlines(s) : Min(Newlines(s)) =< y
      BY <2>2 DEF Min
    <2>4. PICK m \in 1 .. Len(s) : m = Min(Newlines(s))
      BY <1>0, <2>3
    <2>5. TrimTail(s) = SubSeq(s, m + 1, Len(s))
      BY <1>2, <2>4 DEF TrimTail
    <2>6. s[m] = Newline
      BY <1>0, <2>3, <2>4
    <2>7. \A i \in 1 .. m - 1 : s[i] # Newline
      BY <1>0, <2>3, <2>4
    <2>8. m \in 0 .. Len(s) /\ m > 0 /\ \E i \in 1 .. Len(s) : s[i] = Newline
      BY <1>0, <2>4, <2>6
    <2> QED BY <2>5, <2>6, <2>7, <2>8
  <1> QED BY <1>1, <1>2

\* What a prefix and a suffix are, element by element.
LEMMA PrefixByElement ==
  ASSUME NEW s \in Seq(Bytes), NEW t \in Seq(Bytes), Len(s) <= Len(t),
         \A i \in 1 .. Len(s) : s[i] = t[i]
  PROVE  IsPrefix(s, t)
  <1>1. SubSeq(s, 1, Len(s)) = s
    BY SubSeqFull
  <1>2. SubSeq(t, 1, Len(s)) = s
    BY Part, SeqEqual
  <1> QED BY <1>1, <1>2 DEF IsPrefix

\* A sequence whose elements are the last ones of another is a suffix of it.
LEMMA SuffixByElement ==
  ASSUME NEW s \in Seq(Bytes), NEW t \in Seq(Bytes), Len(s) <= Len(t),
         \A i \in 1 .. Len(s) : s[i] = t[Len(t) - Len(s) + i]
  PROVE  IsSuffix(s, t)
  <1>1. ASSUME NEW u \in Seq(Bytes)
        PROVE  /\ Reverse(u) \in Seq(Bytes) /\ Len(Reverse(u)) = Len(u)
               /\ \A i \in 1 .. Len(u) : Reverse(u)[i] = u[Len(u) - i + 1]
    BY DEF Reverse
  <1>2. \A i \in 1 .. Len(s) : Reverse(s)[i] = Reverse(t)[i]
    <2> SUFFICES ASSUME NEW i \in 1 .. Len(s) PROVE Reverse(s)[i] = Reverse(t)[i]
      OBVIOUS
    <2>0. i \in 1 .. Len(t)
      OBVIOUS
    <2>1. Reverse(s)[i] = s[Len(s) - i + 1] /\ Reverse(t)[i] = t[Len(t) - i + 1]
      BY <1>1, <2>0, Zenon
    <2>2. Len(s) - i + 1 \in 1 .. Len(s) /\ Len(t) - Len(s) + (Len(s) - i + 1) = Len(t) - i + 1
      OBVIOUS
    <2> QED BY <2>1, <2>2
  <1> QED BY <1>1, <1>2, PrefixByElement DEF IsSuffix

USE BoundedExecAssumption

-----------------------------------------------------------------------------
(* The buffer: its steps                                                   *)

\* A new buffer is empty.
LEMMA BufferInit == ExecInit => BufferInv
  <1> SUFFICES ASSUME ExecInit PROVE BufferInv
    OBVIOUS
  <1>1. BufferTypes
    BY DEF ExecInit, BufferTypes, Slots
  <1>2. HeadInv /\ PendingInv /\ RingInv
    BY DEF ExecInit, HeadInv, PendingInv, RingInv, Consumed
  <1> QED BY <1>1, <1>2 DEF BufferInv

\* The pieces a command writes are sequences of bytes.
LEMMA PiecesAreSequences == \A p \in Pieces : p \in Seq(Bytes)
  BY DEF Pieces

\* Write: the head takes what it has room for and the rest is pending.
LEMMA WriteStep == ASSUME BufferInv, NEW p \in Seq(Bytes), Write(p) PROVE BufferInv'
  <1> DEFINE need == HeadCap - Len(head)
  <1>0. BufferTypes /\ HeadInv /\ PendingInv /\ RingInv
    BY DEF BufferInv
  <1> USE DEF BufferTypes, HeadInv, PendingInv, RingInv
  <1>1. pending = <<>> /\ UNCHANGED <<tail, tailStart, tailLen>>
    BY DEF Write
  <1>2. /\ written' \in Seq(Bytes) /\ Len(written') = Len(written) + Len(p) /\ total' = Len(written')
        /\ \A i \in 1 .. Len(written) : written'[i] = written[i]
        /\ \A i \in 1 .. Len(p) : written'[Len(written) + i] = p[i]
    BY <1>0, Concat DEF Write
  <1>3. /\ need \in 0 .. HeadCap /\ Len(head) \in Nat /\ Len(written) \in Nat /\ Len(p) \in Nat
        /\ Consumed = Len(written)
    BY <1>0, <1>1 DEF Consumed
  <1>4. need > 0 => Len(written) = Len(head) /\ tailLen = 0
    BY <1>0, <1>1, <1>3
  <1>5. /\ head' \in Seq(Bytes) /\ pending' \in Seq(Bytes)
        /\ Len(head') \in Nat /\ Len(pending') \in Nat
        /\ Len(head') + Len(pending') = Len(head) + Len(p)
        /\ Len(head') <= HeadCap /\ (Len(head') < HeadCap => Len(pending') = 0)
        /\ Len(head) <= Len(head')
        /\ \A i \in 1 .. Len(head) : head'[i] = head[i]
        /\ \A i \in 1 .. Len(head') - Len(head) : head'[Len(head) + i] = p[i]
        /\ \A i \in 1 .. Len(pending') : pending'[i] = p[Len(head') - Len(head) + i]
    <2>1. CASE need = 0
      BY <1>0, <1>3, <2>1 DEF Write
    <2>2. CASE need > 0 /\ Len(p) <= need
      <3>1. head' = head \o p /\ pending' = <<>>
        BY <1>1, <1>3, <2>2 DEF Write
      <3>2. /\ head' \in Seq(Bytes) /\ Len(head') = Len(head) + Len(p)
            /\ \A i \in 1 .. Len(head) : head'[i] = head[i]
            /\ \A i \in 1 .. Len(p) : head'[Len(head) + i] = p[i]
        BY <1>0, <3>1, Concat
      <3>3. pending' \in Seq(Bytes) /\ Len(pending') = 0
        BY <3>1
      <3> HIDE DEF need
      <3>4. Len(head') \in Nat /\ Len(head') <= HeadCap /\ Len(head) <= Len(head')
            /\ Len(head') + Len(pending') = Len(head) + Len(p)
        BY <1>3, <2>2, <3>2, <3>3 DEF need
      <3>5. Len(head') - Len(head) = Len(p) /\ \A i \in 1 .. Len(p) : head'[Len(head) + i] = p[i]
        BY <1>3, <3>2
      <3>6. \A i \in 1 .. Len(pending') : FALSE
        BY <3>3
      <3> QED BY <3>2, <3>3, <3>4, <3>5, <3>6
    <2>3. CASE need > 0 /\ Len(p) > need
      <3>1. /\ SubSeq(p, 1, need) \in Seq(Bytes) /\ Len(SubSeq(p, 1, need)) = need
            /\ \A i \in 1 .. need : SubSeq(p, 1, need)[i] = p[i]
        BY <1>3, <2>3, Part
      <3>2. /\ SubSeq(p, need + 1, Len(p)) \in Seq(Bytes) /\ Len(SubSeq(p, need + 1, Len(p))) = Len(p) - need
            /\ \A i \in 1 .. Len(p) - need : SubSeq(p, need + 1, Len(p))[i] = p[need + i]
        BY <1>3, <2>3, Part
      <3>3. head' = head \o SubSeq(p, 1, need) /\ pending' = SubSeq(p, need + 1, Len(p))
        BY <1>3, <2>3 DEF Write
      <3>4. /\ head' \in Seq(Bytes) /\ Len(head') = HeadCap
            /\ \A i \in 1 .. Len(head) : head'[i] = head[i]
            /\ \A i \in 1 .. need : head'[Len(head) + i] = p[i]
        BY <1>0, <1>3, <3>1, <3>3, Concat
      <3>5. Len(head') - Len(head) = need
        BY <1>3, <3>4
      <3>6. Len(pending') = Len(p) - need /\ \A i \in 1 .. Len(pending') : pending'[i] = p[need + i]
        BY <3>2, <3>3
      <3>7. /\ need \in Nat /\ Len(head) + need = HeadCap /\ Len(pending') \in Nat
            /\ Len(head') + Len(pending') = Len(head) + Len(p) /\ Len(head) <= Len(head')
        BY <1>3, <2>3, <3>4, <3>6
      <3>8. pending' \in Seq(Bytes)
        BY <3>2, <3>3
      <3> HIDE DEF need
      <3> QED BY <1>3, <3>4, <3>5, <3>6, <3>7, <3>8
    <2> QED BY <1>3, <2>1, <2>2, <2>3
  <1>6. Len(head') > Len(head) => Len(written) = Len(head) /\ tailLen = 0
    BY <1>3, <1>4, <1>5
  <1>7. BufferTypes'
    BY <1>0, <1>1, <1>2, <1>5
  <1>8. HeadInv'
    <2>1. Len(head') < HeadCap => Len(written') = Len(head')
      BY <1>2, <1>3, <1>4, <1>5
    <2>2. ASSUME NEW i \in 1 .. Len(head') PROVE head'[i] = written'[i]
      <3>1. CASE i <= Len(head)
        BY <1>0, <1>2, <1>3, <1>5, <3>1
      <3>2. CASE i > Len(head)
        <4>1. Len(written) = Len(head) /\ i - Len(head) \in 1 .. Len(head') - Len(head)
              /\ i - Len(head) \in 1 .. Len(p)
          BY <1>3, <1>5, <1>6, <3>2
        <4>2. head'[Len(head) + (i - Len(head))] = p[i - Len(head)]
          BY <1>5, <4>1
        <4>3. written'[Len(written) + (i - Len(head))] = p[i - Len(head)]
          BY <1>2, <4>1
        <4> QED BY <1>3, <4>1, <4>2, <4>3
      <3> QED BY <1>3, <1>5, <3>1, <3>2
    <2> QED BY <1>5, <2>1, <2>2
  <1>9. Consumed' = Consumed + Len(head') - Len(head)
    <2>1. Consumed' = Len(written') - Len(pending')
      BY DEF Consumed
    <2>2. Len(head') \in Nat /\ Len(pending') \in Nat /\ Len(head') + Len(pending') = Len(head) + Len(p)
      BY <1>5
    <2>3. Len(written') = Len(written) + Len(p)
      BY <1>2
    <2> QED BY <1>3, <2>1, <2>2, <2>3
  <1>10. PendingInv'
    <2>1. Len(head') + tailLen' <= Consumed'
      BY <1>0, <1>1, <1>3, <1>5, <1>9
    <2>2. ASSUME NEW i \in 1 .. Len(pending') PROVE pending'[i] = written'[Consumed' + i]
      <3> DEFINE j == Len(head') - Len(head) + i
      <3>1. j \in 1 .. Len(p) /\ pending'[i] = p[j] /\ Consumed' + i = Len(written) + j
        BY <1>3, <1>5, <1>9
      <3> HIDE DEF j
      <3> QED BY <1>2, <3>1
    <2> QED BY <2>1, <2>2
  <1>11. RingInv'
    <2>1. tailLen' < TailCap => Consumed' = Len(head') + tailLen'
      <3>1. tailLen \in Nat /\ TailCap \in Nat /\ tailLen' = tailLen
        BY <1>0, <1>1
      <3>2. tailLen < TailCap => Consumed = Len(head) + tailLen
        BY <1>0
      <3>3. Len(head') \in Nat
        BY <1>5
      <3> QED BY <1>3, <1>9, <3>1, <3>2, <3>3
    <2>2. ASSUME NEW i \in 1 .. tailLen'
          PROVE  tail'[(tailStart' + i - 1) % TailCap] = written'[Consumed' - tailLen' + i]
      <3>1. Consumed' = Consumed
        <4>1. tailLen # 0
          BY <1>0, <1>1
        <4>2. Len(head') = Len(head)
          BY <1>3, <1>5, <1>6, <4>1
        <4> QED BY <1>3, <1>9, <4>2
      <3>2. Consumed - tailLen + i \in 1 .. Len(written)
        BY <1>0, <1>1, <1>3, <1>9
      <3> QED BY <1>0, <1>1, <1>2, <3>1, <3>2
    <2> QED BY <2>1, <2>2
  <1> QED BY <1>7, <1>8, <1>10, <1>11 DEF BufferInv

\* Write's loop moves a byte into the ring, in place of the oldest one once it is full.
LEMMA PushStep == ASSUME BufferInv, Push PROVE BufferInv'
  <1> DEFINE c == Head(pending)
  <1>0. BufferTypes /\ HeadInv /\ PendingInv /\ RingInv
    BY DEF BufferInv
  <1> USE DEF BufferTypes, HeadInv, PendingInv, RingInv
  <1>1. pending # <<>> /\ pending' = Tail(pending) /\ UNCHANGED <<head, total, written>>
    BY DEF Push
  <1>2. /\ c \in Bytes /\ c = pending[1] /\ Len(pending) > 0
        /\ pending' \in Seq(Bytes) /\ Len(pending') = Len(pending) - 1
        /\ \A i \in 1 .. Len(pending') : pending'[i] = pending[i + 1]
    BY <1>0, <1>1, HeadTailProperties
  <1>3. Len(written) \in Nat /\ Len(head) \in Nat /\ Len(pending) \in Nat /\ Consumed \in Nat /\ Consumed' = Consumed + 1
    BY <1>0, <1>1, <1>2 DEF Consumed
  <1>4. c = written[Consumed + 1]
    BY <1>0, <1>2
  <1>5. \A i \in 1 .. Len(pending') : pending'[i] = written'[Consumed' + i]
    <2> SUFFICES ASSUME NEW i \in 1 .. Len(pending') PROVE pending'[i] = written'[Consumed' + i]
      OBVIOUS
    <2>1. i + 1 \in 1 .. Len(pending) /\ Consumed' + i = Consumed + (i + 1)
      <3>1. i \in 1 .. Len(pending) - 1
        BY <1>2
      <3> QED BY <1>3, <3>1
    <2> QED BY <1>0, <1>1, <1>2, <2>1
  <1> HIDE DEF c
  <1>6. CASE tailLen < TailCap
    <2> DEFINE k == (tailStart + tailLen) % TailCap
    <2>1. tail' = [tail EXCEPT ![k] = c] /\ tailLen' = tailLen + 1 /\ tailStart' = tailStart
      BY <1>6 DEF Push, c
    <2>2. k = IF tailStart + tailLen < TailCap THEN tailStart + tailLen ELSE tailStart + tailLen - TailCap
      BY <1>0, Wrap
    <2>3. k \in Slots
      <3> HIDE DEF k
      <3> QED BY <1>0, <1>6, <2>2 DEF Slots
    <2>4. ASSUME NEW i \in 1 .. tailLen
          PROVE  (tailStart + i - 1) % TailCap \in Slots \ {k}
      <3>1. (tailStart + i - 1) % TailCap =
              IF tailStart + i - 1 < TailCap THEN tailStart + i - 1 ELSE tailStart + i - 1 - TailCap
        <4>1. i \in 1 .. TailCap
          BY <1>0
        <4> QED BY <1>0, <4>1, WrapIndex
      <3> HIDE DEF k
      <3>2. tailStart \in 0 .. TailCap - 1 /\ tailLen \in 0 .. TailCap - 1 /\ TailCap \in Nat
        BY <1>0, <1>6 DEF Slots
      <3> QED BY <2>2, <3>1, <3>2 DEF Slots
    <2> HIDE DEF k
    <2>5. tail' \in [Slots -> Bytes] /\ tail'[k] = c /\ \A s \in Slots \ {k} : tail'[s] = tail[s]
      BY <1>0, <1>2, <2>1, <2>3
    <2>6. ASSUME NEW i \in 1 .. tailLen'
          PROVE  tail'[(tailStart' + i - 1) % TailCap] = written'[Consumed' - tailLen' + i]
      <3>1. Consumed' - tailLen' + i = Consumed - tailLen + i
        BY <1>0, <1>3, <2>1
      <3>2. CASE i <= tailLen
        BY <1>0, <1>1, <2>1, <2>4, <2>5, <3>1, <3>2
      <3>3. CASE i = tailLen + 1
        <4>1. (tailStart + i - 1) % TailCap = k
          BY <1>0, <3>3 DEF k
        <4>2. Consumed - tailLen + i = Consumed + 1
          BY <1>0, <1>3, <3>3
        <4> QED BY <1>1, <1>4, <2>1, <2>5, <3>1, <4>1, <4>2
      <3> QED BY <1>0, <2>1, <3>2, <3>3
    <2>7. BufferTypes' /\ HeadInv'
      BY <1>0, <1>1, <1>2, <1>6, <2>1, <2>5
    <2>8. PendingInv'
      BY <1>0, <1>1, <1>3, <1>5, <2>1
    <2>9. RingInv'
      BY <1>0, <1>1, <1>3, <1>6, <2>1, <2>6
    <2> QED BY <2>7, <2>8, <2>9 DEF BufferInv
  <1>7. CASE tailLen = TailCap
    <2>1. tail' = [tail EXCEPT ![tailStart] = c] /\ tailLen' = tailLen /\ tailStart' = (tailStart + 1) % TailCap
      BY <1>7 DEF Push, Overwrite, c
    <2>2. tailStart' = IF tailStart + 1 < TailCap THEN tailStart + 1 ELSE 0
      <3>1. 1 \in 0 .. TailCap
        OBVIOUS
      <3>2. tailStart' = IF tailStart + 1 < TailCap THEN tailStart + 1 ELSE tailStart + 1 - TailCap
        BY <1>0, <2>1, <3>1, Wrap
      <3> QED BY <1>0, <3>2 DEF Slots
    <2>3. tail' \in [Slots -> Bytes] /\ tail'[tailStart] = c /\ \A s \in Slots \ {tailStart} : tail'[s] = tail[s]
      BY <1>0, <1>2, <2>1
    <2>4. ASSUME NEW i \in 1 .. tailLen'
          PROVE  tail'[(tailStart' + i - 1) % TailCap] = written'[Consumed' - tailLen' + i]
      <3>0. tailStart' \in Slots /\ i \in 1 .. TailCap
        BY <1>0, <1>7, <2>1, <2>2 DEF Slots
      <3>1. (tailStart' + i - 1) % TailCap =
              IF tailStart + i < TailCap THEN tailStart + i ELSE tailStart + i - TailCap
        <4>1. (tailStart' + i - 1) % TailCap =
                IF tailStart' + i - 1 < TailCap THEN tailStart' + i - 1 ELSE tailStart' + i - 1 - TailCap
          BY <3>0, WrapIndex
        <4> QED BY <1>0, <2>2, <3>0, <4>1 DEF Slots
      <3>2. CASE i = TailCap
        <4>1. (tailStart' + i - 1) % TailCap = tailStart
          BY <1>0, <3>1, <3>2 DEF Slots
        <4>2. Consumed' - tailLen' + i = Consumed + 1
          BY <1>0, <1>3, <1>7, <2>1, <3>2
        <4> QED BY <1>1, <1>4, <2>3, <4>1, <4>2
      <3>3. CASE i < TailCap
        <4> DEFINE k == (tailStart' + i - 1) % TailCap
        <4>1. k \in Slots \ {tailStart}
          BY <1>0, <3>1, <3>3 DEF Slots
        <4>2. i + 1 \in 1 .. tailLen /\ Consumed' - tailLen' + i = Consumed - tailLen + (i + 1)
          BY <1>0, <1>3, <1>7, <2>1, <3>3
        <4>3. k = (tailStart + (i + 1) - 1) % TailCap
          <5>1. (tailStart + (i + 1) - 1) % TailCap = IF tailStart + (i + 1) - 1 < TailCap
                  THEN tailStart + (i + 1) - 1 ELSE tailStart + (i + 1) - 1 - TailCap
            BY <1>0, <1>7, <4>2, WrapIndex
          <5> QED BY <1>0, <3>0, <3>1, <5>1 DEF Slots
        <4>4. tail[k] = written[Consumed - tailLen + (i + 1)]
          BY <1>0, <4>2, <4>3
        <4> HIDE DEF k
        <4> QED BY <1>1, <2>3, <4>1, <4>2, <4>4 DEF k
      <3> QED BY <1>0, <1>7, <2>1, <3>2, <3>3
    <2>5. BufferTypes' /\ HeadInv'
      BY <1>0, <1>1, <1>2, <1>7, <2>1, <2>2, <2>3 DEF Slots
    <2>6. PendingInv'
      <3>1. Len(head) + tailLen <= Consumed
        BY <1>0
      <3> QED BY <1>0, <1>1, <1>3, <1>5, <2>1, <3>1
    <2>7. RingInv'
      BY <1>7, <2>1, <2>4
    <2> QED BY <2>5, <2>6, <2>7 DEF BufferInv
  <1> QED BY <1>0, <1>6, <1>7

\* Nothing but writes touches the buffer.
LEMMA BufferNext == BufferInv /\ [ExecNext]_execVars => BufferInv'
  <1> SUFFICES ASSUME BufferInv, [ExecNext]_execVars PROVE BufferInv'
    OBVIOUS
  <1>1. CASE UNCHANGED bufVars
    BY <1>1 DEF bufVars, BufferInv, BufferTypes, HeadInv, PendingInv, RingInv, Consumed
  <1>2. CASE Push
    BY <1>2, PushStep
  <1>3. ASSUME NEW p \in Pieces, Output(p) PROVE BufferInv'
    BY <1>3, WriteStep, PiecesAreSequences DEF Output
  <1> QED
    BY <1>1, <1>2, <1>3 DEF ExecNext, execVars, Start, Fork, Exit, OrphansExit, Over, Timeout, CancelTurn, Return

-----------------------------------------------------------------------------
(* What String makes of it                                                 *)

\* The ring in order is the end of the output.
LEMMA TailIsSuffix ==
  ASSUME BufferInv, pending = <<>>
  PROVE  /\ LinearTail \in Seq(Bytes) /\ Len(LinearTail) = tailLen
         /\ Len(head) + tailLen <= Len(written)
         /\ \A i \in 1 .. tailLen : LinearTail[i] = written[Len(written) - tailLen + i]
  <1>0. BufferTypes /\ HeadInv /\ PendingInv /\ RingInv
    BY DEF BufferInv
  <1>1. Consumed = Len(written) /\ Len(written) \in Nat
    BY <1>0 DEF Consumed, BufferTypes
  <1>2. \A i \in 1 .. tailLen : (tailStart + i - 1) % TailCap \in Slots
    <2> SUFFICES ASSUME NEW i \in 1 .. tailLen PROVE (tailStart + i - 1) % TailCap \in Slots
      OBVIOUS
    <2>1. (tailStart + i - 1) % TailCap =
            IF tailStart + i - 1 < TailCap THEN tailStart + i - 1 ELSE tailStart + i - 1 - TailCap
      BY <1>0, WrapIndex DEF BufferTypes
    <2> QED BY <1>0, <2>1 DEF BufferTypes, Slots
  <1>3. LinearTail \in [1 .. tailLen -> Bytes]
    BY <1>0, <1>2 DEF LinearTail, BufferTypes
  <1>4. LinearTail \in Seq(Bytes) /\ Len(LinearTail) = tailLen
    BY <1>0, <1>3 DEF BufferTypes
  <1> QED BY <1>0, <1>1, <1>4 DEF LinearTail, RingInv, PendingInv

\* The invariant of the buffer is what String needs.
LEMMA StringIsFaithful == BufferInv => OutputIsFaithful
  <1> SUFFICES ASSUME BufferInv, pending = <<>>
               PROVE  /\ total = Len(written)
                      /\ total <= HeadCap + TailCap => String.dropped = 0
                      /\ String.dropped = 0 => String.head \o String.tail = written
                      /\ String.dropped > 0 =>
                           /\ IsPrefix(String.head, written) /\ IsSuffix(String.tail, written)
                           /\ Len(String.head) + String.dropped + Len(String.tail) = total
                           /\ CutAtLines(Len(String.head), total - Len(String.tail))
    BY DEF OutputIsFaithful
  <1> DEFINE lin  == LinearTail
             gone == total - Len(head) - tailLen
             hp   == TrimHead(head)
             tp   == TrimTail(lin)
             all  == tailLen = 0 \/ Len(head) # HeadCap \/ gone <= 0
  <1>1. /\ lin \in Seq(Bytes) /\ Len(lin) = tailLen
        /\ Len(head) + tailLen <= Len(written)
        /\ \A i \in 1 .. tailLen : lin[i] = written[Len(written) - tailLen + i]
    BY TailIsSuffix
  <1>2. /\ head \in Seq(Bytes) /\ written \in Seq(Bytes) /\ tailLen \in 0 .. TailCap /\ total = Len(written)
        /\ Len(head) \in Nat /\ Len(written) \in Nat
    BY DEF BufferInv, BufferTypes
  <1>3. /\ Len(head) <= HeadCap /\ (Len(head) < HeadCap => Len(written) = Len(head))
        /\ \A i \in 1 .. Len(head) : head[i] = written[i]
        /\ tailLen < TailCap => Len(written) = Len(head) + tailLen
    BY <1>2 DEF BufferInv, HeadInv, RingInv, Consumed
  <1>4. PICK m \in 0 .. Len(head) : /\ hp = SubSeq(head, 1, m)
                                    /\ IF \E i \in 1 .. Len(head) : head[i] = Newline
                                       THEN m > 0 /\ head[m] = Newline ELSE m = Len(head)
                                    /\ \A i \in m + 1 .. Len(head) : head[i] # Newline
    BY <1>2, TrimHeadIsPrefix
  <1>5. PICK n \in 0 .. Len(lin) : /\ tp = SubSeq(lin, n + 1, Len(lin))
                                   /\ IF \E i \in 1 .. Len(lin) : lin[i] = Newline
                                      THEN n > 0 /\ lin[n] = Newline ELSE n = 0
                                   /\ \A i \in 1 .. n - 1 : lin[i] # Newline
    BY <1>1, TrimTailIsSuffix
  <1>6. hp \in Seq(Bytes) /\ Len(hp) = m /\ \A i \in 1 .. m : hp[i] = head[i]
    BY <1>2, <1>4, Part
  <1>7. tp \in Seq(Bytes) /\ Len(tp) = tailLen - n /\ \A i \in 1 .. tailLen - n : tp[i] = lin[n + i]
    BY <1>1, <1>2, <1>5, Part
  <1>8. all => String = [head |-> head, dropped |-> 0, tail |-> lin]
    BY DEF String
  <1>9. ~all => String = [head |-> hp, tail |-> tp, dropped |-> gone + (Len(head) - Len(hp)) + (tailLen - Len(tp))]
    BY DEF String
  <1> HIDE DEF lin, hp, tp
  <1>10. CASE all
    <2>1. String.dropped = 0 /\ String.head = head /\ String.tail = lin
      BY <1>8, <1>10
    <2>2. Len(head) + tailLen = Len(written)
      BY <1>1, <1>2, <1>3, <1>10
    <2>3. head \o lin = written
      <3>1. /\ head \o lin \in Seq(Bytes) /\ Len(head \o lin) = Len(written)
            /\ \A i \in 1 .. Len(head) : (head \o lin)[i] = head[i]
            /\ \A i \in 1 .. Len(lin) : (head \o lin)[Len(head) + i] = lin[i]
        BY <1>1, <1>2, <2>2, Concat
      <3>2. ASSUME NEW i \in 1 .. Len(written) PROVE (head \o lin)[i] = written[i]
        <4>1. CASE i <= Len(head)
          BY <1>2, <1>3, <3>1, <4>1
        <4>2. CASE i > Len(head)
          <5>1. i - Len(head) \in 1 .. tailLen /\ Len(head) + (i - Len(head)) = i
                /\ Len(written) - tailLen + (i - Len(head)) = i
            BY <1>2, <2>2, <4>2
          <5>2. (head \o lin)[Len(head) + (i - Len(head))] = lin[i - Len(head)]
            BY <1>1, <3>1, <5>1
          <5>3. lin[i - Len(head)] = written[Len(written) - tailLen + (i - Len(head))]
            BY <1>1, <5>1
          <5> QED BY <5>1, <5>2, <5>3
        <4>3. i <= Len(head) \/ i > Len(head)
          BY <1>2
        <4> QED BY <4>1, <4>2, <4>3
      <3> QED BY <1>2, <3>1, <3>2, SeqEqual
    <2> QED BY <1>2, <2>1, <2>3
  <1>11. CASE ~all
    <2>1. /\ String.head = hp /\ String.tail = tp
          /\ String.dropped = gone + (Len(head) - m) + n
      BY <1>1, <1>2, <1>6, <1>7, <1>9, <1>11
    <2>2. Len(head) = HeadCap /\ tailLen = TailCap /\ gone > 0
      BY <1>2, <1>3, <1>11
    <2>3. String.dropped > 0 /\ total > HeadCap + TailCap
      BY <1>1, <1>2, <2>1, <2>2
    <2>4. IsPrefix(hp, written)
      <3>1. Len(hp) <= Len(written) /\ \A i \in 1 .. Len(hp) : hp[i] = written[i]
        <4>1. m <= Len(head) /\ Len(head) <= Len(written) /\ m \in Nat
          BY <1>1, <1>2
        <4>2. \A i \in 1 .. m : i \in 1 .. Len(head)
          BY <1>2, <4>1
        <4> QED BY <1>2, <1>3, <1>6, <4>1, <4>2
      <3> QED BY <1>2, <1>6, <3>1, PrefixByElement
    <2>5. IsSuffix(tp, written)
      <3>1. ASSUME NEW i \in 1 .. Len(tp) PROVE tp[i] = written[Len(written) - Len(tp) + i]
        <4>1. i \in 1 .. tailLen - n /\ n + i \in 1 .. tailLen
              /\ Len(written) - tailLen + (n + i) = Len(written) - Len(tp) + i
          BY <1>1, <1>2, <1>7
        <4> QED BY <1>1, <1>7, <4>1
      <3>2. Len(tp) <= Len(written)
        BY <1>1, <1>2, <1>7
      <3> QED BY <1>2, <1>7, <3>1, <3>2, SuffixByElement
    <2>6. Len(hp) + String.dropped + Len(tp) = total
      BY <1>1, <1>2, <1>6, <1>7, <2>1
    <2>7. CutAtLines(Len(hp), total - Len(tp))
      <3> DEFINE t == total - Len(tp)
                 o == total - TailCap
      <3>1. Len(hp) = m /\ t = o + n /\ m \in 0 .. HeadCap /\ n \in 0 .. TailCap /\ o \in Nat
        BY <1>1, <1>2, <1>6, <1>7, <2>2
      <3>2. \A i \in 1 .. HeadCap : head[i] = written[i]
        BY <1>3, <2>2
      <3>3. \A i \in 1 .. TailCap : lin[i] = written[o + i]
        BY <1>1, <1>2, <2>2
      <3>4. IF \E i \in 1 .. HeadCap : written[i] = Newline THEN m > 0 /\ written[m] = Newline ELSE m = HeadCap
        BY <1>4, <2>2, <3>1, <3>2
      <3>5. \A i \in m + 1 .. HeadCap : written[i] # Newline
        BY <1>4, <2>2, <3>1, <3>2
      <3>6. \A j \in o + 1 .. total : j - o \in 1 .. TailCap /\ o + (j - o) = j
        BY <1>2, <3>1
      <3>7. \A j \in o + 1 .. total : lin[j - o] = written[j]
        BY <3>3, <3>6
      <3>8. o + TailCap = total /\ Len(lin) = TailCap
        BY <1>1, <1>2, <2>2
      <3> HIDE DEF t, o
      <3>9. IF \E j \in o + 1 .. total : written[j] = Newline THEN written[t] = Newline ELSE t = o
        <4>1. ASSUME NEW j \in o + 1 .. total, written[j] = Newline PROVE written[t] = Newline
          <5>1. n > 0 /\ lin[n] = Newline
            BY <1>5, <3>6, <3>7, <3>8, <4>1
          <5> QED BY <3>1, <3>3, <5>1
        <4>2. ASSUME \A j \in o + 1 .. total : written[j] # Newline PROVE t = o
          <5>1. \A i \in 1 .. TailCap : o + i \in o + 1 .. total
            BY <1>2, <3>1, <3>8
          <5>2. n = 0
            BY <1>5, <3>3, <3>8, <4>2, <5>1
          <5> QED BY <3>1, <5>2
        <4> QED BY <4>1, <4>2
      <3>10. ASSUME NEW j \in o + 1 .. t - 1 PROVE written[j] # Newline
        <4>1. j - o \in 1 .. n - 1 /\ j \in o + 1 .. total
          BY <1>2, <3>1, <3>8
        <4> QED BY <1>5, <3>7, <4>1
      <3> QED BY <3>1, <3>4, <3>5, <3>9, <3>10 DEF CutAtLines, t, o
    <2> QED BY <1>2, <2>1, <2>3, <2>4, <2>5, <2>6, <2>7
  <1> QED BY <1>10, <1>11

-----------------------------------------------------------------------------
(* The buffer: the theorems                                                *)

\* The buffer satisfies BufferInv whatever is written to it.
THEOREM BufferInvariance == ExecSpec => []BufferInv
  BY BufferInit, BufferNext, PTL DEF ExecSpec

\* headTailBuf.String is true to the output: everything if it fits, otherwise the beginning
\* and the end at line boundaries and the exact number of bytes between them.
THEOREM OutputFaithful == ExecSpec => []OutputIsFaithful
  BY BufferInvariance, StringIsFaithful, PTL

-----------------------------------------------------------------------------
(* The calls: their invariant                                              *)

\* A call that has begun and has not returned.
Active(c) == step[c] \notin {"idle", "done"}

FileTypes ==
  /\ file \in Seq(FileLines)
  /\ step \in [Calls -> {"idle", "read", "edit", "truncate", "write", "done"}]
  /\ request \in [Calls -> Requests \cup {NoRequest}]
  /\ \A c \in Calls : step[c] # "idle" => request[c] \in Requests
  /\ content \in [Calls -> Seq(FileLines)]
  /\ edit \in [Calls -> Nat]
  /\ answer = [c \in Calls |-> answer[c]]
  /\ before \in [Calls -> Seq(FileLines)]
  /\ latest \in Calls \cup {Nobody} /\ (latest # Nobody => step[latest] = "done")
  /\ disturbed \in BOOLEAN

\* The edits of a call are worth looking at the file for.
Accepted(q) == q.tool = "multi" => q.edits # <<>> /\ \A i \in DOMAIN q.edits : ~Identical(q.edits[i])

\* The edit finds its string in what the edits before it have made of lines.
Found(lines, edits, k) ==
  LET there == Occurrences(AfterEdits(lines, edits, k - 1), edits[k].old)
  IN  there # {} /\ (edits[k].all \/ Cardinality(there) = 1)

\* Where a call is fits what it was asked for.
Asked(c) ==
  LET q == request[c]
  IN  /\ step[c] \in {"idle", "read"} => edit[c] = 1
      /\ step[c] = "read" => q.tool # "write" /\ Accepted(q)
      /\ step[c] = "edit" =>
           q.tool \in {"update", "multi"} /\ Accepted(q) /\ edit[c] \in 1 .. Len(q.edits)

AskedInv == \A c \in Calls : Asked(c)

\* A call that has the file for itself, at each of its steps.
Working(c) ==
  LET q == request[c]
  IN  /\ step[c] \in {"read", "edit", "truncate"} => file = before[c]
      /\ step[c] = "edit" =>
           /\ content[c] = AfterEdits(before[c], q.edits, edit[c] - 1)
           /\ \A k \in 1 .. edit[c] - 1 : Found(before[c], q.edits, k)
      /\ step[c] \in {"truncate", "write"} =>
           \/ q.tool = "write" /\ content[c] = q.content
           \/ /\ q.tool \in {"update", "multi"} /\ Accepted(q)
              /\ content[c] = AfterEdits(before[c], q.edits, Len(q.edits))
              /\ Applies(before[c], q.edits)
      /\ step[c] = "write" => file = <<>>

SerialInv ==
  ~disturbed =>
    /\ \A c, d \in Calls : Active(c) /\ Active(d) => c = d
    /\ \A c \in Calls : Working(c)

FileInv == FileTypes /\ AskedInv /\ SerialInv /\ CallsAreAtomic

-----------------------------------------------------------------------------
(* The calls: their operators                                              *)

\* A request has the fields its tool needs.
LEMMA RequestFields ==
  ASSUME NEW q \in Requests
  PROVE  /\ q.tool \in {"read", "write", "update", "multi"}
         /\ q.tool = "read" => q.offset \in Int /\ q.limit \in Int
         /\ q.tool = "write" => q.content \in Seq(FileLines)
         /\ q.tool \in {"update", "multi"} => q.edits \in Seq(Replacements)
         /\ q.tool = "update" => Len(q.edits) = 1
  BY FileToolsAssumption

\* What read_file returns are the lines of the file from the offset on, as many as the
\* limits allow, with their numbers.
LEMMA NumberedIsExact ==
  ASSUME NEW l \in Seq(FileLines), NEW offset \in Int, NEW limit \in Int
  PROVE  LET a == Numbered(l, offset, limit)
             first == IF offset > 0 THEN offset ELSE 1
         IN  {a[i] : i \in DOMAIN a} =
               {<<n, l[n]>> : n \in {m \in DOMAIN l :
                  first <= m /\ m < first + ReadLimit /\ (limit > 0 => m < first + limit)}}
  <1> DEFINE a == Numbered(l, offset, limit)
             first == IF offset > 0 THEN offset ELSE 1
             start == StartOf(offset, Len(l))
             most == IF limit > 0 /\ limit < ReadLimit THEN limit ELSE ReadLimit
             count == IF Len(l) - start > most THEN most ELSE Len(l) - start
             Wanted == {m \in DOMAIN l : first <= m /\ m < first + ReadLimit /\ (limit > 0 => m < first + limit)}
  <1>1. a = [i \in 1 .. count |-> <<start + i, l[start + i]>>]
    BY DEF Numbered
  <1>2. /\ Len(l) \in Nat /\ DOMAIN l = 1 .. Len(l) /\ start \in 0 .. Len(l) /\ most \in Nat /\ first \in Nat \ {0}
        /\ start = IF first - 1 > Len(l) THEN Len(l) ELSE first - 1
        /\ count \in 0 .. Len(l) - start
    BY FileToolsAssumption DEF StartOf
  <1>3. \A i \in 1 .. count : start + i \in Wanted
    BY <1>2, FileToolsAssumption
  <1>4. \A m \in Wanted : m - start \in 1 .. count /\ start + (m - start) = m
    BY <1>2, FileToolsAssumption
  <1> HIDE DEF start, count, Wanted, a
  <1>5. ASSUME NEW i \in DOMAIN a PROVE a[i] \in {<<n, l[n]>> : n \in Wanted}
    BY <1>1, <1>3
  <1>6. ASSUME NEW m \in Wanted PROVE <<m, l[m]>> \in {a[i] : i \in DOMAIN a}
    <2>1. a[m - start] = <<m, l[m]>> /\ m - start \in DOMAIN a
      BY <1>1, <1>4
    <2> QED BY <2>1
  <1>7. {a[i] : i \in DOMAIN a} = {<<n, l[n]>> : n \in Wanted}
    BY <1>5, <1>6
  <1> QED BY <1>7 DEF a, Wanted

\* One step of AfterEdits: its local function on 0 .. k.
Edited(lines, edits, f, i) ==
  IF i = 0 THEN lines ELSE [j \in DOMAIN lines |->
    IF f[i - 1][j] = edits[i].old THEN edits[i].new ELSE f[i - 1][j]]
Follows(lines, edits, f, k) == f = [i \in 0 .. k |-> Edited(lines, edits, f, i)]

\* There is such a function for every k, ...
LEMMA EditedExists == ASSUME NEW lines, NEW edits
                      PROVE  \A k \in Nat : \E f : Follows(lines, edits, f, k)
  <1> DEFINE Without == {k \in Nat : ~\E f : Follows(lines, edits, f, k)}
  <1> SUFFICES ASSUME Without # {} PROVE FALSE
    OBVIOUS
  <1>1. PICK k \in Without : \A m \in Without : k <= m
    BY LeastNumber
  <1>2. k \in Nat
    OBVIOUS
  <1>3. k # 0
    <2>1. Follows(lines, edits, [i \in 0 .. 0 |-> lines], 0)
      BY DEF Follows, Edited
    <2> QED BY <2>1
  <1>4. PICK f : Follows(lines, edits, f, k - 1)
    BY <1>1, <1>2, <1>3
  <1> DEFINE g == [i \in 0 .. k |-> Edited(lines, edits, f, i)]
  <1>5. \A i \in 0 .. k - 1 : g[i] = f[i]
    <2> SUFFICES ASSUME NEW i \in 0 .. k - 1 PROVE g[i] = f[i]
      OBVIOUS
    <2>1. i \in 0 .. k
      BY <1>2
    <2>2. f[i] = Edited(lines, edits, f, i)
      BY <1>4 DEF Follows
    <2> QED BY <2>1, <2>2
  <1>6. \A i \in 0 .. k : Edited(lines, edits, g, i) = Edited(lines, edits, f, i)
    <2> SUFFICES ASSUME NEW i \in 0 .. k PROVE Edited(lines, edits, g, i) = Edited(lines, edits, f, i)
      OBVIOUS
    <2> HIDE DEF g
    <2>0. i # 0 => i - 1 \in 0 .. k - 1
      BY <1>2
    <2>1. i # 0 => g[i - 1] = f[i - 1]
      BY <1>5, <2>0
    <2> QED BY <2>1 DEF Edited
  <1>7. Follows(lines, edits, g, k)
    BY <1>6 DEF Follows
  <1> QED BY <1>7

\* ... and two of them agree.
LEMMA EditedAgree ==
  ASSUME NEW lines, NEW edits, NEW f, NEW g, NEW k \in Nat, NEW m \in Nat,
         Follows(lines, edits, f, k), Follows(lines, edits, g, m)
  PROVE  \A i \in 0 .. k : i <= m => f[i] = g[i]
  <1> DEFINE Differ == {i \in 0 .. k : i <= m /\ f[i] # g[i]}
  <1> SUFFICES ASSUME Differ # {} PROVE FALSE
    OBVIOUS
  <1>0. Differ \in SUBSET Nat
    OBVIOUS
  <1>1. PICK i \in Differ : \A j \in Differ : i <= j
    <2> HIDE DEF Differ
    <2> QED BY <1>0, LeastNumber
  <1>2. i \in 0 .. k /\ i \in 0 .. m /\ f[i] # g[i]
    OBVIOUS
  <1>3. f[i] = Edited(lines, edits, f, i) /\ g[i] = Edited(lines, edits, g, i)
    BY <1>2 DEF Follows
  <1>4. i # 0 => f[i - 1] = g[i - 1]
    BY <1>1, <1>2
  <1>5. Edited(lines, edits, f, i) = Edited(lines, edits, g, i)
    BY <1>4 DEF Edited
  <1> QED BY <1>2, <1>3, <1>5

\* The contents after a prefix of the list are those after a shorter one, edited.
LEMMA AfterEditsStep ==
  ASSUME NEW lines, NEW edits
  PROVE  /\ AfterEdits(lines, edits, 0) = lines
         /\ \A k \in Nat : DOMAIN AfterEdits(lines, edits, k) = DOMAIN lines
         /\ \A k \in Nat \ {0} : AfterEdits(lines, edits, k) = ReplaceEvery(AfterEdits(lines, edits, k - 1), edits[k])
  <1> DEFINE The(k) == CHOOSE f : Follows(lines, edits, f, k)
  <1>1. ASSUME NEW k \in Nat PROVE Follows(lines, edits, The(k), k)
    BY EditedExists
  <1>2. ASSUME NEW k \in Nat PROVE AfterEdits(lines, edits, k) = The(k)[k]
    BY DEF AfterEdits, Follows, Edited
  <1> HIDE DEF The
  <1>3. ASSUME NEW k \in Nat PROVE AfterEdits(lines, edits, k) = Edited(lines, edits, The(k), k)
    BY <1>1, <1>2 DEF Follows
  <1>4. AfterEdits(lines, edits, 0) = lines
    BY <1>3 DEF Edited
  <1>5. ASSUME NEW k \in Nat PROVE DOMAIN AfterEdits(lines, edits, k) = DOMAIN lines
    BY <1>3 DEF Edited
  <1>6. ASSUME NEW k \in Nat \ {0}
        PROVE  AfterEdits(lines, edits, k) = ReplaceEvery(AfterEdits(lines, edits, k - 1), edits[k])
    <2>1. k - 1 \in Nat /\ k - 1 \in 0 .. k
      OBVIOUS
    <2>2. The(k)[k - 1] = The(k - 1)[k - 1]
      BY <1>1, <2>1, EditedAgree
    <2>3. The(k)[k - 1] = AfterEdits(lines, edits, k - 1)
      BY <1>2, <2>1, <2>2
    <2>4. DOMAIN AfterEdits(lines, edits, k - 1) = DOMAIN lines
      BY <1>5, <2>1
    <2> QED BY <1>3, <2>3, <2>4 DEF Edited, ReplaceEvery
  <1> QED BY <1>4, <1>5, <1>6

\* How often a string is found in a file.
LEMMA OccurrencesCount ==
  ASSUME NEW l \in Seq(FileLines), NEW x
  PROVE  /\ Cardinality(Occurrences(l, x)) \in Nat
         /\ Cardinality(Occurrences(l, x)) = 0 <=> Occurrences(l, x) = {}
         /\ Cardinality(Occurrences(l, x)) = 1 => \E i \in 1 .. Len(l) : Occurrences(l, x) = {i}
  <1> DEFINE S == Occurrences(l, x)
  <1>1. IsFiniteSet(1 .. Len(l)) /\ S \in SUBSET (1 .. Len(l))
    BY FS_Interval DEF Occurrences
  <1> HIDE DEF S
  <1>2. IsFiniteSet(S)
    BY <1>1, FS_Subset
  <1>3. Cardinality(S) \in Nat
    BY <1>2, FS_CardinalityType
  <1>4. Cardinality(S) = 0 <=> S = {}
    BY <1>2, FS_EmptySet
  <1>5. Cardinality(S) = 1 => \E i : S = {i}
    BY <1>2, FS_Singleton
  <1> QED BY <1>1, <1>3, <1>4, <1>5 DEF S

\* Replacing the only one is replacing every one.
LEMMA ReplaceOnly ==
  ASSUME NEW l \in Seq(FileLines), NEW e \in Replacements, Cardinality(Occurrences(l, e.old)) = 1
  PROVE  ReplaceFirst(l, e) = ReplaceEvery(l, e)
  <1>1. PICK i \in 1 .. Len(l) : Occurrences(l, e.old) = {i}
    BY OccurrencesCount
  <1>2. (CHOOSE j \in Occurrences(l, e.old) : \A k \in Occurrences(l, e.old) : j <= k) = i
    BY <1>1
  <1>3. ReplaceFirst(l, e) = [l EXCEPT ![i] = e.new]
    BY <1>2 DEF ReplaceFirst
  <1>4. \A j \in DOMAIN l : (l[j] = e.old) <=> (j = i)
    BY <1>1 DEF Occurrences
  <1>5. ReplaceEvery(l, e) = [j \in DOMAIN l |-> IF j = i THEN e.new ELSE l[j]]
    BY <1>4 DEF ReplaceEvery
  <1> QED BY <1>3, <1>5

\* An edited file is a file.
LEMMA ReplaceTypes == ASSUME NEW l \in Seq(FileLines), NEW e \in Replacements
                      PROVE  ReplaceEvery(l, e) \in Seq(FileLines) /\ ReplaceFirst(l, e) \in Seq(FileLines)
  <1>1. e.new \in FileLines
    BY DEF Replacements
  <1>2. \A i \in 1 .. Len(l) : l[i] \in FileLines
    BY ElementOfSeq
  <1>3. l = [i \in 1 .. Len(l) |-> l[i]] /\ Len(l) \in Nat
    OBVIOUS
  <1>4. ReplaceEvery(l, e) \in [1 .. Len(l) -> FileLines] /\ ReplaceFirst(l, e) \in [1 .. Len(l) -> FileLines]
    BY <1>1, <1>2, <1>3 DEF ReplaceEvery, ReplaceFirst
  <1> QED BY <1>3, <1>4, SeqDef

-----------------------------------------------------------------------------
(* The calls: their steps                                                  *)

HIDE BoundedExecAssumption
USE FileToolsAssumption

\* No call has begun.
LEMMA FilesInitInd == FilesInit => FileInv
  <1> SUFFICES ASSUME FilesInit PROVE FileInv
    OBVIOUS
  <1>0. <<>> \in Seq(FileLines) /\ file \in Seq(FileLines)
    BY DEF FilesInit
  <1>1. FileTypes
    <2>1. answer = [c \in Calls |-> answer[c]]
      BY DEF FilesInit
    <2>2. latest \in Calls \cup {Nobody} /\ (latest # Nobody => step[latest] = "done") /\ disturbed \in BOOLEAN
      BY DEF FilesInit
    <2>3. content \in [Calls -> Seq(FileLines)] /\ before \in [Calls -> Seq(FileLines)]
      BY <1>0 DEF FilesInit
    <2>4. /\ step \in [Calls -> {"idle", "read", "edit", "truncate", "write", "done"}]
          /\ request \in [Calls -> Requests \cup {NoRequest}] /\ edit \in [Calls -> Nat]
          /\ \A c \in Calls : step[c] # "idle" => request[c] \in Requests
      BY DEF FilesInit
    <2> QED BY <1>0, <2>1, <2>2, <2>3, <2>4 DEF FileTypes
  <1>2. SerialInv
    BY DEF FilesInit, SerialInv, Working, Active
  <1>3. AskedInv
    BY DEF FilesInit, AskedInv, Asked
  <1> QED BY <1>1, <1>2, <1>3 DEF FileInv, CallsAreAtomic, FilesInit

\* What the last call answered stays, and while another call is under way nothing is said
\* of the file.
LEMMA StillAtomic ==
  ASSUME FileTypes, CallsAreAtomic, NEW c \in Calls, step[c] # "done", Active(c)',
         answer' = answer, latest' = latest, disturbed' = FALSE => disturbed = FALSE,
         \A d \in Calls \ {c} : request'[d] = request[d] /\ before'[d] = before[d]
  PROVE  CallsAreAtomic'
  <1> SUFFICES ASSUME ~disturbed', latest # Nobody
               PROVE  /\ Answered(request[latest], before[latest], answer[latest])'
                      /\ ~Alone'
    BY DEF CallsAreAtomic
  <1>1. latest \in Calls \ {c} /\ ~disturbed
    BY DEF FileTypes
  <1>2. Answered(request[latest], before[latest], answer[latest])
    BY <1>1 DEF CallsAreAtomic
  <1>3. request'[latest'] = request[latest] /\ before'[latest'] = before[latest] /\ answer'[latest'] = answer[latest]
    BY <1>1
  <1>4. Answered(request'[latest'], before'[latest'], answer'[latest'])
    BY <1>2, <1>3
  <1>5. ~Alone'
    BY DEF Alone, Active
  <1> QED BY <1>4, <1>5 DEF Answered

\* A call that returns has to answer for itself.
LEMMA NowAtomic ==
  ASSUME FileTypes, NEW c \in Calls, NEW a, Finish(c, a),
         Answered(request'[c], before'[c], a), file' = Left(request'[c], before'[c], a)
  PROVE  CallsAreAtomic'
  <1>1. answer'[c] = a /\ latest' = c
    BY DEF FileTypes, Finish
  <1> QED BY <1>1 DEF CallsAreAtomic, Answered, Left

\* A call that fails disturbs: nothing is said.
LEMMA ErrorSaysNothing == ASSUME NEW c, IOError(c) PROVE SerialInv' /\ CallsAreAtomic'
  BY DEF IOError, SerialInv, CallsAreAtomic

\* The other calls are where they were.
LEMMA AskedStep ==
  ASSUME AskedInv, NEW c \in Calls, Asked(c)',
         \A d \in Calls \ {c} : step'[d] = step[d] /\ edit'[d] = edit[d] /\ request'[d] = request[d]
  PROVE  AskedInv'
  BY DEF AskedInv, Asked

\* A call that is under way and alone stays so: the others have not begun or have returned.
LEMMA SerialStep ==
  ASSUME FileTypes, SerialInv, NEW c \in Calls, Active(c), disturbed' = disturbed,
         \A d \in Calls \ {c} : step'[d] = step[d],
         ~disturbed => Working(c)'
  PROVE  SerialInv'
  <1> SUFFICES ASSUME ~disturbed PROVE SerialInv'
    BY DEF SerialInv
  <1>1. \A d \in Calls \ {c} : step[d] \in {"idle", "done"} /\ Working(d)
    BY DEF SerialInv, Active, FileTypes
  <1>2. \A d \in Calls \ {c} : step'[d] \in {"idle", "done"} /\ Working(d)'
    BY <1>1 DEF Working
  <1> QED BY <1>2 DEF SerialInv, Active

\* Call
LEMMA CallStep == ASSUME FileInv, NEW c \in Calls, NEW q \in Requests, Call(c, q) PROVE FileInv'
  <1>0. FileTypes /\ AskedInv /\ SerialInv /\ CallsAreAtomic
    BY DEF FileInv
  <1>1. step[c] = "idle" /\ UNCHANGED <<file, edit>>
    BY DEF Call
  <1>2. /\ request' = [request EXCEPT ![c] = q] /\ before' = [before EXCEPT ![c] = file]
        /\ disturbed' = (disturbed \/ \E d \in Calls : step[d] \notin {"idle", "done"})
    BY DEF Call
  <1>3. /\ request'[c] = q /\ before'[c] = file
        /\ \A d \in Calls \ {c} : request'[d] = request[d] /\ before'[d] = before[d]
        /\ disturbed' \in BOOLEAN /\ (disturbed' = FALSE => disturbed = FALSE)
        /\ request' \in [Calls -> Requests \cup {NoRequest}] /\ before' \in [Calls -> Seq(FileLines)]
    BY <1>0, <1>2 DEF FileTypes
  <1>4. q.tool \in {"read", "write", "update", "multi"}
    BY RequestFields
  <1>5. ASSUME ~disturbed'
        PROVE  ~disturbed /\ \A d \in Calls : step[d] \in {"idle", "done"} /\ Working(d)
    BY <1>0, <1>2, <1>5 DEF FileTypes, SerialInv
  <1>6. latest # c
    BY <1>0, <1>1 DEF FileTypes
  <1>7. edit'[c] = 1
    BY <1>0, <1>1 DEF AskedInv, Asked
  <1>a. CASE /\ q.tool = "multi" /\ (q.edits = <<>> \/ \E i \in DOMAIN q.edits : Identical(q.edits[i]))
             /\ Finish(c, Failure) /\ UNCHANGED content
    <2>1. step' = [step EXCEPT ![c] = "done"] /\ answer' = [answer EXCEPT ![c] = Failure] /\ latest' = c
      BY <1>a DEF Finish, Goto
    <2>2. FileTypes'
      BY <1>0, <1>1, <1>3, <1>a, <2>1 DEF FileTypes
    <2>3. SerialInv'
      <3> SUFFICES ASSUME ~disturbed' PROVE SerialInv'
        BY DEF SerialInv
      <3>1. \A d \in Calls : step'[d] \in {"idle", "done"}
        BY <1>0, <1>5, <2>1 DEF FileTypes
      <3>2. \A d \in Calls : Working(d)'
        BY <3>1 DEF Working
      <3> QED BY <3>1, <3>2 DEF SerialInv, Active
    <2>4. CallsAreAtomic'
      <3>1. q.tool = "multi" /\ Failure.ok = FALSE
        BY <1>a DEF Failure
      <3>2. Answered(q, file, Failure)
        BY <1>a, <3>1 DEF Answered, Applies
      <3>3. Left(q, file, Failure) = file
        BY <3>1 DEF Left
      <3> QED BY <1>0, <1>1, <1>3, <1>a, <3>2, <3>3, NowAtomic
    <2>5. step'[c] = "done" /\ \A d \in Calls \ {c} : step'[d] = step[d]
      BY <1>0, <2>1 DEF FileTypes
    <2>6. AskedInv'
      BY <1>0, <1>1, <1>3, <2>5, AskedStep DEF Asked
    <2> QED BY <2>2, <2>3, <2>4, <2>6 DEF FileInv
  <1>b. ASSUME NEW l \in {"read", "truncate"}, Goto(c, l), UNCHANGED <<answer, latest>>,
               content' \in [Calls -> Seq(FileLines)],
               l = "read" => q.tool # "write" /\ Accepted(q),
               l = "truncate" => q.tool = "write" /\ content'[c] = q.content
        PROVE  FileInv'
    <2>1. /\ step' = [step EXCEPT ![c] = l]
          /\ step'[c] = l /\ \A d \in Calls \ {c} : step'[d] = step[d]
      BY <1>0, <1>b DEF Goto, FileTypes
    <2>2. FileTypes'
      BY <1>0, <1>1, <1>3, <1>6, <1>b, <2>1 DEF FileTypes
    <2>3. SerialInv'
      <3> SUFFICES ASSUME ~disturbed' PROVE SerialInv'
        BY DEF SerialInv
      <3>1. \A d \in Calls \ {c} : step'[d] \in {"idle", "done"} /\ Working(d)'
        BY <1>1, <1>5, <2>1 DEF Working
      <3>3. Working(c)'
        BY <1>1, <1>3, <1>b, <2>1 DEF Working
      <3> QED BY <3>1, <3>3 DEF SerialInv, Active
    <2>4. CallsAreAtomic'
      <3>1. Active(c)'
        BY <1>b, <2>1 DEF Active
      <3> QED BY <1>0, <1>1, <1>3, <1>b, <3>1, StillAtomic
    <2>5. AskedInv'
      BY <1>0, <1>1, <1>3, <1>7, <1>b, <2>1, AskedStep DEF Asked
    <2> QED BY <2>2, <2>3, <2>4, <2>5 DEF FileInv
  <1>c. CASE /\ q.tool = "multi" /\ q.edits # <<>> /\ \A i \in DOMAIN q.edits : ~Identical(q.edits[i])
             /\ Goto(c, "read") /\ UNCHANGED <<content, answer, latest>>
    BY <1>0, <1>b, <1>c DEF FileTypes, Accepted
  <1>d. CASE q.tool \in {"read", "update"} /\ Goto(c, "read") /\ UNCHANGED <<content, answer, latest>>
    BY <1>0, <1>b, <1>d DEF FileTypes, Accepted
  <1>e. CASE /\ q.tool = "write" /\ content' = [content EXCEPT ![c] = q.content]
             /\ Goto(c, "truncate") /\ UNCHANGED <<answer, latest>>
    <2>1. content' \in [Calls -> Seq(FileLines)] /\ content'[c] = q.content
      BY <1>0, <1>e, RequestFields DEF FileTypes
    <2> QED BY <1>b, <1>e, <2>1
  <1> QED BY <1>4, <1>a, <1>c, <1>d, <1>e DEF Call

\* ReadFile
LEMMA ReadFileStep == ASSUME FileInv, NEW c \in Calls, ReadFile(c) PROVE FileInv'
  <1> DEFINE q == request[c]
  <1>0. FileTypes /\ AskedInv /\ SerialInv /\ CallsAreAtomic
    BY DEF FileInv
  <1>1. step[c] = "read" /\ UNCHANGED <<file, request, edit, before>> /\ Active(c)
    BY DEF ReadFile, Active
  <1>2. q \in Requests /\ file \in Seq(FileLines)
    BY <1>0, <1>1 DEF FileTypes
  <1>3. ~disturbed => Working(c)
    BY <1>0 DEF SerialInv
  <1>4. ~disturbed => file = before[c]
    BY <1>1, <1>3 DEF Working
  <1>5. q.tool # "write" /\ Accepted(q) /\ edit[c] = 1
    BY <1>0, <1>1 DEF AskedInv, Asked
  <1>6. \A d \in Calls \ {c} : edit'[d] = edit[d] /\ request'[d] = request[d]
    BY <1>1
  <1> HIDE DEF q
  <1>a. CASE /\ q.tool = "read"
             /\ Finish(c, [ok |-> TRUE, lines |-> Numbered(file, q.offset, q.limit)])
             /\ UNCHANGED <<content, disturbed>>
    <2> DEFINE a == [ok |-> TRUE, lines |-> Numbered(file, q.offset, q.limit)]
    <2>1. step' = [step EXCEPT ![c] = "done"] /\ answer' = [answer EXCEPT ![c] = a] /\ latest' = c
      BY <1>a DEF Finish, Goto
    <2>2. a.lines = Numbered(file, q.offset, q.limit)
      OBVIOUS
    <2>3. Finish(c, a)
      BY <1>a
    <2> HIDE DEF a
    <2>4. FileTypes'
      BY <1>0, <1>1, <1>2, <1>a, <2>1 DEF FileTypes, q
    <2>5. SerialInv'
      <3>1. step'[c] = "done" /\ \A d \in Calls \ {c} : step'[d] = step[d]
        BY <1>0, <2>1 DEF FileTypes
      <3>2. Working(c)'
        BY <3>1 DEF Working
      <3> QED BY <1>0, <1>1, <1>a, <3>1, <3>2, SerialStep
    <2>6. CallsAreAtomic'
      <3> SUFFICES ASSUME ~disturbed PROVE CallsAreAtomic'
        BY <1>a DEF CallsAreAtomic
      <3>1. Answered(q, before[c], a)
        <4>1. q.offset \in Int /\ q.limit \in Int
          BY <1>2, <1>a, RequestFields
        <4> QED BY <1>2, <1>4, <1>a, <2>2, <4>1, NumberedIsExact DEF Answered
      <3>2. Left(q, before[c], a) = before[c]
        BY <1>a DEF Left
      <3>3. request'[c] = q /\ before'[c] = before[c] /\ file' = before[c]
        BY <1>1, <1>4 DEF q
      <3> QED BY <1>0, <2>3, <3>1, <3>2, <3>3, NowAtomic
    <2>7. step'[c] = "done" /\ \A d \in Calls \ {c} : step'[d] = step[d]
      BY <1>0, <2>1 DEF FileTypes
    <2>8. AskedInv'
      BY <1>0, <1>6, <2>7, AskedStep DEF Asked
    <2> QED BY <2>4, <2>5, <2>6, <2>8 DEF FileInv
  <1>b. CASE /\ q.tool # "read" /\ content' = [content EXCEPT ![c] = file]
             /\ Goto(c, "edit") /\ UNCHANGED <<answer, latest, disturbed>>
    <2>1. /\ step' = [step EXCEPT ![c] = "edit"] /\ step'[c] = "edit"
          /\ \A d \in Calls \ {c} : step'[d] = step[d]
          /\ content'[c] = file
      BY <1>0, <1>b DEF Goto, FileTypes
    <2>2. FileTypes'
      BY <1>0, <1>1, <1>b, <2>1 DEF FileTypes
    <2>3. q.tool \in {"update", "multi"}
      BY <1>2, <1>5, <1>b, RequestFields
    <2>4. 1 \in 1 .. Len(q.edits)
      <3>1. q.edits \in Seq(Replacements) /\ (q.tool = "update" => Len(q.edits) = 1)
        BY <1>2, <2>3, RequestFields
      <3>2. CASE q.tool = "update"
        BY <3>1, <3>2
      <3>3. CASE q.tool = "multi"
        BY <1>5, <3>1, <3>3 DEF Accepted
      <3> QED BY <2>3, <3>1, <3>2, <3>3
    <2>5. request'[c] = q /\ edit'[c] = 1
      BY <1>1, <1>5 DEF q
    <2>6. AskedInv'
      BY <1>0, <1>5, <1>6, <2>1, <2>3, <2>4, <2>5, AskedStep DEF Asked
    <2>7. SerialInv'
      <3> SUFFICES ASSUME ~disturbed PROVE Working(c)'
        BY <1>0, <1>1, <1>b, <2>1, SerialStep
      <3>1. content'[c] = AfterEdits(before[c], q.edits, 0)
        BY <1>4, <2>1, AfterEditsStep
      <3>2. edit'[c] - 1 = 0 /\ \A k \in 1 .. 0 : Found(before[c], q.edits, k)
        BY <2>5
      <3>3. before'[c] = before[c] /\ file' = before[c]
        BY <1>1, <1>4
      <3> QED BY <2>1, <2>5, <3>1, <3>2, <3>3 DEF Working
    <2>8. CallsAreAtomic'
      <3>1. Active(c)'
        BY <2>1 DEF Active
      <3> QED BY <1>0, <1>1, <1>b, <3>1, StillAtomic
    <2> QED BY <2>2, <2>6, <2>7, <2>8 DEF FileInv
  <1>c. CASE IOError(c) /\ UNCHANGED content
    <2>1. FileTypes'
      BY <1>0, <1>1, <1>2, <1>c DEF FileTypes, IOError, Finish, Goto, q
    <2>2. step'[c] = "done" /\ \A d \in Calls \ {c} : step'[d] = step[d]
      BY <1>0, <1>c DEF FileTypes, IOError, Finish, Goto
    <2>3. AskedInv'
      BY <1>0, <1>6, <2>2, AskedStep DEF Asked
    <2> QED BY <1>c, <2>1, <2>3, ErrorSaysNothing DEF FileInv
  <1> QED BY <1>a, <1>b, <1>c DEF ReadFile, q

\* A call whose edits all find their string is applied; one whose edit does not is not.
LEMMA FoundApplies ==
  ASSUME NEW l, NEW edits \in Seq(Replacements), edits # <<>>
  PROVE  /\ (\A k \in 1 .. Len(edits) : Found(l, edits, k)) => Applies(l, edits)
         /\ (\E k \in 1 .. Len(edits) : ~Found(l, edits, k)) => ~Applies(l, edits)
  <1>1. DOMAIN edits = 1 .. Len(edits)
    OBVIOUS
  <1> QED BY <1>1 DEF Applies, Found

\* Edit
LEMMA EditStep == ASSUME FileInv, NEW c \in Calls, Edit(c) PROVE FileInv'
  <1> DEFINE q == request[c]
             k == edit[c]
             e == q.edits[k]
             n == Cardinality(Occurrences(content[c], e.old))
  <1>0. FileTypes /\ AskedInv /\ SerialInv /\ CallsAreAtomic
    BY DEF FileInv
  <1>1. step[c] = "edit" /\ UNCHANGED <<file, request, before, disturbed>> /\ Active(c)
    BY DEF Edit, Active
  <1>2. q \in Requests /\ content[c] \in Seq(FileLines) /\ before[c] \in Seq(FileLines) /\ k \in Nat
    BY <1>0, <1>1 DEF FileTypes
  <1>3. ~disturbed => Working(c)
    BY <1>0 DEF SerialInv
  <1> USE DEF q
  <1>4. ~disturbed => /\ file = before[c] /\ content[c] = AfterEdits(before[c], q.edits, k - 1)
                      /\ \A i \in 1 .. k - 1 : Found(before[c], q.edits, i)
    BY <1>1, <1>3 DEF Working
  <1>5. q.tool \in {"update", "multi"} /\ Accepted(q) /\ k \in 1 .. Len(q.edits)
    BY <1>0, <1>1 DEF AskedInv, Asked
  <1>7. q.edits \in Seq(Replacements) /\ Len(q.edits) \in Nat /\ q.edits # <<>> /\ e \in Replacements
    <2> HIDE DEF q
    <2>1. q.edits \in Seq(Replacements)
      BY <1>2, <1>5, RequestFields
    <2>2. k \in 1 .. Len(q.edits)
      BY <1>5
    <2> HIDE DEF k
    <2>3. q.edits[k] \in Replacements
      BY <2>1, <2>2, ElementOfSeq
    <2> QED BY <2>1, <2>2, <2>3
  <1>6. ~disturbed => (Found(before[c], q.edits, k) <=> ~(n = 0 \/ (n > 1 /\ ~e.all)))
    <2> SUFFICES ASSUME ~disturbed PROVE Found(before[c], q.edits, k) <=> ~(n = 0 \/ (n > 1 /\ ~e.all))
      OBVIOUS
    <2> HIDE DEF q, k
    <2>1. n \in Nat /\ (n = 0 <=> Occurrences(content[c], e.old) = {})
      BY <1>2, OccurrencesCount
    <2>2. Found(before[c], q.edits, k) <=> Occurrences(content[c], e.old) # {} /\ (e.all \/ n = 1)
      BY <1>4 DEF Found
    <2> HIDE DEF n, e
    <2> QED BY <2>1, <2>2
  <1> HIDE DEF n
  <1>a. CASE (n = 0 \/ (n > 1 /\ ~e.all)) /\ OnMissing(c) /\ UNCHANGED <<content, edit>>
    <2> HIDE DEF q, k, e
    <2>1. step' = [step EXCEPT ![c] = "done"] /\ answer' = [answer EXCEPT ![c] = Failure] /\ latest' = c
          /\ Finish(c, Failure)
      BY <1>a DEF OnMissing, Finish, Goto
    <2>2. FileTypes'
      BY <1>0, <1>1, <1>2, <1>a, <2>1 DEF FileTypes, q
    <2>3. SerialInv'
      <3>1. step'[c] = "done" /\ \A d \in Calls \ {c} : step'[d] = step[d]
        BY <1>0, <2>1 DEF FileTypes
      <3>2. Working(c)'
        BY <3>1 DEF Working
      <3> QED BY <1>0, <1>1, <1>a, <3>1, <3>2, SerialStep
    <2>4. CallsAreAtomic'
      <3> SUFFICES ASSUME ~disturbed PROVE CallsAreAtomic'
        BY <1>1 DEF CallsAreAtomic
      <3>1. ~Applies(before[c], q.edits)
        BY <1>5, <1>6, <1>7, <1>a, FoundApplies
      <3>2. q.tool \in {"update", "multi"} /\ Failure.ok = FALSE
        BY <1>5 DEF Failure
      <3>3. Answered(q, before[c], Failure)
        BY <3>1, <3>2 DEF Answered
      <3>4. Left(q, before[c], Failure) = before[c]
        BY <3>2 DEF Left
      <3>5. request'[c] = q /\ before'[c] = before[c] /\ file' = before[c]
        BY <1>1, <1>4 DEF q
      <3> QED BY <1>0, <2>1, <3>3, <3>4, <3>5, NowAtomic
    <2>5. step'[c] = "done" /\ \A d \in Calls \ {c} : step'[d] = step[d] /\ edit'[d] = edit[d] /\ request'[d] = request[d]
      BY <1>0, <1>1, <1>a, <2>1 DEF FileTypes
    <2>6. AskedInv'
      BY <1>0, <2>5, AskedStep DEF Asked
    <2> QED BY <2>2, <2>3, <2>4, <2>6 DEF FileInv
  <1>b. CASE /\ ~(n = 0 \/ (n > 1 /\ ~e.all))
             /\ content' = [content EXCEPT ![c] = IF e.all THEN ReplaceEvery(@, e) ELSE ReplaceFirst(@, e)]
             /\ edit' = [edit EXCEPT ![c] = @ + 1]
             /\ Goto(c, IF k = Len(q.edits) THEN "truncate" ELSE "edit")
             /\ UNCHANGED <<answer, latest>>
    <2> DEFINE l == IF k = Len(q.edits) THEN "truncate" ELSE "edit"
    <2>1. /\ step' = [step EXCEPT ![c] = l] /\ step'[c] = l
          /\ \A d \in Calls \ {c} : step'[d] = step[d] /\ edit'[d] = edit[d]
          /\ content'[c] = (IF e.all THEN ReplaceEvery(content[c], e) ELSE ReplaceFirst(content[c], e))
          /\ edit'[c] = k + 1 /\ edit' \in [Calls -> Nat]
      BY <1>0, <1>b DEF Goto, FileTypes
    <2>2. content'[c] \in Seq(FileLines)
      BY <1>2, <1>7, <2>1, ReplaceTypes
    <2>3. content' \in [Calls -> Seq(FileLines)]
      <3>1. content' = [content EXCEPT ![c] = content'[c]]
        BY <1>0, <1>b, <2>1 DEF FileTypes
      <3> QED BY <1>0, <2>2, <3>1 DEF FileTypes
    <2>4. l \in {"truncate", "edit"} /\ request'[c] = q /\ \A d \in Calls \ {c} : request'[d] = request[d]
      BY <1>1
    <2>5. FileTypes'
      <3> HIDE DEF q, k, e, l
      <3> QED BY <1>0, <1>1, <1>2, <1>b, <2>1, <2>3, <2>4 DEF FileTypes, q
    <2>6. l = "edit" => k + 1 \in 1 .. Len(q.edits)
      <3> HIDE DEF q, k
      <3> QED BY <1>5, <1>7
    <2>7. AskedInv'
      <3> HIDE DEF q, k, e, l
      <3>1. Asked(c)'
        BY <1>5, <2>1, <2>4, <2>6 DEF Asked
      <3> QED BY <1>0, <2>1, <2>4, <3>1, AskedStep
    <2>8. SerialInv'
      <3> SUFFICES ASSUME ~disturbed PROVE Working(c)'
        BY <1>0, <1>1, <2>1, SerialStep
      <3>1. content'[c] = ReplaceEvery(content[c], e)
        <4> HIDE DEF q, k, e
        <4>1. CASE e.all
          BY <2>1, <4>1
        <4>2. CASE ~e.all
          <5>1. n = 1
            BY <1>2, <1>b, <4>2, OccurrencesCount DEF n
          <5> QED BY <1>2, <1>7, <2>1, <4>2, <5>1, ReplaceOnly DEF n
        <4> QED BY <4>1, <4>2
      <3>2. content'[c] = AfterEdits(before[c], q.edits, k)
        <4> HIDE DEF q, k
        <4>1. k \in Nat \ {0}
          BY <1>5
        <4>2. \A i \in Nat \ {0} : AfterEdits(before[c], q.edits, i) =
                                     ReplaceEvery(AfterEdits(before[c], q.edits, i - 1), q.edits[i])
          <5> DEFINE lines == before[c]
                     edits == q.edits
          <5> HIDE DEF lines, edits
          <5>1. \A i \in Nat \ {0} : AfterEdits(lines, edits, i) = ReplaceEvery(AfterEdits(lines, edits, i - 1), edits[i])
            BY AfterEditsStep
          <5> QED BY <5>1 DEF lines, edits
        <4>3. AfterEdits(before[c], q.edits, k) = ReplaceEvery(AfterEdits(before[c], q.edits, k - 1), e)
          <5> HIDE DEF e
          <5>1. e = q.edits[k]
            BY DEF e
          <5> QED BY <4>1, <4>2, <5>1
        <4> HIDE DEF e
        <4> QED BY <1>4, <3>1, <4>3
      <3>3. \A i \in 1 .. k : Found(before[c], q.edits, i)
        <4>1. Found(before[c], q.edits, k)
          BY <1>6, <1>b
        <4> HIDE DEF q, k
        <4>2. \A i \in 1 .. k : i = k \/ i \in 1 .. k - 1
          BY <1>5
        <4> QED BY <1>4, <4>1, <4>2
      <3>4. before'[c] = before[c] /\ file' = before[c]
        BY <1>1, <1>4
      <3> HIDE DEF q, k, e
      <3>5. CASE k = Len(q.edits)
        <4>1. Applies(before[c], q.edits)
          BY <1>7, <3>3, <3>5, FoundApplies
        <4>2. step'[c] = "truncate"
          BY <2>1, <3>5
        <4> QED BY <1>5, <2>4, <3>2, <3>4, <3>5, <4>1, <4>2 DEF Working
      <3>6. CASE k # Len(q.edits)
        <4>1. step'[c] = "edit" /\ edit'[c] - 1 = k
          BY <1>5, <2>1, <3>6
        <4> QED BY <2>4, <3>2, <3>3, <3>4, <4>1 DEF Working
      <3> QED BY <3>5, <3>6
    <2>9. CallsAreAtomic'
      <3>1. Active(c)'
        BY <2>1, <2>4 DEF Active
      <3> QED BY <1>0, <1>1, <1>b, <3>1, StillAtomic
    <2> QED BY <2>5, <2>7, <2>8, <2>9 DEF FileInv
  <1> QED BY <1>a, <1>b DEF Edit, n

\* Truncate
LEMMA TruncateStep == ASSUME FileInv, NEW c \in Calls, Truncate(c) PROVE FileInv'
  <1>0. FileTypes /\ AskedInv /\ SerialInv /\ CallsAreAtomic
    BY DEF FileInv
  <1>1. step[c] = "truncate" /\ UNCHANGED <<request, content, edit, before>> /\ Active(c)
    BY DEF Truncate, Active
  <1>2. \A d \in Calls \ {c} : edit'[d] = edit[d] /\ request'[d] = request[d]
    BY <1>1
  <1>a. CASE file' = <<>> /\ Goto(c, "write") /\ UNCHANGED <<answer, latest, disturbed>>
    <2>1. /\ step' = [step EXCEPT ![c] = "write"] /\ step'[c] = "write"
          /\ \A d \in Calls \ {c} : step'[d] = step[d]
      BY <1>0, <1>a DEF Goto, FileTypes
    <2>2. FileTypes'
      <3>1. file' \in Seq(FileLines)
        BY <1>a
      <3> QED BY <1>0, <1>1, <1>a, <2>1, <3>1 DEF FileTypes
    <2>3. AskedInv'
      BY <1>0, <1>2, <2>1, AskedStep DEF Asked
    <2>4. SerialInv'
      <3> SUFFICES ASSUME ~disturbed PROVE Working(c)'
        BY <1>0, <1>1, <1>a, <2>1, SerialStep
      <3>1. Working(c)
        BY <1>0 DEF SerialInv
      <3> QED BY <1>1, <1>a, <2>1, <3>1 DEF Working
    <2>5. CallsAreAtomic'
      <3>1. Active(c)'
        BY <2>1 DEF Active
      <3> QED BY <1>0, <1>1, <1>a, <3>1, StillAtomic
    <2> QED BY <2>2, <2>3, <2>4, <2>5 DEF FileInv
  <1>b. CASE IOError(c) /\ UNCHANGED file
    <2>1. FileTypes'
      BY <1>0, <1>1, <1>b DEF FileTypes, IOError, Finish, Goto
    <2>2. step'[c] = "done" /\ \A d \in Calls \ {c} : step'[d] = step[d]
      BY <1>0, <1>b DEF FileTypes, IOError, Finish, Goto
    <2>3. AskedInv'
      BY <1>0, <1>2, <2>2, AskedStep DEF Asked
    <2> QED BY <1>b, <2>1, <2>3, ErrorSaysNothing DEF FileInv
  <1> QED BY <1>a, <1>b DEF Truncate

\* WriteFile
LEMMA WriteFileStep == ASSUME FileInv, NEW c \in Calls, WriteFile(c) PROVE FileInv'
  <1> DEFINE q == request[c]
             rest == SubSeq(file, Len(content[c]) + 1, Len(file))
  <1>0. FileTypes /\ AskedInv /\ SerialInv /\ CallsAreAtomic
    BY DEF FileInv
  <1>1. step[c] = "write" /\ UNCHANGED <<request, content, edit, before>> /\ Active(c)
    BY DEF WriteFile, Active
  <1>2. \A d \in Calls \ {c} : edit'[d] = edit[d] /\ request'[d] = request[d]
    BY <1>1
  <1>3. content[c] \in Seq(FileLines) /\ file \in Seq(FileLines) /\ q \in Requests
    BY <1>0, <1>1 DEF FileTypes
  <1>a. CASE file' = content[c] \o rest /\ Finish(c, Success) /\ UNCHANGED disturbed
    <2>1. /\ step' = [step EXCEPT ![c] = "done"] /\ answer' = [answer EXCEPT ![c] = Success] /\ latest' = c
          /\ step'[c] = "done" /\ \A d \in Calls \ {c} : step'[d] = step[d]
      BY <1>0, <1>a DEF Finish, Goto, FileTypes
    <2>2. rest \in Seq(FileLines)
      <3>1. \A i \in Len(content[c]) + 1 .. Len(file) : file[i] \in FileLines
        BY <1>3, ElementOfSeq
      <3> QED BY <1>3, <3>1, SubSeqProperties
    <2>3. file' \in Seq(FileLines)
      BY <1>3, <1>a, <2>2, ConcatProperties
    <2>4. FileTypes'
      BY <1>0, <1>1, <1>a, <2>1, <2>3 DEF FileTypes
    <2>5. AskedInv'
      BY <1>0, <1>2, <2>1, AskedStep DEF Asked
    <2>6. SerialInv'
      <3>1. Working(c)'
        BY <2>1 DEF Working
      <3> QED BY <1>0, <1>1, <1>a, <2>1, <3>1, SerialStep
    <2>7. CallsAreAtomic'
      <3> SUFFICES ASSUME ~disturbed PROVE CallsAreAtomic'
        BY <1>a DEF CallsAreAtomic
      <3>1. Working(c)
        BY <1>0 DEF SerialInv
      <3>2. file = <<>>
        BY <1>1, <3>1 DEF Working
      <3>3. file' = content[c]
        <4>1. rest = <<>>
          BY <1>3, <3>2, SubSeqEmpty
        <4> QED BY <1>3, <1>a, <4>1, ConcatEmptySeq
      <3>4. \/ q.tool = "write" /\ content[c] = q.content
            \/ /\ q.tool \in {"update", "multi"} /\ Accepted(q) /\ Applies(before[c], q.edits)
               /\ content[c] = AfterEdits(before[c], q.edits, Len(q.edits))
        BY <1>1, <3>1 DEF Working
      <3>5. Success.ok = TRUE
        BY DEF Success
      <3>6. request'[c] = q /\ before'[c] = before[c]
        BY <1>1
      <3> HIDE DEF q
      <3>7. Answered(q, before[c], Success)
        BY <3>4, <3>5 DEF Answered, Accepted
      <3>8. Left(q, before[c], Success) = content[c]
        BY <3>4, <3>5 DEF Left
      <3> QED BY <1>0, <1>a, <3>3, <3>6, <3>7, <3>8, NowAtomic
    <2> QED BY <2>4, <2>5, <2>6, <2>7 DEF FileInv
  <1>b. CASE IOError(c) /\ UNCHANGED file
    <2>1. FileTypes'
      BY <1>0, <1>1, <1>b DEF FileTypes, IOError, Finish, Goto
    <2>2. step'[c] = "done" /\ \A d \in Calls \ {c} : step'[d] = step[d]
      BY <1>0, <1>b DEF FileTypes, IOError, Finish, Goto
    <2>3. AskedInv'
      BY <1>0, <1>2, <2>2, AskedStep DEF Asked
    <2> QED BY <1>b, <2>1, <2>3, ErrorSaysNothing DEF FileInv
  <1> QED BY <1>a, <1>b DEF WriteFile

\* Every step of the calls.
LEMMA FilesNextStep == FileInv /\ [FilesNext]_fileVars => FileInv'
  <1> SUFFICES ASSUME FileInv, [FilesNext]_fileVars PROVE FileInv'
    OBVIOUS
  <1>1. CASE UNCHANGED fileVars
    <2>0. FileTypes /\ AskedInv /\ SerialInv /\ CallsAreAtomic
      BY DEF FileInv
    <2>1. FileTypes'
      BY <1>1, <2>0 DEF fileVars, FileTypes
    <2>2. AskedInv'
      BY <1>1, <2>0 DEF fileVars, AskedInv, Asked
    <2>3. SerialInv'
      BY <1>1, <2>0 DEF fileVars, SerialInv, Working, Active
    <2>4. CallsAreAtomic'
      BY <1>1, <2>0 DEF fileVars, CallsAreAtomic, Answered, Left, Alone
    <2> QED BY <2>1, <2>2, <2>3, <2>4 DEF FileInv
  <1>2. CASE FilesNext
    BY <1>2, CallStep, ReadFileStep, EditStep, TruncateStep, WriteFileStep DEF FilesNext
  <1> QED BY <1>1, <1>2

-----------------------------------------------------------------------------
(* The calls: the theorems                                                 *)

\* The file tools satisfy FileInv, whatever the calls are asked for and however they overlap.
THEOREM FilesInvariance == FilesSpec => []FileInv
  BY FilesInitInd, FilesNextStep, PTL DEF FilesSpec

\* A call that nothing disturbs is atomic, for every file and every list of edits.
THEOREM CallsAtomic == FilesSpec => []CallsAreAtomic
  BY FilesInvariance, PTL DEF FileInv

-----------------------------------------------------------------------------
(* The searches: their invariant                                           *)

\* A result is a path and a number: of a line, of a file's matches, or a time.
Rows == Int \X Int

\* No result is there twice.
Distinct(rows) == \A i, j \in DOMAIN rows : i # j => rows[i] # rows[j]

\* The entry at i keeps what is beneath it from being visited.
Blocks(i) == tree[i].path \in missed \/ Skips(tree[i])

\* Nothing that was visited up to n keeps the walk from i.
Open(i, n) ==
  /\ i \in WalkOf(query)
  /\ \A j \in WalkOf(query) : j <= n /\ Under(tree[i], tree[j].path) => ~Blocks(j)

\* The entry at i is visited and can be read.
Seen(i) == Open(i, Len(tree)) /\ tree[i].path \notin missed

\* What it adds to the matches.
RowsOf(i) ==
  CASE query.tool = "grep" -> Range(ContentHits(tree[i]))
    [] query.tool = "glob" -> Range(PathHits(tree[i]))
    [] query.tool = "list" -> IF Matches(query.pattern, tree[i]) THEN {<<tree[i].path, 0>>} ELSE {}

Reached(n) == UNION {RowsOf(i) : i \in {j \in 1 .. n : Seen(j)}}

\* The walk has come to n.
WalkInv(n) ==
  /\ walk = {i \in DOMAIN tree : i > n /\ Open(i, n)}
  /\ \A p \in missed : \E j \in WalkOf(query) : j <= n /\ tree[j].path = p

\* Every match so far has been found once; list_files, whose walk goes by path, has the first.
FoundInv(n) ==
  /\ found \in Seq(Rows) /\ Distinct(found)
  /\ query.tool # "list" => Range(found) = Reached(n)
  /\ query.tool = "list" =>
       /\ Range(found) \subseteq Reached(n)
       /\ Len(found) <= ListLimit /\ (Len(found) < ListLimit => Range(found) = Reached(n))
       /\ \A k, l \in DOMAIN found : k < l => found[k][1] < found[l][1]
       /\ \A r \in Reached(n) \ Range(found), k \in DOMAIN found : found[k][1] < r[1]

\* The request is a legal one, and the walk and the matches agree up to some entry.
SearchInv ==
  /\ tree \in Trees /\ query \in Queries \cup {NoQuery}
  /\ query = NoQuery => reply = NoReply /\ walk = {} /\ found = <<>> /\ missed = {}
  /\ query # NoQuery /\ reply = NoReply =>
       query.valid /\ \E n \in 0 .. Len(tree) : WalkInv(n) /\ FoundInv(n)
  /\ SearchIsExact

-----------------------------------------------------------------------------
(* The searches: sorted and limited results                                *)

HIDE FileToolsAssumption

\* The order of the results is a strict total order.
LEMMA OrderIsTotal ==
  /\ \A a, b \in Rows : a # b => Order(a, b) \/ Order(b, a)
  /\ \A a, b \in Rows : Order(a, b) => ~Order(b, a) /\ a # b
  /\ \A a, b, c \in Rows : Order(a, b) /\ Order(b, c) => Order(a, c)
  <1>1. \A a \in Rows : a[1] \in Int /\ a[2] \in Int /\ a = <<a[1], a[2]>>
    BY DEF Rows
  <1>2. \A a, b \in Rows : a # b => a[1] # b[1] \/ a[2] # b[2]
    BY <1>1
  <1>3. CASE query.tool = "glob" /\ query.sort = "mtime_desc"
    <2>1. \A a, b : Order(a, b) <=> MtimeDesc(a, b)
      BY <1>3 DEF Order
    <2>2. \A a, b \in Rows : a # b => MtimeDesc(a, b) \/ MtimeDesc(b, a)
      BY <1>1, <1>2 DEF MtimeDesc
    <2>3. \A a, b \in Rows : MtimeDesc(a, b) => ~MtimeDesc(b, a) /\ a # b
      BY <1>1 DEF MtimeDesc
    <2>4. \A a, b, c \in Rows : MtimeDesc(a, b) /\ MtimeDesc(b, c) => MtimeDesc(a, c)
      BY <1>1 DEF MtimeDesc
    <2> QED BY <2>1, <2>2, <2>3, <2>4
  <1>4. CASE ~(query.tool = "glob" /\ query.sort = "mtime_desc")
    <2>1. \A a, b : Order(a, b) <=> ByPath(a, b)
      BY <1>4 DEF Order
    <2>2. \A a, b \in Rows : a # b => ByPath(a, b) \/ ByPath(b, a)
      BY <1>1, <1>2 DEF ByPath
    <2>3. \A a, b \in Rows : ByPath(a, b) => ~ByPath(b, a) /\ a # b
      BY <1>1 DEF ByPath
    <2>4. \A a, b, c \in Rows : ByPath(a, b) /\ ByPath(b, c) => ByPath(a, c)
      BY <1>1 DEF ByPath
    <2> QED BY <2>1, <2>2, <2>3, <2>4
  <1> QED BY <1>3, <1>4

\* The rows at or before a row.
Before(rows, i) == {j \in DOMAIN rows : j = i \/ Order(rows[j], rows[i])}

\* Different rows get different places, in their order.
LEMMA PlacesAreDistinct ==
  ASSUME NEW rows \in Seq(Rows), Distinct(rows)
  PROVE  /\ \A i \in DOMAIN rows : Place(rows, i) \in DOMAIN rows
         /\ \A i, j \in DOMAIN rows : Order(rows[i], rows[j]) => Place(rows, i) < Place(rows, j)
  <1>1. DOMAIN rows = 1 .. Len(rows) /\ Len(rows) \in Nat /\ \A i \in DOMAIN rows : rows[i] \in Rows
    BY ElementOfSeq
  <1>2. IsFiniteSet(DOMAIN rows) /\ Cardinality(DOMAIN rows) = Len(rows)
    BY <1>1, FS_Interval
  <1>3. ASSUME NEW i \in DOMAIN rows PROVE Place(rows, i) = Cardinality(Before(rows, i))
    <2>1. \A j \in DOMAIN rows : (Order(rows[j], rows[i]) \/ (~Order(rows[i], rows[j]) /\ j <= i))
                                   <=> (j = i \/ Order(rows[j], rows[i]))
      <3> SUFFICES ASSUME NEW j \in DOMAIN rows
                   PROVE  (Order(rows[j], rows[i]) \/ (~Order(rows[i], rows[j]) /\ j <= i))
                            <=> (j = i \/ Order(rows[j], rows[i]))
        OBVIOUS
      <3>1. CASE j = i
        <4>1. ~Order(rows[i], rows[i])
          BY <1>1, OrderIsTotal
        <4> QED BY <1>1, <3>1, <4>1
      <3>2. CASE j # i
        <4>1. rows[i] # rows[j]
          BY <3>2 DEF Distinct
        <4> QED BY <1>1, <3>2, <4>1, OrderIsTotal
      <3> QED BY <3>1, <3>2
    <2> QED BY <2>1 DEF Place, Before
  <1>4. ASSUME NEW i \in DOMAIN rows
        PROVE  IsFiniteSet(Before(rows, i)) /\ Cardinality(Before(rows, i)) \in 1 .. Len(rows)
    <2>1. Before(rows, i) \in SUBSET DOMAIN rows /\ i \in Before(rows, i)
      BY DEF Before
    <2>2. IsFiniteSet(Before(rows, i)) /\ Cardinality(Before(rows, i)) <= Len(rows)
      BY <1>2, <2>1, FS_Subset
    <2>3. Cardinality(Before(rows, i)) \in Nat
      BY <2>2, FS_CardinalityType
    <2>4. Cardinality(Before(rows, i)) # 0
      BY <2>1, <2>2, FS_EmptySet
    <2> QED BY <1>1, <2>2, <2>3, <2>4
  <1>5. ASSUME NEW i \in DOMAIN rows, NEW j \in DOMAIN rows, Order(rows[i], rows[j])
        PROVE  Place(rows, i) < Place(rows, j)
    <2>1. ~Order(rows[j], rows[i]) /\ i # j
      BY <1>1, <1>5, OrderIsTotal
    <2>2. Before(rows, i) \in SUBSET Before(rows, j)
      BY <1>1, <1>5, OrderIsTotal DEF Before
    <2>3. j \in Before(rows, j) /\ j \notin Before(rows, i)
      BY <2>1 DEF Before
    <2>4. Cardinality(Before(rows, i)) <= Cardinality(Before(rows, j))
          /\ Cardinality(Before(rows, i)) # Cardinality(Before(rows, j))
      BY <1>4, <2>2, <2>3, FS_Subset
    <2> QED BY <1>3, <1>4, <2>4
  <1> QED BY <1>1, <1>3, <1>4, <1>5

\* Sorted puts the rows in their order.
LEMMA SortedIsSorted ==
  ASSUME NEW rows \in Seq(Rows), Distinct(rows)
  PROVE  /\ Sorted(rows) \in Seq(Rows) /\ Len(Sorted(rows)) = Len(rows)
         /\ Range(Sorted(rows)) = Range(rows)
         /\ \A k, l \in 1 .. Len(rows) : k < l => Order(Sorted(rows)[k], Sorted(rows)[l])
  <1> DEFINE D == DOMAIN rows
             f == [i \in D |-> Place(rows, i)]
             At(k) == CHOOSE i \in D : Place(rows, i) = k
  <1>1. D = 1 .. Len(rows) /\ Len(rows) \in Nat /\ \A i \in D : rows[i] \in Rows
    BY ElementOfSeq
  <1>2. IsFiniteSet(D)
    BY <1>1, FS_Interval
  <1>3. \A i, j \in D : i # j => f[i] # f[j]
    <2> SUFFICES ASSUME NEW i \in D, NEW j \in D, i # j PROVE Place(rows, i) # Place(rows, j)
      OBVIOUS
    <2>1. Order(rows[i], rows[j]) \/ Order(rows[j], rows[i])
      BY <1>1, OrderIsTotal DEF Distinct
    <2> QED BY <1>1, <2>1, PlacesAreDistinct
  <1>4. f \in [D -> D]
    BY PlacesAreDistinct
  <1>5. f \in Injection(D, D)
    BY <1>3, <1>4 DEF Injection, IsInjective
  <1>6. f \in Surjection(D, D)
    BY <1>2, <1>5, FS_Injection
  <1>7. \A k \in D : \E i \in D : f[i] = k
    BY <1>6 DEF Surjection
  <1>8. \A k \in D : At(k) \in D /\ Place(rows, At(k)) = k
    BY <1>7
  <1>9. \A i \in D : At(Place(rows, i)) = i
    <2> SUFFICES ASSUME NEW i \in D PROVE At(Place(rows, i)) = i
      OBVIOUS
    <2>1. Place(rows, i) \in D
      BY PlacesAreDistinct
    <2>2. At(Place(rows, i)) \in D /\ Place(rows, At(Place(rows, i))) = Place(rows, i)
      BY <1>8, <2>1
    <2> HIDE DEF At
    <2> QED BY <1>3, <2>2
  <1>10. Sorted(rows) = [k \in D |-> rows[At(k)]]
    BY DEF Sorted
  <1> HIDE DEF At, f
  <1>11. Sorted(rows) \in Seq(Rows) /\ Len(Sorted(rows)) = Len(rows) /\ DOMAIN Sorted(rows) = D
    <2>1. Sorted(rows) \in [1 .. Len(rows) -> Rows]
      BY <1>1, <1>8, <1>10
    <2> QED BY <1>1, <2>1, SeqDef
  <1>12. Range(Sorted(rows)) = Range(rows)
    <2>1. \A k \in D : Sorted(rows)[k] \in Range(rows)
      BY <1>8, <1>10 DEF Range
    <2>2. \A i \in D : rows[i] = Sorted(rows)[Place(rows, i)] /\ Place(rows, i) \in D
      BY <1>9, <1>10, PlacesAreDistinct
    <2> QED BY <1>11, <2>1, <2>2 DEF Range
  <1>13. ASSUME NEW k \in D, NEW l \in D, k < l PROVE Order(rows[At(k)], rows[At(l)])
    <2>1. At(k) \in D /\ At(l) \in D /\ Place(rows, At(k)) = k /\ Place(rows, At(l)) = l
      BY <1>8
    <2>2. At(k) # At(l) /\ rows[At(k)] # rows[At(l)]
      BY <1>1, <1>13, <2>1 DEF Distinct
    <2>3. ~Order(rows[At(l)], rows[At(k)])
      <3> SUFFICES ASSUME Order(rows[At(l)], rows[At(k)]) PROVE FALSE
        OBVIOUS
      <3>1. l < k
        BY <2>1, PlacesAreDistinct
      <3> QED BY <1>1, <1>13, <3>1
    <2> QED BY <1>1, <2>1, <2>2, <2>3, OrderIsTotal
  <1> QED BY <1>1, <1>10, <1>11, <1>12, <1>13

\* As many rows as there are different ones.
LEMMA DistinctCount ==
  ASSUME NEW rows \in Seq(Rows), Distinct(rows)
  PROVE  IsFiniteSet(Range(rows)) /\ Cardinality(Range(rows)) = Len(rows)
  <1>1. DOMAIN rows = 1 .. Len(rows) /\ Len(rows) \in Nat
    OBVIOUS
  <1>2. IsFiniteSet(DOMAIN rows) /\ Cardinality(DOMAIN rows) = Len(rows)
    BY <1>1, FS_Interval
  <1>3. rows \in [DOMAIN rows -> Range(rows)]
    BY <1>1 DEF Range
  <1>4. rows \in Bijection(DOMAIN rows, Range(rows))
    BY <1>3 DEF Bijection, Injection, Surjection, IsInjective, Distinct, Range
  <1>5. ExistsBijection(DOMAIN rows, Range(rows))
    BY <1>4 DEF ExistsBijection
  <1> QED BY <1>2, <1>5, FS_Bijection

\* What a limited answer has to be.
Exact(result, E, limit) ==
  LET got == Range(result.items)
  IN  /\ result.kind = "items"
      /\ Len(result.items) \in Nat
      /\ got \subseteq E
      /\ \A i \in 1 .. Len(result.items) - 1 : Order(result.items[i], result.items[i + 1])
      /\ \A x \in E \ got, y \in got : Order(y, x)
      /\ result.total = Cardinality(E)
      /\ result.truncated <=> got # E
      /\ got # E => limit > 0 /\ Len(result.items) = limit

\* Sorting and cutting off gives it.
LEMMA CappedIsExact ==
  ASSUME NEW rows \in Seq(Rows), Distinct(rows), NEW limit \in Int
  PROVE  Exact(Capped(Sorted(rows), limit), Range(rows), limit)
  <1> DEFINE n == Len(rows)
             s == Sorted(rows)
             cut == limit > 0 /\ n > limit
             items == IF cut THEN SubSeq(s, 1, limit) ELSE s
             m == IF cut THEN limit ELSE n
  <1>1. /\ s \in Seq(Rows) /\ Len(s) = n /\ n \in Nat /\ Range(s) = Range(rows)
        /\ \A k, l \in 1 .. n : k < l => Order(s[k], s[l])
    BY SortedIsSorted
  <1>2. Capped(s, limit) = [kind |-> "items", items |-> items, total |-> n, truncated |-> n > Len(items)]
    BY <1>1 DEF Capped, Listed
  <1> HIDE DEF s
  <1>3. m \in 0 .. n /\ (cut => m < n) /\ (~cut => m = n)
    BY <1>1
  <1>4. items \in Seq(Rows) /\ Len(items) = m /\ \A k \in 1 .. m : items[k] = s[k]
    <2>1. CASE cut
      <3>1. \A i \in 1 .. limit : s[i] \in Rows
        BY <1>1, <2>1, ElementOfSeq
      <3>2. /\ SubSeq(s, 1, limit) \in Seq(Rows) /\ Len(SubSeq(s, 1, limit)) = limit
            /\ \A i \in 1 .. limit : SubSeq(s, 1, limit)[i] = s[i]
        BY <2>1, <3>1, SubSeqProperties
      <3> QED BY <2>1, <3>2
    <2>2. CASE ~cut
      BY <1>1, <2>2
    <2> QED BY <2>1, <2>2
  <1> HIDE DEF items, m, cut
  <1>5. DOMAIN s = 1 .. n /\ DOMAIN items = 1 .. m /\ m \in Nat
    BY <1>1, <1>3, <1>4
  <1>6. Range(items) = {s[k] : k \in 1 .. m} /\ Range(rows) = {s[k] : k \in 1 .. n}
    BY <1>1, <1>4, <1>5 DEF Range
  <1>7. Range(items) \subseteq Range(rows)
    BY <1>3, <1>6
  <1>8. \A i \in 1 .. Len(items) - 1 : Order(items[i], items[i + 1])
    <2> SUFFICES ASSUME NEW i \in 1 .. m - 1 PROVE Order(items[i], items[i + 1])
      BY <1>4
    <2>1. i \in 1 .. m /\ i + 1 \in 1 .. m /\ i \in 1 .. n /\ i + 1 \in 1 .. n /\ i < i + 1
      BY <1>1, <1>3
    <2> QED BY <1>1, <1>4, <2>1
  <1>9. ASSUME NEW k \in 1 .. n, NEW l \in 1 .. m, s[k] \notin Range(items) PROVE Order(s[l], s[k])
    <2>1. k \notin 1 .. m
      BY <1>6, <1>9
    <2>2. l < k /\ l \in 1 .. n
      BY <1>1, <1>3, <2>1
    <2> QED BY <1>1, <2>2
  <1>10. \A x \in Range(rows) \ Range(items), y \in Range(items) : Order(y, x)
    BY <1>6, <1>9
  <1>11. cut => Range(items) # Range(rows)
    <2> SUFFICES ASSUME cut PROVE Range(items) # Range(rows)
      OBVIOUS
    <2>1. n \in 1 .. n /\ n \notin 1 .. m
      BY <1>1, <1>3
    <2>2. s[n] \in Rows /\ \A k \in 1 .. m : s[k] \in Rows /\ Order(s[k], s[n])
      <3> SUFFICES ASSUME NEW k \in 1 .. m PROVE s[n] \in Rows /\ s[k] \in Rows /\ Order(s[k], s[n])
        BY <1>1, <2>1, ElementOfSeq
      <3>1. k \in 1 .. n /\ k < n
        BY <1>1, <1>3
      <3> QED BY <1>1, <2>1, <3>1, ElementOfSeq
    <2>3. \A k \in 1 .. m : s[k] # s[n]
      BY <2>2, OrderIsTotal
    <2> QED BY <1>6, <2>1, <2>3
  <1>12. ~cut => Range(items) = Range(rows)
    BY <1>3, <1>6
  <1>13. cut <=> n > Len(items)
    BY <1>1, <1>3, <1>4
  <1>14. Cardinality(Range(rows)) = n
    BY DistinctCount
  <1>15. cut => limit > 0 /\ Len(items) = limit
    BY <1>4 DEF cut, m
  <1> DEFINE a == Capped(Sorted(rows), limit)
  <1>16. a.kind = "items" /\ a.items = items /\ a.total = n /\ a.truncated = (n > Len(items))
    BY <1>2 DEF s
  <1>17. Len(items) \in Nat
    BY <1>4, <1>5
  <1> HIDE DEF a, n
  <1> QED BY <1>7, <1>8, <1>10, <1>11, <1>12, <1>13, <1>14, <1>15, <1>16, <1>17 DEF Exact, a

\* The sequence of a finite set of rows.
LEMMA SetToSeqIsDistinct ==
  ASSUME NEW S \in SUBSET Rows, IsFiniteSet(S)
  PROVE  SetToSeq(S) \in Seq(Rows) /\ Distinct(SetToSeq(S)) /\ Range(SetToSeq(S)) = S
  <1> DEFINE n == Cardinality(S)
             f == SetToSeq(S)
  <1>1. n \in Nat /\ ExistsBijection(1 .. n, S)
    BY FS_CardinalityType
  <1>2. \E g \in [1 .. n -> S] : IsInjective(g)
    BY <1>1 DEF ExistsBijection, Bijection, Injection
  <1>3. f \in [1 .. n -> S] /\ IsInjective(f)
    BY <1>2 DEF SetToSeq
  <1> HIDE DEF f
  <1>4. f \in Injection(1 .. n, S)
    BY <1>3 DEF Injection
  <1>5. f \in Surjection(1 .. n, S)
    <2>1. IsFiniteSet(1 .. n) /\ Cardinality(1 .. n) = n
      BY <1>1, FS_Interval
    <2> QED BY <1>4, <2>1, FS_Injection
  <1>6. Range(f) = S
    BY <1>3, <1>5 DEF Surjection, Range
  <1>7. f \in Seq(Rows)
    BY <1>1, <1>3, SeqDef
  <1>8. Distinct(f)
    BY <1>3 DEF Distinct, IsInjective
  <1> QED BY <1>6, <1>7, <1>8 DEF f

-----------------------------------------------------------------------------
(* The searches: the tree                                                  *)

\* A tuple with one more element.
LEMMA AppendRange ==
  ASSUME NEW s \in Seq(Nat), NEW x \in Nat
  PROVE  Range(Append(s, x)) = Range(s) \cup {x} /\ Last(Append(s, x)) = x /\ Append(s, x) # <<>>
  <1>1. /\ Len(Append(s, x)) = Len(s) + 1 /\ Len(s) \in Nat
        /\ \A i \in 1 .. Len(s) : Append(s, x)[i] = s[i]
        /\ Append(s, x)[Len(s) + 1] = x
        /\ DOMAIN Append(s, x) = 1 .. Len(s) + 1 /\ DOMAIN s = 1 .. Len(s)
    BY AppendProperties
  <1>2. \A i \in 1 .. Len(s) + 1 : i \in 1 .. Len(s) \/ i = Len(s) + 1
    BY <1>1
  <1>3. \A i \in 1 .. Len(s) : i \in 1 .. Len(s) + 1
    BY <1>1
  <1>4. Len(s) + 1 \in 1 .. Len(s) + 1
    BY <1>1
  <1>5. Range(Append(s, x)) = Range(s) \cup {x}
    BY <1>1, <1>2, <1>3, <1>4 DEF Range
  <1>6. Append(s, x) # <<>>
    BY <1>1
  <1> QED BY <1>1, <1>5, <1>6 DEF Last

\* Every entry but the root lies in a directory that comes before it.
LEMMA ParentBefore ==
  ASSUME NEW t, WalkOrder(t), NEW i \in DOMAIN t, i # 1
  PROVE  \E j \in 1 .. i - 1 :
           /\ j \in DOMAIN t /\ t[j].kind = "dir" /\ t[i].inside = Append(t[j].inside, t[j].path)
           /\ \A p : Under(t[i], p) <=> (p = t[j].path \/ Under(t[j], p))
           /\ Parent(t[i]) = t[j].path
  <1>1. DOMAIN t = 1 .. Len(t) /\ Len(t) \in Nat
    BY DEF WalkOrder
  <1>2. PICK j \in 1 .. i - 1 : t[j].kind = "dir" /\ t[i].inside = Append(t[j].inside, t[j].path)
    <2>1. i > 1
      BY <1>1
    <2> QED BY <2>1 DEF WalkOrder
  <1>3. j \in DOMAIN t
    BY <1>1
  <1>4. t[j].inside \in Seq(Nat) /\ t[j].path \in Nat
    BY <1>3 DEF WalkOrder
  <1>5. Range(t[i].inside) = Range(t[j].inside) \cup {t[j].path} /\ Last(t[i].inside) = t[j].path
    BY <1>2, <1>4, AppendRange
  <1> QED BY <1>2, <1>3, <1>5 DEF Under, Parent

\* What an entry lies under are directories that come before it, and so are theirs.
LEMMA AncestorsBefore ==
  ASSUME NEW t, WalkOrder(t)
  PROVE  \A i \in DOMAIN t : \A p : Under(t[i], p) =>
           \E j \in 1 .. i - 1 : /\ j \in DOMAIN t /\ t[j].path = p /\ t[j].kind = "dir"
                                 /\ \A r : Under(t[j], r) => Under(t[i], r)
  <1> DEFINE Good(i) == \A p : Under(t[i], p) =>
               \E j \in 1 .. i - 1 : /\ j \in DOMAIN t /\ t[j].path = p /\ t[j].kind = "dir"
                                     /\ \A r : Under(t[j], r) => Under(t[i], r)
             Bad == {i \in DOMAIN t : ~Good(i)}
  <1>1. DOMAIN t = 1 .. Len(t) /\ Len(t) \in Nat
    BY DEF WalkOrder
  <1> SUFFICES ASSUME Bad # {} PROVE FALSE
    OBVIOUS
  <1>2. Bad \in SUBSET Nat
    BY <1>1
  <1>3. PICK i \in Bad : \A j \in Bad : i <= j
    <2> HIDE DEF Bad
    <2> QED BY <1>2, LeastNumber
  <1>4. i \in DOMAIN t /\ i \in Nat /\ ~Good(i)
    BY <1>1
  <1>5. i # 1
    <2>1. Range(t[1].inside) = {}
      BY DEF WalkOrder, Range
    <2>2. \A p : ~Under(t[1], p)
      BY <2>1 DEF Under
    <2> QED BY <1>4, <2>2
  <1>6. PICK k \in 1 .. i - 1 : /\ k \in DOMAIN t /\ t[k].kind = "dir"
                                /\ \A p : Under(t[i], p) <=> (p = t[k].path \/ Under(t[k], p))
    BY <1>4, <1>5, ParentBefore
  <1>7. Good(k)
    <2>1. ~(i <= k)
      BY <1>4
    <2> HIDE DEF Good
    <2> QED BY <1>3, <1>6, <2>1
  <1>8. Good(i)
    <2> SUFFICES ASSUME NEW p, Under(t[i], p)
                 PROVE  \E j \in 1 .. i - 1 : /\ j \in DOMAIN t /\ t[j].path = p /\ t[j].kind = "dir"
                                              /\ \A r : Under(t[j], r) => Under(t[i], r)
      OBVIOUS
    <2>1. CASE p = t[k].path
      BY <1>6, <2>1
    <2>2. CASE Under(t[k], p)
      <3>1. PICK j \in 1 .. k - 1 : /\ j \in DOMAIN t /\ t[j].path = p /\ t[j].kind = "dir"
                                    /\ \A r : Under(t[j], r) => Under(t[k], r)
        BY <1>7, <2>2
      <3>2. j \in 1 .. i - 1
        BY <1>4
      <3> QED BY <1>6, <3>1, <3>2
    <2> QED BY <1>6, <2>1, <2>2
  <1> QED BY <1>4, <1>8

\* A path is the path of one entry only.
LEMMA PathsAreUnique ==
  ASSUME NEW t, WalkOrder(t), NEW i \in DOMAIN t, NEW j \in DOMAIN t, t[i].path = t[j].path
  PROVE  i = j
  <1>1. i \in Nat /\ j \in Nat
    BY DEF WalkOrder
  <1>2. ~(i < j) /\ ~(j < i)
    BY DEF WalkOrder
  <1> QED BY <1>1, <1>2

\* Under: what lies under an entry comes behind it.
LEMMA UnderIsBehind ==
  ASSUME NEW t, WalkOrder(t), NEW i \in DOMAIN t, NEW j \in DOMAIN t, Under(t[i], t[j].path)
  PROVE  /\ j < i /\ t[j].kind = "dir"
         /\ \A r : Under(t[j], r) => Under(t[i], r)
  <1>1. PICK k \in 1 .. i - 1 : /\ k \in DOMAIN t /\ t[k].path = t[j].path /\ t[k].kind = "dir"
                                /\ \A r : Under(t[k], r) => Under(t[i], r)
    BY AncestorsBefore
  <1>2. k = j
    BY <1>1, PathsAreUnique
  <1>3. i \in Nat
    BY DEF WalkOrder
  <1> QED BY <1>1, <1>2, <1>3

\* The entries of one directory lie beside each other.
LEMMA SiblingsApart ==
  ASSUME NEW t, WalkOrder(t), NEW i \in DOMAIN t, NEW j \in DOMAIN t,
         t[i].path # Root, t[j].path # Root, Parent(t[i]) = Parent(t[j])
  PROVE  ~Under(t[i], t[j].path) /\ (i < j => t[i].path < t[j].path)
  <1>1. i # 1 /\ j # 1
    BY DEF WalkOrder
  <1>2. PICK k \in 1 .. i - 1 : k \in DOMAIN t /\ t[i].inside = Append(t[k].inside, t[k].path) /\ Parent(t[i]) = t[k].path
    BY <1>1, ParentBefore
  <1>3. PICK l \in 1 .. j - 1 : l \in DOMAIN t /\ t[j].inside = Append(t[l].inside, t[l].path) /\ Parent(t[j]) = t[l].path
    BY <1>1, ParentBefore
  <1>4. k = l
    BY <1>2, <1>3, PathsAreUnique
  <1>5. t[i].inside = t[j].inside
    BY <1>2, <1>3, <1>4
  <1>6. i < j => t[i].path < t[j].path
    BY <1>5 DEF WalkOrder
  <1>7. ~Under(t[i], t[j].path)
    <2> SUFFICES ASSUME Under(t[i], t[j].path) PROVE FALSE
      OBVIOUS
    <2>1. Under(t[j], t[j].path)
      BY <1>5 DEF Under
    <2>2. j < j /\ j \in Nat
      BY <2>1, UnderIsBehind DEF WalkOrder
    <2> QED BY <2>2
  <1> QED BY <1>6, <1>7

-----------------------------------------------------------------------------
(* The searches: the walk                                                  *)

\* The first of the entries to visit.
LEMMA MinOfWalk ==
  ASSUME NEW S \in SUBSET Nat, S # {}
  PROVE  Min(S) \in S /\ \A i \in S : Min(S) <= i
  <1>1. \E x \in S : \A y \in S : x <= y
    BY LeastNumber
  <1> QED BY <1>1 DEF Min

\* One entry is visited: it is read or missed, and what it blocks is left out.
LEMMA VisitWalk ==
  ASSUME WalkOrder(tree), NEW n \in Nat, WalkInv(n), walk # {}, UNCHANGED <<tree, query>>,
         NEW m, m = Min(walk),
         missed' = missed \/ missed' = missed \cup {tree[m].path},
         walk' = IF missed' # missed \/ Skips(tree[m]) THEN Beside(m) ELSE walk \ {m}
  PROVE  /\ m \in WalkOf(query) /\ m \in n + 1 .. Len(tree)
         /\ WalkInv(m)'
         /\ \A i \in 1 .. n : Seen(i)' <=> Seen(i)
         /\ \A i \in n + 1 .. m - 1 : ~Seen(i)'
         /\ Seen(m)' <=> missed' = missed
  <1>0. DOMAIN tree = 1 .. Len(tree) /\ Len(tree) \in Nat
    BY DEF WalkOrder
  <1>1. walk \in SUBSET Nat
    BY <1>0 DEF WalkInv
  <1>2. m \in walk /\ \A i \in walk : m <= i
    BY <1>1, MinOfWalk
  <1>3. m \in DOMAIN tree /\ m > n /\ Open(m, n)
    BY <1>2 DEF WalkInv
  <1>4. m \in WalkOf(query) /\ m \in n + 1 .. Len(tree) /\ m \in Nat
    BY <1>0, <1>3 DEF Open
  <1>5. WalkOf(query)' = WalkOf(query) /\ (\A e : Skips(e)' <=> Skips(e))
    BY DEF WalkOf, Skips
  <1>6. WalkOf(query) \in SUBSET DOMAIN tree
    BY DEF WalkOf
  <1>7. tree[m].path \notin missed
    <2> SUFFICES ASSUME tree[m].path \in missed PROVE FALSE
      OBVIOUS
    <2>1. PICK j \in WalkOf(query) : j <= n /\ tree[j].path = tree[m].path
      BY DEF WalkInv
    <2>2. j = m
      BY <1>3, <1>6, <2>1, PathsAreUnique
    <2> QED BY <1>0, <1>3, <2>1, <2>2
  <1>8. \A i \in DOMAIN tree : i # m => (Blocks(i)' <=> Blocks(i)) /\ (tree[i].path \in missed' <=> tree[i].path \in missed)
    <2> SUFFICES ASSUME NEW i \in DOMAIN tree, i # m
                 PROVE  (Blocks(i)' <=> Blocks(i)) /\ (tree[i].path \in missed' <=> tree[i].path \in missed)
      OBVIOUS
    <2>1. tree[i].path # tree[m].path
      BY <1>3, PathsAreUnique
    <2>2. tree[i].path \in missed' <=> tree[i].path \in missed
      BY <2>1
    <2> QED BY <1>5, <2>2 DEF Blocks
  <1>9. Blocks(m)' <=> missed' # missed \/ Skips(tree[m])
    <2>1. tree[m].path \in missed' <=> missed' # missed
      BY <1>7
    <2> QED BY <1>5, <2>1 DEF Blocks
  \* an entry between n and m is not visited, since something before it blocks it, and what is under it
  <1>10. ASSUME NEW j \in WalkOf(query), j > n, j < m
         PROVE  \E a \in WalkOf(query) : a <= n /\ Under(tree[j], tree[a].path) /\ Blocks(a)
    <2>1. j \notin walk
      BY <1>0, <1>2, <1>4, <1>6, <1>10
    <2>2. ~Open(j, n)
      BY <1>6, <1>10, <2>1 DEF WalkInv
    <2> QED BY <2>2 DEF Open
  <1>11. ASSUME NEW i \in DOMAIN tree, Open(i, n), NEW j \in WalkOf(query), j > n, j < m
         PROVE  ~Under(tree[i], tree[j].path)
    <2> SUFFICES ASSUME Under(tree[i], tree[j].path) PROVE FALSE
      OBVIOUS
    <2>1. PICK a \in WalkOf(query) : a <= n /\ Under(tree[j], tree[a].path) /\ Blocks(a)
      BY <1>10, <1>11
    <2>2. Under(tree[i], tree[a].path)
      BY <1>6, <2>1, UnderIsBehind
    <2> QED BY <1>11, <2>1, <2>2 DEF Open
  <1>12. ASSUME NEW i \in DOMAIN tree, i > n, NEW k \in Nat, k >= m, Open(i, k)'
         PROVE  Open(i, n) /\ (Blocks(m)' => ~Under(tree[i], tree[m].path))
    <2>1. i \in WalkOf(query) /\ \A j \in WalkOf(query) : j <= k /\ Under(tree[i], tree[j].path) => ~Blocks(j)'
      BY <1>5, <1>12 DEF Open
    <2>2. ASSUME NEW j \in WalkOf(query), j <= n, Under(tree[i], tree[j].path) PROVE ~Blocks(j)
      <3>1. j \in DOMAIN tree /\ j \in Nat /\ j # m /\ j <= k
        BY <1>0, <1>3, <1>4, <1>6, <1>12, <2>2
      <3> QED BY <1>8, <2>1, <2>2, <3>1
    <2>3. m <= k
      BY <1>4, <1>12
    <2> QED BY <1>4, <2>1, <2>2, <2>3 DEF Open
  <1>13. ASSUME NEW i \in DOMAIN tree, Open(i, n), Blocks(m)' => ~Under(tree[i], tree[m].path)
         PROVE  Open(i, m)'
    <2>1. i \in WalkOf(query)
      BY <1>13 DEF Open
    <2>2. ASSUME NEW j \in WalkOf(query), j <= m, Under(tree[i], tree[j].path) PROVE ~Blocks(j)'
      <3>0. j \in DOMAIN tree /\ j \in Nat
        BY <1>0, <1>6
      <3>1. CASE j <= n
        <4>1. j # m /\ ~Blocks(j)
          BY <1>3, <1>13, <2>2, <3>0, <3>1 DEF Open
        <4> QED BY <1>8, <3>0, <4>1
      <3>2. CASE j > n /\ j < m
        BY <1>11, <1>13, <2>2, <3>2
      <3>3. CASE j = m
        BY <1>13, <2>2, <3>3
      <3> QED BY <1>4, <2>2, <3>0, <3>1, <3>2, <3>3
    <2> QED BY <1>5, <2>1, <2>2 DEF Open
  <1>14. walk' = {i \in DOMAIN tree : i > m /\ Open(i, m)'}
    <2>1. ASSUME NEW i \in walk' PROVE i \in DOMAIN tree /\ i > m /\ Open(i, m)'
      <3>1. i \in walk /\ i # m /\ (Blocks(m)' => ~Under(tree[i], tree[m].path))
        BY <1>9, <2>1 DEF Beside
      <3>2. i \in DOMAIN tree /\ Open(i, n)
        BY <3>1 DEF WalkInv
      <3>3. i > m
        BY <1>0, <1>2, <1>4, <3>1, <3>2
      <3> QED BY <1>13, <3>1, <3>2, <3>3
    <2>2. ASSUME NEW i \in DOMAIN tree, i > m, Open(i, m)' PROVE i \in walk'
      <3>1. i > n
        BY <1>0, <1>3, <1>4, <2>2
      <3>2. Open(i, n) /\ (Blocks(m)' => ~Under(tree[i], tree[m].path))
        BY <1>4, <1>12, <2>2, <3>1
      <3>3. i \in walk /\ i # m
        BY <1>0, <1>4, <2>2, <3>1, <3>2 DEF WalkInv
      <3> QED BY <1>9, <3>2, <3>3 DEF Beside
    <2> QED BY <2>1, <2>2
  <1>15. WalkInv(m)'
    <2>1. ASSUME NEW p \in missed' PROVE \E j \in WalkOf(query) : j <= m /\ tree[j].path = p
      <3>1. CASE p \in missed
        <4>1. PICK j \in WalkOf(query) : j <= n /\ tree[j].path = p
          BY <3>1 DEF WalkInv
        <4> QED BY <1>0, <1>3, <1>4, <1>6, <4>1
      <3>2. CASE p = tree[m].path
        BY <1>4, <3>2
      <3> QED BY <2>1, <3>1, <3>2
    <2> QED BY <1>5, <1>14, <2>1 DEF WalkInv
  <1>16. ASSUME NEW i \in 1 .. n PROVE Seen(i)' <=> Seen(i)
    <2>1. i \in DOMAIN tree /\ i # m
      BY <1>0, <1>4
    <2>2. Open(i, Len(tree))' <=> Open(i, Len(tree))
      <3>1. ASSUME NEW j \in WalkOf(query), Under(tree[i], tree[j].path) PROVE Blocks(j)' <=> Blocks(j)
        <4>1. j \in DOMAIN tree /\ j < i
          BY <1>6, <2>1, <3>1, UnderIsBehind
        <4>2. j # m
          BY <1>0, <1>4, <4>1
        <4> QED BY <1>8, <4>1, <4>2
      <3> QED BY <1>5, <3>1 DEF Open
    <2> QED BY <1>8, <2>1, <2>2 DEF Seen
  <1>17. ASSUME NEW i \in n + 1 .. m - 1 PROVE ~Seen(i)'
    <2> SUFFICES ASSUME Seen(i)' PROVE FALSE
      OBVIOUS
    <2>1. i \in DOMAIN tree /\ i > n /\ i < m
      BY <1>0, <1>4
    <2>2. Open(i, Len(tree))' /\ Len(tree) >= m
      BY <1>0, <1>4 DEF Seen
    <2>3. Open(i, n)
      BY <1>0, <1>12, <2>1, <2>2
    <2>4. i \in walk
      BY <2>1, <2>3 DEF WalkInv
    <2> QED BY <1>0, <1>2, <1>4, <2>1, <2>4
  <1>18. Seen(m)' <=> missed' = missed
    <2>1. ~Under(tree[m], tree[m].path)
      <3> SUFFICES ASSUME Under(tree[m], tree[m].path) PROVE FALSE
        OBVIOUS
      <3>1. m < m
        BY <1>3, UnderIsBehind
      <3> QED BY <1>4, <3>1
    <2>2. Open(m, m)'
      BY <1>3, <1>13, <2>1
    <2>3. Open(m, Len(tree))'
      <3>1. ASSUME NEW j \in WalkOf(query), Under(tree[m], tree[j].path) PROVE ~Blocks(j)'
        <4>1. j < m
          BY <1>3, <1>6, <3>1, UnderIsBehind
        <4>2. j <= m
          BY <1>0, <1>4, <1>6, <4>1
        <4> QED BY <1>5, <2>2, <3>1, <4>2 DEF Open
      <3> QED BY <1>4, <1>5, <3>1 DEF Open
    <2>4. tree[m].path \in missed' <=> missed' # missed
      BY <1>7
    <2> QED BY <2>3, <2>4 DEF Seen
  <1> QED BY <1>4, <1>15, <1>16, <1>17, <1>18

\* What the visit of m adds to what has been reached.
LEMMA ReachedStep ==
  ASSUME NEW n \in Nat, NEW m \in n + 1 .. Len(tree), Len(tree) \in Nat, UNCHANGED <<tree, query>>,
         \A i \in 1 .. n : Seen(i)' <=> Seen(i),
         \A i \in n + 1 .. m - 1 : ~Seen(i)',
         Seen(m)' <=> missed' = missed
  PROVE  Reached(m)' = Reached(n) \cup (IF missed' = missed THEN RowsOf(m) ELSE {})
  <1>1. \A i : RowsOf(i)' = RowsOf(i)
    BY DEF RowsOf, ContentHits, PathHits
  <1>2. Reached(m)' = UNION {RowsOf(i) : i \in {j \in 1 .. m : Seen(j)'}}
    BY <1>1 DEF Reached
  <1>3. \A i : i \in 1 .. m <=> i \in 1 .. n \/ i \in n + 1 .. m - 1 \/ i = m
    OBVIOUS
  <1>4. \A i : (i \in 1 .. m /\ Seen(i)') <=> (i \in 1 .. n /\ Seen(i)) \/ (i = m /\ missed' = missed)
    BY <1>3
  <1> QED BY <1>2, <1>4 DEF Reached

\* Rows of a file are different and carry its path.
LEMMA RowsOfEntry ==
  ASSUME WalkOrder(tree), NEW i \in DOMAIN tree, query.tool \in {"grep", "glob", "list"}
  PROVE  /\ RowsOf(i) \subseteq Rows /\ \A r \in RowsOf(i) : r[1] = tree[i].path
         /\ query.tool # "list" => /\ Hits(tree[i]) \in Seq(Rows) /\ Distinct(Hits(tree[i]))
                                   /\ Range(Hits(tree[i])) = RowsOf(i)
  <1> DEFINE e == tree[i]
  <1>1. /\ e.path \in Int /\ e.mtime \in Int /\ e.lines \in Seq(Nat) /\ e.scanned \in 0 .. Len(e.lines)
        /\ \A k, l \in DOMAIN e.lines : k < l => e.lines[k] < e.lines[l]
    BY DEF WalkOrder
  <1> HIDE DEF e
  <1>2. <<>> \in Seq(Rows) /\ Distinct(<<>>) /\ Range(<<>>) = {}
    BY DEF Distinct, Range
  <1>3. CASE query.tool = "grep"
    <2> DEFINE s == [k \in 1 .. e.scanned |-> <<e.path, e.lines[k]>>]
    <2>1. 1 .. e.scanned \subseteq DOMAIN e.lines /\ e.scanned \in Nat /\ \A k \in DOMAIN e.lines : e.lines[k] \in Nat
      BY <1>1, ElementOfSeq
    <2>2. s \in Seq(Rows)
      <3>1. ASSUME NEW k \in 1 .. e.scanned PROVE s[k] \in Rows
        <4>1. e.lines[k] \in Nat
          BY <2>1
        <4> QED BY <1>1, <4>1 DEF Rows
      <3>2. s \in [1 .. e.scanned -> Rows]
        BY <3>1
      <3> HIDE DEF s
      <3> QED BY <2>1, <3>2, SeqDef
    <2>3. Distinct(s)
      <3> SUFFICES ASSUME NEW k \in 1 .. e.scanned, NEW l \in 1 .. e.scanned, k # l PROVE e.lines[k] # e.lines[l]
        BY DEF Distinct
      <3>1. k < l \/ l < k
        BY <2>1
      <3>2. e.lines[k] < e.lines[l] \/ e.lines[l] < e.lines[k]
        BY <1>1, <2>1, <3>1
      <3> QED BY <2>1, <3>2
    <2>4. \A r \in Range(s) : r[1] = e.path
      <3>1. \A k \in 1 .. e.scanned : s[k][1] = e.path
        OBVIOUS
      <3>2. DOMAIN s = 1 .. e.scanned
        OBVIOUS
      <3> HIDE DEF s
      <3> QED BY <3>1, <3>2 DEF Range
    <2>5. ContentHits(e) \in {<<>>, s}
      BY DEF ContentHits, ScanFile
    <2> HIDE DEF s
    <2>6. ContentHits(e) \in Seq(Rows) /\ Distinct(ContentHits(e)) /\ \A r \in Range(ContentHits(e)) : r[1] = e.path
      BY <1>2, <2>2, <2>3, <2>4, <2>5
    <2>7. Range(ContentHits(e)) \subseteq Rows
      BY <2>6, ElementOfSeq DEF Range
    <2>8. RowsOf(i) = Range(ContentHits(e)) /\ Hits(e) = ContentHits(e)
      BY <1>3 DEF RowsOf, Hits, e
    <2> QED BY <2>6, <2>7, <2>8 DEF e
  <1>4. CASE query.tool = "glob"
    <2>1. <<e.path, e.mtime>> \in Rows
      BY <1>1 DEF Rows
    <2> DEFINE r1 == <<e.path, e.mtime>>
    <2>2. r1[1] = e.path
      OBVIOUS
    <2> HIDE DEF r1
    <2>3. <<r1>> \in Seq(Rows) /\ Distinct(<<r1>>) /\ Range(<<r1>>) = {r1}
      <3>1. r1 \in Rows
        BY <2>1 DEF r1
      <3>2. <<r1>> = [k \in 1 .. 1 |-> r1]
        OBVIOUS
      <3>3. \A k \in 1 .. 1 : k = 1
        OBVIOUS
      <3>4. 1 \in 1 .. 1
        OBVIOUS
      <3>5. <<r1>> \in Seq(Rows)
        BY <3>1
      <3>6. Distinct(<<r1>>) /\ Range(<<r1>>) = {r1}
        BY <3>2, <3>3, <3>4 DEF Distinct, Range
      <3> QED BY <3>5, <3>6
    <2>4. PathHits(e) \in {<<>>, <<r1>>}
      BY DEF PathHits, r1
    <2>5. PathHits(e) \in Seq(Rows) /\ Distinct(PathHits(e)) /\ \A r \in Range(PathHits(e)) : r[1] = e.path /\ r \in Rows
      BY <1>2, <2>1, <2>2, <2>3, <2>4 DEF r1
    <2>6. RowsOf(i) = Range(PathHits(e)) /\ Hits(e) = PathHits(e)
      BY <1>4 DEF RowsOf, Hits, e
    <2> QED BY <2>5, <2>6 DEF e
  <1>5. CASE query.tool = "list"
    BY <1>1, <1>5 DEF RowsOf, Rows, e
  <1> QED BY <1>3, <1>4, <1>5

\* Different rows added to different rows.
LEMMA DistinctConcat ==
  ASSUME NEW s \in Seq(Rows), NEW h \in Seq(Rows), Distinct(s), Distinct(h), Range(s) \cap Range(h) = {}
  PROVE  s \o h \in Seq(Rows) /\ Distinct(s \o h) /\ Range(s \o h) = Range(s) \cup Range(h)
  <1> DEFINE c == s \o h
  <1>1. /\ c \in Seq(Rows) /\ Len(c) = Len(s) + Len(h) /\ Len(s) \in Nat /\ Len(h) \in Nat
        /\ \A i \in 1 .. Len(s) : c[i] = s[i]
        /\ \A i \in 1 .. Len(h) : c[Len(s) + i] = h[i]
        /\ DOMAIN s = 1 .. Len(s) /\ DOMAIN h = 1 .. Len(h) /\ DOMAIN c = 1 .. Len(s) + Len(h)
    BY ConcatProperties
  <1> HIDE DEF c
  <1>2. ASSUME NEW i \in DOMAIN c PROVE i \in 1 .. Len(s) \/ (i - Len(s) \in 1 .. Len(h) /\ c[i] = h[i - Len(s)])
    <2>1. i \in 1 .. Len(s) \/ (i - Len(s) \in 1 .. Len(h) /\ Len(s) + (i - Len(s)) = i)
      BY <1>1
    <2> QED BY <1>1, <2>1
  <1>3. ASSUME NEW i \in 1 .. Len(s) PROVE i \in DOMAIN c /\ s[i] \in Range(s) /\ c[i] = s[i]
    BY <1>1 DEF Range
  <1>4. ASSUME NEW i \in 1 .. Len(h) PROVE Len(s) + i \in DOMAIN c /\ h[i] \in Range(h) /\ c[Len(s) + i] = h[i]
    <2>1. Len(s) + i \in DOMAIN c /\ c[Len(s) + i] = h[i]
      BY <1>1
    <2>2. h[i] \in Range(h)
      BY <1>1 DEF Range
    <2> QED BY <2>1, <2>2
  <1>5. Range(c) = Range(s) \cup Range(h)
    <2>1. ASSUME NEW i \in DOMAIN c PROVE c[i] \in Range(s) \cup Range(h)
      BY <1>2, <1>3, <1>4
    <2>2. \A r \in Range(s) : r \in Range(c)
      BY <1>1, <1>3 DEF Range
    <2>3. \A r \in Range(h) : r \in Range(c)
      <3> SUFFICES ASSUME NEW i \in 1 .. Len(h) PROVE h[i] \in Range(c)
        BY <1>1 DEF Range
      <3>1. Len(s) + i \in DOMAIN c /\ c[Len(s) + i] = h[i]
        BY <1>1, <1>4
      <3> QED BY <3>1 DEF Range
    <2>4. \A r \in Range(c) : \E i \in DOMAIN c : r = c[i]
      BY DEF Range
    <2> QED BY <2>1, <2>2, <2>3, <2>4
  <1>6. Distinct(c)
    <2> SUFFICES ASSUME NEW i \in DOMAIN c, NEW j \in DOMAIN c, i # j PROVE c[i] # c[j]
      BY DEF Distinct
    <2>1. CASE i \in 1 .. Len(s) /\ j \in 1 .. Len(s)
      BY <1>1, <2>1 DEF Distinct
    <2>2. CASE i \in 1 .. Len(s) /\ j \notin 1 .. Len(s)
      BY <1>2, <1>3, <1>4, <2>2
    <2>3. CASE i \notin 1 .. Len(s) /\ j \in 1 .. Len(s)
      BY <1>2, <1>3, <1>4, <2>3
    <2>4. CASE i \notin 1 .. Len(s) /\ j \notin 1 .. Len(s)
      <3>1. i - Len(s) \in DOMAIN h /\ j - Len(s) \in DOMAIN h /\ c[i] = h[i - Len(s)] /\ c[j] = h[j - Len(s)]
        BY <1>1, <1>2, <2>4
      <3>2. i - Len(s) # j - Len(s)
        BY <1>1
      <3> QED BY <3>1, <3>2 DEF Distinct
    <2> QED BY <2>1, <2>2, <2>3, <2>4
  <1> QED BY <1>1, <1>5, <1>6 DEF c

\* The matches after a visit.
LEMMA VisitFound ==
  ASSUME WalkOrder(tree), query.tool \in {"grep", "glob", "list"}, NEW n \in 0 .. Len(tree), FoundInv(n),
         NEW m \in n + 1 .. Len(tree), m \in WalkOf(query), UNCHANGED <<tree, query>>,
         Reached(m)' = Reached(n) \cup (IF missed' = missed THEN RowsOf(m) ELSE {}),
         found' = IF missed' = missed THEN found \o Hits(tree[m]) ELSE found
  PROVE  FoundInv(m)'
  <1>0. DOMAIN tree = 1 .. Len(tree) /\ Len(tree) \in Nat /\ m \in DOMAIN tree /\ n \in Nat
    BY DEF WalkOrder
  <1>1. \A r \in Reached(n) : \E i \in 1 .. n : i \in WalkOf(query) /\ r[1] = tree[i].path
    <2> SUFFICES ASSUME NEW i \in 1 .. n, Seen(i), NEW r \in RowsOf(i)
                 PROVE  i \in WalkOf(query) /\ r[1] = tree[i].path
      BY DEF Reached
    <2>1. i \in DOMAIN tree
      BY <1>0
    <2> QED BY <2>1, RowsOfEntry DEF Seen, Open
  <1>2. \A r \in Reached(n) : r[1] # tree[m].path
    <2> SUFFICES ASSUME NEW r \in Reached(n), r[1] = tree[m].path PROVE FALSE
      OBVIOUS
    <2>1. PICK i \in 1 .. n : r[1] = tree[i].path
      BY <1>1
    <2>2. i \in DOMAIN tree /\ i # m
      BY <1>0
    <2> QED BY <1>0, <2>1, <2>2, PathsAreUnique
  <1>3. found \in Seq(Rows) /\ Distinct(found) /\ Range(found) \subseteq Reached(n)
    BY DEF FoundInv
  <1>4. CASE missed' # missed
    <2>1. found' = found /\ Reached(m)' = Reached(n)
      BY <1>4
    <2> QED BY <2>1 DEF FoundInv
  <1>5. CASE missed' = missed /\ query.tool # "list"
    <2> DEFINE h == Hits(tree[m])
    <2>1. h \in Seq(Rows) /\ Distinct(h) /\ Range(h) = RowsOf(m) /\ \A r \in RowsOf(m) : r[1] = tree[m].path
      BY <1>0, <1>5, RowsOfEntry
    <2>2. found' = found \o h
      BY <1>5
    <2> HIDE DEF h
    <2>3. Range(found) \cap Range(h) = {}
      BY <1>2, <1>3, <2>1
    <2>4. found' \in Seq(Rows) /\ Distinct(found') /\ Range(found') = Range(found) \cup Range(h)
      BY <1>3, <2>1, <2>2, <2>3, DistinctConcat
    <2>5. Range(found') = Reached(m)'
      BY <1>5, <2>1, <2>4 DEF FoundInv
    <2> QED BY <1>5, <2>4, <2>5 DEF FoundInv
  <1>6. CASE missed' = missed /\ query.tool = "list"
    <2> DEFINE r1 == <<tree[m].path, 0>>
    <2>1. tree[m].path \in Int /\ r1 \in Rows /\ r1[1] = tree[m].path
      BY <1>0 DEF WalkOrder, Rows
    <2>2. Hits(tree[m]) = IF Matches(query.pattern, tree[m]) /\ Len(found) < ListLimit THEN <<r1>> ELSE <<>>
      BY <1>6 DEF Hits, ListHits
    <2>3. Reached(m)' = Reached(n) \cup (IF Matches(query.pattern, tree[m]) THEN {r1} ELSE {})
      BY <1>6 DEF RowsOf
    <2> HIDE DEF r1
    \* the entries of a directory are visited by path
    <2>4. \A r \in Reached(n) : r[1] < r1[1]
      <3> SUFFICES ASSUME NEW r \in Reached(n) PROVE r[1] < r1[1]
        OBVIOUS
      <3>1. PICK i \in 1 .. n : i \in WalkOf(query) /\ r[1] = tree[i].path
        BY <1>1
      <3>2. i \in DOMAIN tree /\ i < m
        BY <1>0
      <3>3. tree[i].path # Root /\ tree[m].path # Root /\ Parent(tree[i]) = Parent(tree[m])
        BY <1>6, <3>1 DEF WalkOf
      <3> QED BY <1>0, <2>1, <3>1, <3>2, <3>3, SiblingsApart
    <2>5. \A k \in DOMAIN found : found[k] \in Reached(n) /\ found[k] \in Rows
      BY <1>3, ElementOfSeq DEF Range
    <2>6. Len(found) \in Nat /\ DOMAIN found = 1 .. Len(found) /\ Len(found) <= ListLimit
      BY <1>3, <1>6 DEF FoundInv
    <2>7. CASE Matches(query.pattern, tree[m]) /\ Len(found) < ListLimit
      <3>1. found' = Append(found, r1) /\ Reached(m)' = Reached(n) \cup {r1} /\ Range(found) = Reached(n)
        <4>1. found' = found \o <<r1>>
          BY <1>6, <2>2, <2>7
        <4>2. found \o <<r1>> = Append(found, r1)
          BY <1>3, <2>1
        <4> QED BY <1>6, <2>3, <2>7, <4>1, <4>2 DEF FoundInv
      <3>2. found' \in Seq(Rows) /\ Len(found') = Len(found) + 1
            /\ (\A k \in 1 .. Len(found) : found'[k] = found[k]) /\ found'[Len(found) + 1] = r1
            /\ DOMAIN found' = 1 .. Len(found) + 1
        <4>1. found \in Seq(Rows) /\ r1 \in Rows
          BY <1>3, <2>1
        <4>2. /\ Append(found, r1) \in Seq(Rows) /\ Len(Append(found, r1)) = Len(found) + 1
              /\ (\A k \in 1 .. Len(found) : Append(found, r1)[k] = found[k])
              /\ Append(found, r1)[Len(found) + 1] = r1
          BY <4>1, AppendProperties
        <4>3. DOMAIN Append(found, r1) = 1 .. Len(found) + 1
          BY <4>2
        <4> QED BY <3>1, <4>2, <4>3
      <3>3. \A k \in 1 .. Len(found) + 1 : k \in 1 .. Len(found) \/ k = Len(found) + 1
        BY <2>6
      <3>4. 1 .. Len(found) \subseteq 1 .. Len(found) + 1 /\ Len(found) + 1 \in 1 .. Len(found) + 1
        BY <2>6
      <3>5. Range(found') = Reached(m)'
        <4>1. Range(found') = Range(found) \cup {r1}
          BY <2>6, <3>2, <3>3, <3>4 DEF Range
        <4> QED BY <3>1, <4>1
      <3>6. ASSUME NEW k \in DOMAIN found', NEW l \in DOMAIN found', k < l PROVE found'[k][1] < found'[l][1]
        <4>1. k \in 1 .. Len(found)
          BY <2>6, <3>2, <3>6
        <4>2. CASE l \in 1 .. Len(found)
          BY <1>6, <2>6, <3>2, <3>6, <4>1, <4>2 DEF FoundInv
        <4>3. CASE l = Len(found) + 1
          BY <2>4, <2>5, <2>6, <3>2, <4>1, <4>3
        <4> QED BY <3>2, <3>3, <4>2, <4>3
      <3>7. Distinct(found')
        <4> SUFFICES ASSUME NEW k \in DOMAIN found', NEW l \in DOMAIN found', k < l PROVE found'[k] # found'[l]
          <5>1. \A k, l \in DOMAIN found' : k # l => k < l \/ l < k
            BY <2>6, <3>2
          <5> QED BY <5>1 DEF Distinct
        <4>1. found'[k] \in Rows /\ found'[l] \in Rows
          BY <3>2, ElementOfSeq
        <4>2. found'[k][1] \in Int
          BY <4>1 DEF Rows
        <4> SUFFICES ASSUME found'[k] = found'[l] PROVE FALSE
          OBVIOUS
        <4>3. found'[k][1] < found'[l][1] /\ found'[l][1] = found'[k][1]
          BY <3>6
        <4> DEFINE r == found'[k][1]
        <4>4. r \in Int /\ r < r
          BY <4>2, <4>3
        <4> HIDE DEF r
        <4> QED BY <4>4
      <3>8. Len(found') <= ListLimit
        BY <2>6, <2>7, <3>2, SearchAssumption
      <3> QED BY <1>6, <3>2, <3>5, <3>6, <3>7, <3>8 DEF FoundInv
    <2>8. CASE ~(Matches(query.pattern, tree[m]) /\ Len(found) < ListLimit)
      <3>1. found' = found
        <4>1. found' = found \o <<>>
          BY <1>6, <2>2, <2>8
        <4> QED BY <1>3, <4>1, ConcatEmptySeq
      <3>2. CASE ~Matches(query.pattern, tree[m])
        <4>1. Reached(m)' = Reached(n)
          BY <2>3, <3>2
        <4> QED BY <3>1, <4>1 DEF FoundInv
      <3>3. CASE Matches(query.pattern, tree[m])
        <4>1. Reached(m)' = Reached(n) \cup {r1} /\ ~(Len(found) < ListLimit)
          BY <2>3, <2>8, <3>3
        <4>2. \A k \in DOMAIN found : found[k][1] < r1[1]
          BY <2>4, <2>5
        <4>3. \A r \in Reached(m)' \ Range(found), k \in DOMAIN found : found[k][1] < r[1]
          BY <1>6, <4>1, <4>2 DEF FoundInv
        <4>4. Range(found) \subseteq Reached(m)'
          BY <1>3, <4>1
        <4> QED BY <1>6, <3>1, <4>1, <4>3, <4>4 DEF FoundInv
      <3> QED BY <3>2, <3>3
    <2> QED BY <2>7, <2>8
  <1> QED BY <1>4, <1>5, <1>6

-----------------------------------------------------------------------------
(* The searches: the reply                                                 *)

\* Fields of a request that was not refused.
LEMMA QueryFields ==
  ASSUME NEW q \in Queries
  PROVE  /\ q.tool \in {"grep", "glob", "list"} /\ q.scope \in Int /\ q.valid \in BOOLEAN
         /\ q.valid /\ q.tool = "grep" => q.limit \in Int /\ q.mode \in {"content", "files", "count"}
         /\ q.valid /\ q.tool = "glob" => q.limit \in Int
  BY SearchAssumption

\* A walk that has ended has reached everything.
LEMMA AllReached ==
  ASSUME WalkOrder(tree), NEW n \in 0 .. Len(tree), WalkInv(n), walk = {}
  PROVE  Reached(n) = UNION {RowsOf(i) : i \in {j \in DOMAIN tree : Seen(j)}}
  <1>0. DOMAIN tree = 1 .. Len(tree) /\ Len(tree) \in Nat
    BY DEF WalkOrder
  <1>1. ASSUME NEW i \in DOMAIN tree, Seen(i) PROVE i \in 1 .. n
    <2> SUFFICES ASSUME i > n PROVE FALSE
      BY <1>0
    <2>1. Open(i, n)
      BY <1>0, <1>1 DEF Seen, Open, WalkOf
    <2> QED BY <2>1 DEF WalkInv
  <1>2. {j \in 1 .. n : Seen(j)} = {j \in DOMAIN tree : Seen(j)}
    BY <1>0, <1>1
  <1> QED BY <1>2 DEF Reached

\* list_files sees what is directly in its directory.
LEMMA SeenListed ==
  ASSUME WalkOrder(tree), query.tool = "list", NEW i \in DOMAIN tree
  PROVE  Seen(i) <=> /\ tree[i].path # Root /\ Parent(tree[i]) = query.scope
                     /\ tree[i].path \notin missed
  <1>1. WalkOf(query) = {j \in DOMAIN tree : tree[j].path # Root /\ Parent(tree[j]) = query.scope}
    BY DEF WalkOf
  <1>2. \A j, k \in WalkOf(query) : ~Under(tree[j], tree[k].path)
    BY <1>1, SiblingsApart
  <1>3. Seen(i) <=> i \in WalkOf(query) /\ tree[i].path \notin missed
    BY <1>2 DEF Seen, Open
  <1> QED BY <1>1, <1>3

\* grep and glob see the files that are visible.
LEMMA SeenIsVisible ==
  ASSUME WalkOrder(tree), query.tool # "list", NEW n \in Nat, WalkInv(n), NEW i \in DOMAIN tree
  PROVE  Seen(i) <=> tree[i] \in Visible
  <1>0. DOMAIN tree = 1 .. Len(tree) /\ Len(tree) \in Nat
    BY DEF WalkOrder
  <1>1. WalkOf(query) = {j \in DOMAIN tree : tree[j].path = query.scope \/ Under(tree[j], query.scope)}
    BY DEF WalkOf, InScope
  <1>2. tree[i] \in Entries /\ \A d \in Entries : \E j \in DOMAIN tree : d = tree[j]
    BY DEF Entries, Range
  <1>3. ASSUME Seen(i) PROVE tree[i] \in Visible
    <2>1. /\ i \in WalkOf(query) /\ tree[i].path \notin missed
          /\ \A j \in WalkOf(query) : Under(tree[i], tree[j].path) => ~Blocks(j)
      BY <1>0, <1>1, <1>3 DEF Seen, Open
    <2>2. ASSUME NEW p \in missed PROVE ~Under(tree[i], p)
      <3>1. PICK j \in WalkOf(query) : tree[j].path = p
        BY DEF WalkInv
      <3> QED BY <2>1, <3>1 DEF Blocks
    <2>3. ASSUME NEW j \in DOMAIN tree, tree[j].skip, Under(tree[i], tree[j].path), Under(tree[j], query.scope)
          PROVE  FALSE
      <3>1. j \in WalkOf(query)
        BY <1>1, <2>3
      <3>2. tree[j].kind = "dir"
        BY <2>3, UnderIsBehind
      <3>3. tree[j].path # query.scope
        <4> SUFFICES ASSUME Under(tree[j], tree[j].path) PROVE FALSE
          BY <2>3
        <4>1. j < j
          BY UnderIsBehind
        <4> QED BY <1>0, <4>1
      <3>4. Skips(tree[j])
        BY <2>3, <3>2, <3>3 DEF Skips
      <3> QED BY <2>1, <2>3, <3>1, <3>4 DEF Blocks
    <2>4. ~\E d \in Entries : d.skip /\ Under(tree[i], d.path) /\ Under(d, query.scope)
      BY <1>2, <2>3
    <2>5. InScope(tree[i], query.scope)
      BY <1>1, <2>1 DEF InScope
    <2> QED BY <1>2, <2>1, <2>2, <2>4, <2>5 DEF Visible
  <1>4. ASSUME tree[i] \in Visible PROVE Seen(i)
    <2>1. /\ tree[i].path \notin missed /\ \A p \in missed : ~Under(tree[i], p)
          /\ InScope(tree[i], query.scope)
          /\ ~\E d \in Entries : d.skip /\ Under(tree[i], d.path) /\ Under(d, query.scope)
      BY <1>4 DEF Visible
    <2>2. i \in WalkOf(query)
      BY <1>1, <2>1 DEF InScope
    <2>3. ASSUME NEW j \in WalkOf(query), Under(tree[i], tree[j].path) PROVE ~Blocks(j)
      <3>1. tree[j].path \notin missed
        BY <2>1, <2>3
      <3>2. ~Skips(tree[j])
        <4> SUFFICES ASSUME Skips(tree[j]) PROVE FALSE
          OBVIOUS
        <4>1. tree[j].skip /\ tree[j].path # query.scope /\ j \in DOMAIN tree
          BY <1>1 DEF Skips
        <4>2. Under(tree[j], query.scope)
          BY <1>1, <4>1
        <4>3. tree[j] \in Entries
          BY <4>1 DEF Entries, Range
        <4> QED BY <2>1, <2>3, <4>1, <4>2, <4>3
      <3> QED BY <3>1, <3>2 DEF Blocks
    <2> QED BY <2>1, <2>2, <2>3 DEF Seen, Open
  <1> QED BY <1>3, <1>4

\* What grep has found are the matching lines of the texts it can see, as far as it scanned them.
LEMMA RowsOfText ==
  ASSUME query.tool = "grep", NEW i
  PROVE  RowsOf(i) = IF /\ tree[i].kind = "file" /\ Matches(query.pattern, tree[i])
                        /\ ~tree[i].big /\ ~tree[i].binary
                     THEN Lines(tree[i]) ELSE {}
  <1> DEFINE e == tree[i]
             s == [k \in 1 .. e.scanned |-> <<e.path, e.lines[k]>>]
  <1>1. Range(s) = Lines(e)
    BY DEF Range, Lines
  <1>2. Range(<<>>) = {}
    BY DEF Range
  <1>3. RowsOf(i) = Range(ContentHits(e))
    BY DEF RowsOf
  <1>4. ContentHits(e) = IF e.kind = "file" /\ ~e.big /\ Matches(query.pattern, e) /\ ~e.binary THEN s ELSE <<>>
    BY DEF ContentHits, ScanFile
  <1> HIDE DEF e, s
  <1>5. Range(ContentHits(e)) = IF e.kind = "file" /\ Matches(query.pattern, e) /\ ~e.big /\ ~e.binary THEN Lines(e) ELSE {}
    BY <1>1, <1>2, <1>4
  <1> QED BY <1>3, <1>5 DEF e

\* What is to be found, from what has been seen.
LEMMA SeenIsExpected ==
  ASSUME WalkOrder(tree), NEW n \in Nat, WalkInv(n), query.tool \in {"grep", "glob", "list"},
         NEW R, R = UNION {RowsOf(i) : i \in {j \in DOMAIN tree : Seen(j)}}
  PROVE  /\ query.tool # "grep" => R = Expected
         /\ query.tool = "grep" => R = UNION {Lines(e) : e \in Texts}
  <1>1. \A e : e \in Entries <=> \E i \in DOMAIN tree : e = tree[i]
    BY DEF Entries, Range
  <1>2. CASE query.tool = "list"
    <2>1. Expected = {<<e.path, 0>> : e \in {x \in Entries : /\ x.path \notin missed
                        /\ x.path # Root /\ Parent(x) = query.scope /\ Matches(query.pattern, x)}}
      BY <1>2 DEF Expected
    <2>2. \A i : RowsOf(i) = IF Matches(query.pattern, tree[i]) THEN {<<tree[i].path, 0>>} ELSE {}
      BY <1>2 DEF RowsOf
    <2>3. ASSUME NEW r PROVE r \in R <=> \E i \in DOMAIN tree :
               /\ tree[i].path \notin missed /\ tree[i].path # Root /\ Parent(tree[i]) = query.scope
               /\ Matches(query.pattern, tree[i]) /\ r = <<tree[i].path, 0>>
      <3>1. r \in R <=> \E i \in DOMAIN tree : Seen(i) /\ r \in RowsOf(i)
        OBVIOUS
      <3> QED BY <1>2, <2>2, <3>1, SeenListed
    <2>4. ASSUME NEW r PROVE r \in Expected <=> \E i \in DOMAIN tree :
               /\ tree[i].path \notin missed /\ tree[i].path # Root /\ Parent(tree[i]) = query.scope
               /\ Matches(query.pattern, tree[i]) /\ r = <<tree[i].path, 0>>
      BY <1>1, <2>1
    <2> QED BY <1>2, <2>3, <2>4
  <1>3. CASE query.tool = "glob"
    <2>1. Expected = {<<e.path, e.mtime>> : e \in {x \in Visible : x.kind = "file" /\ Matches(query.pattern, x)}}
      BY <1>3 DEF Expected
    <2>2. \A i : RowsOf(i) = IF tree[i].kind = "file" /\ Matches(query.pattern, tree[i])
                             THEN {<<tree[i].path, tree[i].mtime>>} ELSE {}
      <3>1. ASSUME NEW x PROVE Range(<<x>>) = {x}
        <4>1. <<x>> = [k \in 1 .. 1 |-> x]
          OBVIOUS
        <4>2. \A k \in 1 .. 1 : k = 1
          OBVIOUS
        <4>3. 1 \in 1 .. 1
          OBVIOUS
        <4> QED BY <4>1, <4>2, <4>3 DEF Range
      <3>2. Range(<<>>) = {}
        BY DEF Range
      <3>3. \A i : RowsOf(i) = Range(PathHits(tree[i]))
        BY <1>3 DEF RowsOf
      <3> QED BY <3>1, <3>2, <3>3 DEF PathHits
    <2>3. ASSUME NEW r PROVE r \in R <=> \E i \in DOMAIN tree :
               /\ tree[i] \in Visible /\ tree[i].kind = "file" /\ Matches(query.pattern, tree[i])
               /\ r = <<tree[i].path, tree[i].mtime>>
      <3>1. r \in R <=> \E i \in DOMAIN tree : Seen(i) /\ r \in RowsOf(i)
        OBVIOUS
      <3>2. \A i \in DOMAIN tree : Seen(i) <=> tree[i] \in Visible
        BY <1>3, SeenIsVisible
      <3> QED BY <2>2, <3>1, <3>2
    <2>4. Visible \subseteq Entries
      BY DEF Visible
    <2>5. ASSUME NEW r PROVE r \in Expected <=> \E i \in DOMAIN tree :
               /\ tree[i] \in Visible /\ tree[i].kind = "file" /\ Matches(query.pattern, tree[i])
               /\ r = <<tree[i].path, tree[i].mtime>>
      BY <1>1, <2>1, <2>4
    <2> QED BY <1>3, <2>3, <2>5
  <1>4. CASE query.tool = "grep"
    <2>1. \A i \in DOMAIN tree : Seen(i) <=> tree[i] \in Visible
      BY <1>4, SeenIsVisible
    <2>2. \A i \in DOMAIN tree : tree[i] \in Texts <=> /\ Seen(i) /\ tree[i].kind = "file"
                 /\ Matches(query.pattern, tree[i]) /\ ~tree[i].big /\ ~tree[i].binary
      BY <2>1 DEF Texts
    <2>3. \A e \in Texts : \E i \in DOMAIN tree : e = tree[i]
      BY <1>1 DEF Texts, Visible
    <2>4. \A i \in DOMAIN tree : Seen(i) => RowsOf(i) = IF tree[i] \in Texts THEN Lines(tree[i]) ELSE {}
      BY <1>4, <2>2, RowsOfText
    <2>5. ASSUME NEW r PROVE r \in R <=> \E i \in DOMAIN tree : tree[i] \in Texts /\ r \in Lines(tree[i])
      BY <2>2, <2>4
    <2>6. R = UNION {Lines(e) : e \in Texts}
      BY <2>3, <2>5
    <2> QED BY <1>4, <2>6
  <1> QED BY <1>2, <1>3, <1>4

\* What grep found in a file, when everything has been reached.
LEMMA FoundInTexts ==
  ASSUME WalkOrder(tree), found \in Seq(Rows), Distinct(found), Range(found) = UNION {Lines(e) : e \in Texts}
  PROVE  /\ PathsOf(found) = {e.path : e \in {x \in Texts : x.scanned > 0}}
         /\ \A e \in Texts : Cardinality({i \in DOMAIN found : found[i][1] = e.path}) = e.scanned
  <1>1. ASSUME NEW e \in Texts
        PROVE  /\ e \in Entries /\ e.path \in Nat /\ e.lines \in Seq(Nat) /\ e.scanned \in 0 .. Len(e.lines)
               /\ \A k, l \in DOMAIN e.lines : k < l => e.lines[k] < e.lines[l]
    <2>1. e \in Entries
      BY DEF Texts, Visible
    <2>2. PICK i \in DOMAIN tree : e = tree[i]
      BY <2>1 DEF Entries, Range
    <2> QED BY <2>1, <2>2 DEF WalkOrder
  <1>2. \A e, f \in Texts : e.path = f.path => e = f
    <2> SUFFICES ASSUME NEW e \in Entries, NEW f \in Entries, e.path = f.path PROVE e = f
      BY <1>1
    <2>1. PICK i \in DOMAIN tree, j \in DOMAIN tree : e = tree[i] /\ f = tree[j]
      BY DEF Entries, Range
    <2>2. i = j
      BY <2>1, PathsAreUnique
    <2> QED BY <2>1, <2>2
  <1>3. \A r : r \in Range(found) <=> \E e \in Texts : \E k \in 1 .. e.scanned : r = <<e.path, e.lines[k]>>
    BY DEF Lines
  <1>4. DOMAIN found = 1 .. Len(found) /\ Len(found) \in Nat
    OBVIOUS
  <1>5. ASSUME NEW i \in DOMAIN found
        PROVE  \E e \in Texts : \E k \in 1 .. e.scanned : found[i] = <<e.path, e.lines[k]>>
    BY <1>3, <1>5 DEF Range
  <1>6. ASSUME NEW e \in Texts, NEW k \in 1 .. e.scanned
        PROVE  \E i \in DOMAIN found : found[i] = <<e.path, e.lines[k]>>
    <2>1. <<e.path, e.lines[k]>> \in Range(found)
      BY <1>3
    <2> QED BY <2>1 DEF Range
  <1>7. PathsOf(found) = {e.path : e \in {x \in Texts : x.scanned > 0}}
    <2>1. ASSUME NEW i \in DOMAIN found PROVE \E e \in Texts : e.scanned > 0 /\ found[i][1] = e.path
      <3>1. PICK e \in Texts : \E k \in 1 .. e.scanned : found[i] = <<e.path, e.lines[k]>>
        BY <1>5
      <3>2. found[i][1] = e.path
        BY <3>1
      <3>3. e.scanned > 0
        <4>1. e.scanned \in Nat
          BY <1>1
        <4>2. \E k \in 1 .. e.scanned : TRUE
          BY <3>1
        <4> QED BY <4>1, <4>2
      <3> QED BY <3>2, <3>3
    <2>2. ASSUME NEW e \in Texts, e.scanned > 0 PROVE \E i \in DOMAIN found : found[i][1] = e.path
      <3>1. e.scanned \in Nat
        BY <1>1
      <3>2. 1 \in 1 .. e.scanned
        BY <2>2, <3>1
      <3>3. PICK i \in DOMAIN found : found[i] = <<e.path, e.lines[1]>>
        BY <1>6, <3>2
      <3> QED BY <3>3
    <2> QED BY <2>1, <2>2 DEF PathsOf
  <1>8. ASSUME NEW e \in Texts
        PROVE  Cardinality({i \in DOMAIN found : found[i][1] = e.path}) = e.scanned
    <2> DEFINE I == {i \in DOMAIN found : found[i][1] = e.path}
               N == 1 .. e.scanned
               g == [i \in I |-> found[i]]
               h == [k \in N |-> <<e.path, e.lines[k]>>]
    <2>1. N \subseteq DOMAIN e.lines /\ e.scanned \in Nat /\ \A k \in N : e.lines[k] \in Nat
      BY <1>1, ElementOfSeq
    <2>2. h \in Bijection(N, Lines(e))
      <3>1. h \in Surjection(N, Lines(e))
        BY <2>1 DEF Lines, Surjection
      <3>2. \A k, l \in N : k # l => h[k] # h[l]
        <4> SUFFICES ASSUME NEW k \in N, NEW l \in N, k # l PROVE e.lines[k] # e.lines[l]
          OBVIOUS
        <4>1. k < l \/ l < k
          BY <2>1
        <4>2. e.lines[k] < e.lines[l] \/ e.lines[l] < e.lines[k]
          BY <1>1, <2>1, <4>1
        <4> QED BY <2>1, <4>2
      <3> HIDE DEF h
      <3> QED BY <3>1, <3>2 DEF Bijection, Injection, Surjection, IsInjective
    <2>3. g \in Bijection(I, Lines(e))
      <3>1. ASSUME NEW i \in I PROVE found[i] \in Lines(e)
        <4>1. PICK f \in Texts : \E k \in 1 .. f.scanned : found[i] = <<f.path, f.lines[k]>>
          BY <1>5
        <4>2. f.path = e.path
          BY <4>1
        <4>3. f = e
          BY <1>2, <4>2
        <4> QED BY <4>1, <4>3 DEF Lines
      <3>2. ASSUME NEW r \in Lines(e) PROVE \E i \in I : found[i] = r
        <4>1. PICK k \in 1 .. e.scanned : r = <<e.path, e.lines[k]>>
          BY DEF Lines
        <4>2. PICK i \in DOMAIN found : found[i] = <<e.path, e.lines[k]>>
          BY <1>6
        <4>3. found[i][1] = e.path
          BY <4>2
        <4> QED BY <4>1, <4>2, <4>3
      <3>3. \A i, j \in I : i # j => found[i] # found[j]
        BY DEF Distinct
      <3> HIDE DEF I
      <3>4. g \in [I -> Lines(e)]
        BY <3>1
      <3> QED BY <3>2, <3>3, <3>4 DEF Bijection, Injection, Surjection, IsInjective
    <2>4. IsFiniteSet(I)
      <3>1. IsFiniteSet(DOMAIN found)
        BY <1>4, FS_Interval
      <3>2. I \in SUBSET DOMAIN found
        OBVIOUS
      <3> HIDE DEF I
      <3> QED BY <3>1, <3>2, FS_Subset
    <2>5. IsFiniteSet(N) /\ Cardinality(N) = e.scanned
      <3>1. PICK m \in Nat : m = e.scanned
        BY <2>1
      <3>2. IsFiniteSet(1 .. m) /\ Cardinality(1 .. m) = IF 1 > m THEN 0 ELSE m - 1 + 1
        BY FS_Interval
      <3>3. Cardinality(1 .. m) = m
        BY <3>2
      <3> QED BY <3>1, <3>2, <3>3
    <2> HIDE DEF I, N, g, h
    <2>6. Cardinality(I) = Cardinality(Lines(e)) /\ Cardinality(N) = Cardinality(Lines(e))
      <3>1. ExistsBijection(I, Lines(e)) /\ ExistsBijection(N, Lines(e))
        BY <2>2, <2>3 DEF ExistsBijection
      <3> QED BY <2>4, <2>5, <3>1, FS_Bijection
    <2>7. Cardinality(I) = e.scanned
      BY <2>5, <2>6
    <2> QED BY <2>7 DEF I
  <1> QED BY <1>7, <1>8

\* Rows made of the paths that were found.
LEMMA PathRows ==
  ASSUME found \in Seq(Rows), NEW c \in [PathsOf(found) -> Nat]
  PROVE  {<<p, c[p]>> : p \in PathsOf(found)} \in SUBSET Rows /\ IsFiniteSet({<<p, c[p]>> : p \in PathsOf(found)})
  <1> DEFINE S == {<<p, c[p]>> : p \in PathsOf(found)}
             f == [i \in DOMAIN found |-> <<found[i][1], c[found[i][1]]>>]
  <1>1. DOMAIN found = 1 .. Len(found) /\ Len(found) \in Nat /\ \A i \in DOMAIN found : found[i][1] \in Int
    <2>1. \A i \in DOMAIN found : found[i] \in Rows
      BY ElementOfSeq
    <2> QED BY <2>1 DEF Rows
  <1>2. PathsOf(found) \in SUBSET Int
    BY <1>1 DEF PathsOf
  <1>3. S \in SUBSET Rows
    BY <1>2 DEF Rows
  <1>4. IsFiniteSet(DOMAIN found)
    BY <1>1, FS_Interval
  <1>5. f \in Surjection(DOMAIN found, S)
    BY DEF Surjection, PathsOf
  <1> HIDE DEF S, f
  <1>6. IsFiniteSet(S)
    BY <1>4, <1>5, FS_Surjection
  <1> QED BY <1>3, <1>6 DEF S

\* A limited answer is what was promised.
LEMMA ExactAnswer ==
  ASSUME query.tool \in {"grep", "glob"}, query.limit \in Int, NEW result, NEW limit,
         query.tool = "grep" => limit = HeadLimit(query.limit),
         query.tool = "glob" => limit = MaxResults(query.limit),
         Exact(result, Expected, limit)
  PROVE  IsExact(result)
  <1>1. \/ ~(limit > 0) /\ query.tool = "glob" /\ query.limit < 0
        \/ /\ limit = IF query.limit > 0 THEN query.limit
                      ELSE IF query.tool = "grep" THEN DefaultHeadLimit
                      ELSE DefaultPathsMaxResults
           /\ ~(query.tool = "glob" /\ query.limit < 0)
    BY SearchAssumption DEF HeadLimit, MaxResults
  <1>2. query.tool # "list"
    OBVIOUS
  <1> DEFINE got == Range(result.items)
  <1>3. /\ got \subseteq Expected
        /\ \A i \in 1 .. Len(result.items) - 1 : Order(result.items[i], result.items[i + 1])
        /\ \A x \in Expected \ got, y \in got : Order(y, x)
        /\ result.total = Cardinality(Expected)
        /\ result.truncated <=> got # Expected
        /\ got # Expected => limit > 0 /\ Len(result.items) = limit
    BY DEF Exact
  <1>4. got # Expected =>
           Len(result.items) = IF query.tool = "list" THEN ListLimit
                               ELSE IF query.limit > 0 THEN query.limit
                               ELSE IF query.tool = "grep" THEN DefaultHeadLimit
                               ELSE DefaultPathsMaxResults
    BY <1>1, <1>2, <1>3
  <1>5. query.tool = "glob" /\ query.limit < 0 => got = Expected
    BY <1>1, <1>3
  <1> QED BY <1>2, <1>3, <1>4, <1>5 DEF IsExact

\* What a call has to answer depends on the files, the request and what could not be read.
LEMMA ExactStays ==
  ASSUME UNCHANGED <<tree, query, missed>>, NEW result
  PROVE  IsExact(result)' <=> IsExact(result)
  <1>1. \A a, b : Order(a, b)' <=> Order(a, b)
    BY DEF Order, ByPath, MtimeDesc
  <1>2. Visible' = Visible
    BY DEF Visible, Entries, InScope, Under
  <1>3. Texts' = Texts
    BY <1>2 DEF Texts, Matches
  <1>4. Expected' = Expected
    BY <1>2, <1>3 DEF Expected, Entries, Lines, Matches, Parent
  <1> QED BY <1>1, <1>4 DEF IsExact

-----------------------------------------------------------------------------
(* The searches: one lemma per action                                      *)

\* In the initial states.
LEMMA SearchInitial == SearchInit => SearchInv
  BY DEF SearchInit, SearchInv, SearchIsExact, NoReply

\* Begin: a refusal, or a walk that has not come by anything yet.
LEMMA BeginStep ==
  ASSUME SearchInv, NEW q \in Queries, Begin(q)
  PROVE  SearchInv'
  <1>1. /\ query = NoQuery /\ query' = q /\ UNCHANGED <<tree, found, cancelled, missed>>
        /\ tree \in Trees /\ reply = NoReply /\ walk = {} /\ found = <<>> /\ missed = {}
    BY DEF Begin, SearchInv
  <1>2. query' # NoQuery
    <2>1. q.tool # NoQuery.tool
      BY QueryFields DEF NoQuery
    <2> QED BY <1>1, <2>1
  <1>3. CASE Refused(q)
    <2>1. reply' = Refusal
      BY <1>3 DEF Begin
    <2>2. reply'.kind # "items" /\ reply' # NoReply
      BY <2>1 DEF Refusal, NoReply
    <2> QED BY <1>1, <1>2, <2>2 DEF SearchInv, SearchIsExact
  <1>4. CASE ~Refused(q)
    <2>1. walk' = WalkOf(q) /\ reply' = NoReply /\ q.valid
      BY <1>1, <1>4 DEF Begin, Refused
    <2>2. WalkOrder(tree) /\ DOMAIN tree = 1 .. Len(tree) /\ Len(tree) \in Nat
      BY <1>1, SearchAssumption DEF WalkOrder
    <2>3. WalkOf(query)' = WalkOf(q) /\ WalkOf(q) \subseteq DOMAIN tree
      BY <1>1 DEF WalkOf
    <2>4. \A i : Open(i, 0)' <=> i \in WalkOf(q)
      <3>1. \A j \in WalkOf(q) : ~(j <= 0)
        BY <2>2, <2>3
      <3> QED BY <2>3, <3>1 DEF Open
    <2>5. WalkInv(0)'
      <3>1. walk' = {i \in DOMAIN tree : i > 0 /\ Open(i, 0)'}
        BY <2>1, <2>2, <2>3, <2>4
      <3> QED BY <1>1, <3>1 DEF WalkInv
    <2>6. FoundInv(0)'
      <3>1. found' = <<>> /\ Reached(0)' = {}
        BY <1>1 DEF Reached
      <3>2. <<>> \in Seq(Rows) /\ Distinct(<<>>) /\ Range(<<>>) = {} /\ Len(<<>>) = 0 /\ DOMAIN <<>> = {}
        BY DEF Distinct, Range
      <3>3. 0 <= ListLimit
        BY SearchAssumption
      <3> QED BY <3>1, <3>2, <3>3 DEF FoundInv
    <2>7. SearchIsExact'
      BY <2>1 DEF SearchIsExact, NoReply
    <2>8. 0 \in 0 .. Len(tree)
      BY <2>2
    <2> QED BY <1>1, <1>2, <2>1, <2>5, <2>6, <2>7, <2>8 DEF SearchInv
  <1> QED BY <1>3, <1>4

\* Visit: the call is cancelled, the entry is read, or it cannot be read.
LEMMA VisitStep ==
  ASSUME SearchInv, Visit
  PROVE  SearchInv'
  <1>1. /\ reply = NoReply /\ walk # {} /\ UNCHANGED <<tree, query, cancelled>>
        /\ query # NoQuery /\ query \in Queries /\ query.valid /\ tree \in Trees
    BY DEF Visit, SearchInv
  <1>2. PICK n \in 0 .. Len(tree) : WalkInv(n) /\ FoundInv(n)
    BY <1>1 DEF SearchInv
  <1>3. WalkOrder(tree) /\ Len(tree) \in Nat /\ n \in Nat
    <2>1. WalkOrder(tree)
      BY <1>1, SearchAssumption
    <2>2. Len(tree) \in Nat
      BY <2>1 DEF WalkOrder
    <2> QED BY <2>1, <2>2
  <1>0. PICK m : m = Min(walk)
    OBVIOUS
  <1> DEFINE read == walk' = (IF Skips(tree[m]) THEN Beside(m) ELSE walk \ {m}) /\ found' = found \o Hits(tree[m])
                       /\ missed' = missed
             lost == missed' = missed \cup {tree[m].path} /\ walk' = Beside(m) /\ found' = found
  <1>4. \/ reply' = Refusal
        \/ reply' = NoReply /\ (read \/ lost)
    BY <1>0, <1>1 DEF Visit
  <1>5. CASE reply' = Refusal
    <2>1. reply'.kind # "items" /\ reply' # NoReply
      BY <1>5 DEF Refusal, NoReply
    <2> QED BY <1>1, <2>1 DEF SearchInv, SearchIsExact
  <1>6. CASE reply' = NoReply /\ (read \/ lost)
    <2>1. tree[m].path \notin missed
      <3>1. walk \in SUBSET Nat
        BY <1>2, <1>3 DEF WalkInv, WalkOrder
      <3>2. m \in walk
        BY <1>0, <1>1, <3>1, MinOfWalk
      <3>3. m \in DOMAIN tree /\ m > n
        BY <1>2, <3>2 DEF WalkInv
      <3> SUFFICES ASSUME tree[m].path \in missed PROVE FALSE
        OBVIOUS
      <3>4. PICK j \in WalkOf(query) : j <= n /\ tree[j].path = tree[m].path
        BY <1>2 DEF WalkInv
      <3>5. j = m
        BY <1>3, <3>3, <3>4, PathsAreUnique DEF WalkOf
      <3> QED BY <1>3, <3>3, <3>4, <3>5 DEF WalkOrder
    <2>2. missed' = missed \/ missed' = missed \cup {tree[m].path}
      BY <1>6
    <2>3. walk' = IF missed' # missed \/ Skips(tree[m]) THEN Beside(m) ELSE walk \ {m}
      BY <1>6, <2>1
    <2>4. found' = IF missed' = missed THEN found \o Hits(tree[m]) ELSE found
      BY <1>6, <2>1
    <2> HIDE DEF read, lost
    <2>6. /\ m \in WalkOf(query) /\ m \in n + 1 .. Len(tree)
          /\ WalkInv(m)'
          /\ \A i \in 1 .. n : Seen(i)' <=> Seen(i)
          /\ \A i \in n + 1 .. m - 1 : ~Seen(i)'
          /\ Seen(m)' <=> missed' = missed
      BY <1>0, <1>1, <1>2, <1>3, <2>2, <2>3, VisitWalk
    <2>7. Reached(m)' = Reached(n) \cup (IF missed' = missed THEN RowsOf(m) ELSE {})
      BY <1>1, <1>3, <2>6, ReachedStep
    <2>8. FoundInv(m)'
      <3>1. query.tool \in {"grep", "glob", "list"}
        BY <1>1, QueryFields
      <3> QED BY <1>1, <1>2, <1>3, <2>4, <2>6, <2>7, <3>1, VisitFound
    <2>9. SearchIsExact'
      BY <1>6 DEF SearchIsExact, NoReply
    <2>10. m \in 0 .. Len(tree)
      BY <1>3, <2>6
    <2> QED BY <1>1, <2>6, <2>8, <2>9, <2>10 DEF SearchInv
  <1> QED BY <1>4, <1>5, <1>6

\* The answer of grep, by its output mode.
LEMMA GrepAnswer ==
  ASSUME WalkOrder(tree), query \in Queries, query.valid, query.tool = "grep",
         found \in Seq(Rows), Distinct(found), Range(found) = UNION {Lines(e) : e \in Texts},
         NEW result,
         result = CASE query.mode = "content" -> BuildContentOutput
                    [] query.mode = "files"   -> BuildFilesOutput
                    [] query.mode = "count"   -> BuildCountOutput
  PROVE  IsExact(result)
  <1>1. query.limit \in Int /\ query.mode \in {"content", "files", "count"}
    BY QueryFields
  <1> DEFINE lim == HeadLimit(query.limit)
  <1>2. lim \in Int
    BY <1>1, SearchAssumption DEF HeadLimit
  <1>3. SUFFICES Exact(result, Expected, lim)
    BY <1>1, ExactAnswer
  <1>4. CASE query.mode = "content"
    <2>1. result = Capped(Sorted(found), lim)
      BY <1>4 DEF BuildContentOutput
    <2>2. Expected = Range(found)
      BY <1>4 DEF Expected
    <2> HIDE DEF lim
    <2> QED BY <1>2, <2>1, <2>2, CappedIsExact
  <1>5. CASE query.mode = "files"
    <2> DEFINE c == [p \in PathsOf(found) |-> 0]
               S == {<<p, c[p]>> : p \in PathsOf(found)}
    <2>1. S = {<<p, 0>> : p \in PathsOf(found)}
      OBVIOUS
    <2>2. Expected = {<<e.path, 0>> : e \in {x \in Texts : x.scanned > 0}}
      BY <1>5 DEF Expected
    <2>3. PathsOf(found) = {e.path : e \in {x \in Texts : x.scanned > 0}}
      BY FoundInTexts
    <2>4. S = Expected
      BY <2>1, <2>2, <2>3
    <2>5. result = Capped(Sorted(SetToSeq(S)), lim)
      BY <1>5, <2>1 DEF BuildFilesOutput
    <2>6. c \in [PathsOf(found) -> Nat]
      OBVIOUS
    <2>7. S \in SUBSET Rows /\ IsFiniteSet(S)
      <3> HIDE DEF c
      <3> QED BY <2>6, PathRows
    <2> HIDE DEF S, lim
    <2>8. SetToSeq(S) \in Seq(Rows) /\ Distinct(SetToSeq(S)) /\ Range(SetToSeq(S)) = S
      BY <2>7, SetToSeqIsDistinct
    <2> DEFINE rows == SetToSeq(S)
    <2> HIDE DEF rows
    <2>9. Exact(Capped(Sorted(rows), lim), Range(rows), lim)
      BY <1>2, <2>8, CappedIsExact DEF rows
    <2> QED BY <2>4, <2>5, <2>8, <2>9 DEF rows
  <1>6. CASE query.mode = "count"
    <2> DEFINE count(p) == Cardinality({i \in DOMAIN found : found[i][1] = p})
               c == [p \in PathsOf(found) |-> count(p)]
               S == {<<p, c[p]>> : p \in PathsOf(found)}
    <2>1. S = {<<p, count(p)>> : p \in PathsOf(found)}
      OBVIOUS
    <2>2. Expected = {<<e.path, e.scanned>> : e \in {x \in Texts : x.scanned > 0}}
      BY <1>6 DEF Expected
    <2>3. /\ PathsOf(found) = {e.path : e \in {x \in Texts : x.scanned > 0}}
          /\ \A e \in Texts : count(e.path) = e.scanned
      BY FoundInTexts
    <2>4. result = Capped(Sorted(SetToSeq({<<p, count(p)>> : p \in PathsOf(found)})), lim)
      BY <1>6 DEF BuildCountOutput
    <2>5. \A e \in Texts : e.scanned \in Nat
      <3> SUFFICES ASSUME NEW e \in Texts PROVE e.scanned \in Nat
        OBVIOUS
      <3>1. PICK i \in DOMAIN tree : e = tree[i]
        BY DEF Texts, Visible, Entries, Range
      <3>2. e.lines \in Seq(Nat) /\ e.scanned \in 0 .. Len(e.lines)
        BY <3>1 DEF WalkOrder
      <3> QED BY <3>2
    <2> HIDE DEF count
    <2>6. c \in [PathsOf(found) -> Nat]
      BY <2>3, <2>5
    <2>7. S = Expected
      <3>1. \A r : r \in S <=> \E e \in Texts : e.scanned > 0 /\ r = <<e.path, count(e.path)>>
        BY <2>1, <2>3
      <3>2. \A r : r \in Expected <=> \E e \in Texts : e.scanned > 0 /\ r = <<e.path, e.scanned>>
        BY <2>2
      <3> HIDE DEF S
      <3> QED BY <2>3, <3>1, <3>2
    <2>8. result = Capped(Sorted(SetToSeq(S)), lim)
      BY <2>1, <2>4
    <2>9. S \in SUBSET Rows /\ IsFiniteSet(S)
      <3> HIDE DEF c
      <3> QED BY <2>6, PathRows
    <2> HIDE DEF S, lim
    <2>10. SetToSeq(S) \in Seq(Rows) /\ Distinct(SetToSeq(S)) /\ Range(SetToSeq(S)) = S
      BY <2>9, SetToSeqIsDistinct
    <2> DEFINE rows == SetToSeq(S)
    <2> HIDE DEF rows
    <2>11. Exact(Capped(Sorted(rows), lim), Range(rows), lim)
      BY <1>2, <2>10, CappedIsExact DEF rows
    <2> QED BY <2>7, <2>8, <2>10, <2>11 DEF rows
  <1> QED BY <1>1, <1>4, <1>5, <1>6

\* The answer of list_files, which is cut off already.
LEMMA ListAnswer ==
  ASSUME query.tool = "list", NEW n \in Nat, FoundInv(n), Reached(n) = Expected
  PROVE  IsExact(Listed(found, Len(found)))
  <1> DEFINE result == Listed(found, Len(found))
  <1>1. result.items = found
    BY DEF Listed
  <1>2. /\ found \in Seq(Rows) /\ Range(found) \subseteq Expected
        /\ Len(found) <= ListLimit /\ (Len(found) < ListLimit => Range(found) = Expected)
        /\ \A k, l \in DOMAIN found : k < l => found[k][1] < found[l][1]
        /\ \A r \in Expected \ Range(found), k \in DOMAIN found : found[k][1] < r[1]
    BY DEF FoundInv
  <1>3. DOMAIN found = 1 .. Len(found) /\ Len(found) \in Nat /\ ListLimit \in Nat
    BY <1>2, SearchAssumption
  <1>4. \A a, b : Order(a, b) <=> ByPath(a, b)
    BY DEF Order
  <1>5. \A i \in 1 .. Len(found) - 1 : Order(found[i], found[i + 1])
    <2> SUFFICES ASSUME NEW i \in 1 .. Len(found) - 1 PROVE Order(found[i], found[i + 1])
      OBVIOUS
    <2>1. i \in DOMAIN found /\ i + 1 \in DOMAIN found /\ i < i + 1
      BY <1>3
    <2> QED BY <1>2, <1>4, <2>1 DEF ByPath
  <1>6. \A x \in Expected \ Range(found), y \in Range(found) : Order(y, x)
    <2> SUFFICES ASSUME NEW x \in Expected \ Range(found), NEW k \in DOMAIN found PROVE Order(found[k], x)
      BY DEF Range
    <2> QED BY <1>2, <1>4 DEF ByPath
  <1>7. Range(found) # Expected => Len(found) = ListLimit
    <2> SUFFICES ASSUME Range(found) # Expected PROVE Len(found) = ListLimit
      OBVIOUS
    <2>1. Len(found) <= ListLimit /\ ~(Len(found) < ListLimit)
      BY <1>2
    <2>2. Len(found) \in Nat /\ ListLimit \in Nat
      BY <1>3
    <2> QED BY <2>1, <2>2
  <1> HIDE DEF result
  <1>8. IsExact(result)
    BY <1>1, <1>2, <1>5, <1>6, <1>7 DEF IsExact
  <1> QED BY <1>8 DEF result

\* Reply: everything has been reached, and the answer is made of it.
LEMMA ReplyStep ==
  ASSUME SearchInv, Reply
  PROVE  SearchInv'
  <1>1. /\ reply = NoReply /\ walk = {} /\ UNCHANGED <<tree, query, walk, found, cancelled, missed>>
        /\ query # NoQuery /\ query \in Queries /\ query.valid /\ tree \in Trees
    BY DEF Reply, SearchInv
  <1>2. PICK n \in 0 .. Len(tree) : WalkInv(n) /\ FoundInv(n)
    BY <1>1 DEF SearchInv
  <1>3. WalkOrder(tree) /\ Len(tree) \in Nat /\ n \in Nat
    <2>1. WalkOrder(tree)
      BY <1>1, SearchAssumption
    <2>2. Len(tree) \in Nat
      BY <2>1 DEF WalkOrder
    <2> QED BY <2>1, <2>2
  <1>4. query.tool \in {"grep", "glob", "list"}
    BY <1>1, QueryFields
  <1>5. /\ query.tool # "grep" => Reached(n) = Expected
        /\ query.tool = "grep" => Reached(n) = UNION {Lines(e) : e \in Texts}
    <2>1. Reached(n) = UNION {RowsOf(i) : i \in {j \in DOMAIN tree : Seen(j)}}
      BY <1>1, <1>2, <1>3, AllReached
    <2> QED BY <1>2, <1>3, <1>4, <2>1, SeenIsExpected
  <1>6. IsExact(reply')
    <2>1. CASE query.tool = "grep"
      <3>1. found \in Seq(Rows) /\ Distinct(found) /\ Range(found) = UNION {Lines(e) : e \in Texts}
        BY <1>2, <1>5, <2>1 DEF FoundInv
      <3>2. reply' = CASE query.mode = "content" -> BuildContentOutput
                       [] query.mode = "files"   -> BuildFilesOutput
                       [] query.mode = "count"   -> BuildCountOutput
        BY <2>1 DEF Reply
      <3> QED BY <1>1, <1>3, <2>1, <3>1, <3>2, GrepAnswer
    <2>2. CASE query.tool = "glob"
      <3>1. found \in Seq(Rows) /\ Distinct(found) /\ Range(found) = Expected
        BY <1>2, <1>5, <2>2 DEF FoundInv
      <3>2. query.limit \in Int
        BY <1>1, <2>2, QueryFields
      <3>3. reply' = Capped(Sorted(found), MaxResults(query.limit))
        BY <2>2 DEF Reply, BuildPaths
      <3>4. MaxResults(query.limit) \in Int
        BY <3>2, SearchAssumption DEF MaxResults
      <3>5. Exact(reply', Expected, MaxResults(query.limit))
        BY <3>1, <3>3, <3>4, CappedIsExact
      <3> QED BY <2>2, <3>2, <3>5, ExactAnswer
    <2>3. CASE query.tool = "list"
      <3>1. reply' = Listed(found, Len(found))
        BY <2>3 DEF Reply
      <3> QED BY <1>2, <1>3, <1>5, <2>3, <3>1, ListAnswer
    <2> QED BY <1>4, <2>1, <2>2, <2>3
  <1>7. SearchIsExact'
    BY <1>1, <1>6, ExactStays DEF SearchIsExact
  <1>8. reply' # NoReply
    <2>1. \A rows, limit : Capped(rows, limit).kind = "items"
      BY DEF Capped, Listed
    <2>2. \A items, size : Listed(items, size).kind = "items"
      BY DEF Listed
    <2>3. query.tool = "grep" => query.mode \in {"content", "files", "count"}
      BY <1>1, QueryFields
    <2>4. reply'.kind = "items"
      BY <1>4, <2>1, <2>2, <2>3 DEF Reply, BuildPaths, BuildContentOutput, BuildFilesOutput, BuildCountOutput
    <2> QED BY <2>4 DEF NoReply
  <1> QED BY <1>1, <1>7, <1>8 DEF SearchInv

\* Steps that leave the files, the request, the walk and the matches alone.
LEMMA SearchStays ==
  ASSUME SearchInv, UNCHANGED <<tree, query, walk, found, reply, missed>>
  PROVE  SearchInv'
  <1>1. SearchIsExact'
    BY ExactStays DEF SearchInv, SearchIsExact
  <1>2. WalkOf(query)' = WalkOf(query)
    BY DEF WalkOf
  <1>3. \A i, n : Open(i, n)' <=> Open(i, n)
    BY <1>2 DEF Open, Blocks, Skips
  <1>4. \A n : WalkInv(n)' <=> WalkInv(n)
    BY <1>2, <1>3 DEF WalkInv
  <1>5. \A n : Reached(n)' = Reached(n)
    BY <1>3 DEF Reached, Seen, RowsOf, ContentHits, PathHits
  <1>6. \A n : FoundInv(n)' <=> FoundInv(n)
    BY <1>5 DEF FoundInv
  <1> QED BY <1>1, <1>4, <1>6 DEF SearchInv

-----------------------------------------------------------------------------
(* The searches: the theorems                                              *)

\* SearchInv holds in every reachable state: the walk has come to some entry, what it still
\* has to visit is what nothing before it has closed off, and the matches are those of the
\* entries it could read, each as far as its scan went (the scanner's error is never looked at).
THEOREM SearchInvariance == SearchSpec => []SearchInv
  <1>1. SearchInv /\ [SearchNext]_searchVars => SearchInv'
    <2> SUFFICES ASSUME SearchInv, [SearchNext]_searchVars PROVE SearchInv'
      OBVIOUS
    <2>1. CASE \E q \in Queries : Begin(q)
      BY <2>1, BeginStep
    <2>2. CASE Visit
      BY <2>2, VisitStep
    <2>3. CASE Cancel
      BY <2>3, SearchStays DEF Cancel
    <2>4. CASE Reply
      BY <2>4, ReplyStep
    <2>5. CASE UNCHANGED searchVars
      BY <2>5, SearchStays DEF searchVars
    <2> QED BY <2>1, <2>2, <2>3, <2>4, <2>5 DEF SearchNext
  <1> QED BY <1>1, SearchInitial, PTL DEF SearchSpec

\* SearchIsExact: the answer of grep, glob and list_files is the first of what the search
\* reached, in order, every result once and with their number, whatever the tree, the request,
\* the entries that could not be read and the files whose scan broke off. It does not say that
\* grep's number counts the lines behind such a break: it does not.
THEOREM SearchExact == SearchSpec => []SearchIsExact
  <1>1. SearchInv => SearchIsExact
    BY DEF SearchInv
  <1> QED BY <1>1, SearchInvariance, PTL
=============================================================================
