------------------------------ MODULE EdgeProofs -------------------------------
(***************************************************************************)
(* The detection queue and the frame loop of the edge, for any results,    *)
(* sizes and limits, zero included, and any cameras, buffers and models.   *)
(***************************************************************************)
EXTENDS DetectionQueue, FrameLoop, Induction, SequenceTheorems

-----------------------------------------------------------------------------
(* The sum of the bytes of a sequence of items, a recursive function.  What  *)
(* it is on the empty sequence, on a longer one and on a tail is proved by   *)
(* induction over the lengths for which a fact holds.                        *)

\* f[i] is the number of bytes of the first i items of s.
IsPrefixSum(f, s) ==
    /\ f \in [0..Len(s) -> Nat]
    /\ f[0] = 0
    /\ \A i \in 1..Len(s) : f[i] = f[i - 1] + Bytes[s[i]]

\* Every sequence of items has such a function.
LEMMA PrefixSumExists ==
    ASSUME NEW s \in Seq(Items)
    PROVE  \E f : IsPrefixSum(f, s)
<1> DEFINE Upto(n, f) == /\ f \in [0..n -> Nat] /\ f[0] = 0
                         /\ \A i \in 1..n : f[i] = f[i - 1] + Bytes[s[i]]
           T == {n \in Nat : n <= Len(s) => \E f : Upto(n, f)}
<1>0. Len(s) \in Nat /\ \A i \in 1..Len(s) : Bytes[s[i]] \in Nat
  BY QueueConstants, ElementOfSeq, LenProperties
<1>1. 0 \in T
  <2>1. Upto(0, [i \in 0..0 |-> 0])
    OBVIOUS
  <2> HIDE DEF Upto
  <2>2. QED
    BY <2>1
<1>2. ASSUME NEW n \in Nat, n \in T, n + 1 <= Len(s), NEW f, Upto(n, f)
      PROVE  \E g : Upto(n + 1, g)
  <2> DEFINE g == [i \in 0..(n + 1) |-> IF i = n + 1 THEN f[n] + Bytes[s[n + 1]] ELSE f[i]]
  <2>1. n + 1 \in 1..Len(s) /\ Bytes[s[n + 1]] \in Nat /\ f[n] \in Nat
    BY <1>0, <1>2
  <2>2. g \in [0..(n + 1) -> Nat]
    BY <1>2, <2>1
  <2>3. g[0] = 0 /\ g[n + 1] = f[n] + Bytes[s[n + 1]] /\ \A i \in 0..n : g[i] = f[i]
    BY <1>2
  <2>4. ASSUME NEW i \in 1..(n + 1)
        PROVE  g[i] = g[i - 1] + Bytes[s[i]]
    <3>1. i - 1 \in 0..n /\ (i = n + 1 \/ i \in 1..n)
      OBVIOUS
    <3>2. CASE i = n + 1
      <4>1. i - 1 = n /\ n \in 0..n
        BY <3>2
      <4> HIDE DEF g
      <4>2. QED
        BY <2>3, <3>2, <4>1
    <3>3. CASE i \in 1..n
      <4>1. i \in 0..n
        BY <3>3
      <4> HIDE DEF g
      <4>2. QED
        BY <1>2, <2>3, <3>1, <3>3, <4>1
    <3>4. QED
      BY <3>1, <3>2, <3>3
  <2>5. Upto(n + 1, g)
    BY <2>2, <2>3, <2>4
  <2> HIDE DEF g, Upto
  <2>6. QED
    BY <2>5
<1> HIDE DEF Upto
<1>3. ASSUME NEW n \in Nat, n \in T
      PROVE  n + 1 \in T
  <2>1. ASSUME n + 1 <= Len(s)
        PROVE  \E g : Upto(n + 1, g)
    <3>1. \E f : Upto(n, f)
      BY <1>0, <1>3, <2>1
    <3>2. QED
      BY <1>2, <1>3, <2>1, <3>1
  <2>2. QED
    BY <2>1
<1> HIDE DEF T
<1>4. Nat \subseteq T
  BY <1>1, <1>3, NatSetInduction
<1>5. \E f : Upto(Len(s), f)
  BY <1>0, <1>4 DEF T
<1>6. QED
  BY <1>5 DEF Upto, IsPrefixSum

\* TotalBytes is the last value of any such function.
LEMMA TotalOfPrefixSum ==
    ASSUME NEW s, Len(s) \in Nat, NEW f, IsPrefixSum(f, s)
    PROVE  Abstract!TotalBytes(s) = f[Len(s)]
<1> DEFINE g == CHOOSE upto : upto = [i \in 0..Len(s) |->
                                        IF i = 0 THEN 0 ELSE upto[i - 1] + Bytes[s[i]]]
           T == {n \in Nat : n <= Len(s) => g[n] = f[n]}
<1>1. Abstract!TotalBytes(s) = g[Len(s)]
  BY DEF Abstract!TotalBytes
<1>2. f = [i \in 0..Len(s) |-> IF i = 0 THEN 0 ELSE f[i - 1] + Bytes[s[i]]]
  <2>1. \A i \in 0..Len(s) : i # 0 => i \in 1..Len(s)
    OBVIOUS
  <2>2. QED
    BY <2>1 DEF IsPrefixSum
<1>3. g = [i \in 0..Len(s) |-> IF i = 0 THEN 0 ELSE g[i - 1] + Bytes[s[i]]]
  BY <1>2
<1> HIDE DEF g
<1>4. 0 \in T
  BY <1>3 DEF IsPrefixSum
<1>5. ASSUME NEW n \in Nat, n \in T
      PROVE  n + 1 \in T
  <2>1. SUFFICES ASSUME n + 1 <= Len(s)
                 PROVE  g[n + 1] = f[n + 1]
    OBVIOUS
  <2>2. g[n] = f[n] /\ n + 1 \in 1..Len(s) /\ n + 1 \in 0..Len(s) /\ n + 1 # 0
        /\ (n + 1) - 1 = n
    BY <1>5, <2>1
  <2>3. g[n + 1] = g[n] + Bytes[s[n + 1]]
    BY <1>3, <2>2
  <2>4. f[n + 1] = f[n] + Bytes[s[n + 1]]
    BY <2>2 DEF IsPrefixSum
  <2>5. QED
    BY <2>2, <2>3, <2>4
<1>6. Nat \subseteq T
  <2> HIDE DEF T
  <2>1. QED
    BY <1>4, <1>5, NatSetInduction
<1>7. Len(s) \in T
  BY <1>6
<1>8. g[Len(s)] = f[Len(s)]
  BY <1>7
<1>9. QED
  BY <1>1, <1>8

LEMMA TotalEmpty == Abstract!TotalBytes(<<>>) = 0
<1> DEFINE f == [i \in 0..0 |-> 0]
<1>1. IsPrefixSum(f, <<>>) /\ Len(<<>>) = 0 /\ f[0] = 0
  BY DEF IsPrefixSum
<1>2. QED
  BY <1>1, TotalOfPrefixSum

LEMMA TotalAppend ==
    ASSUME NEW s \in Seq(Items), NEW x \in Items
    PROVE  /\ Abstract!TotalBytes(s) \in Nat
           /\ Abstract!TotalBytes(Append(s, x)) = Abstract!TotalBytes(s) + Bytes[x]
<1> DEFINE n == Len(s)
           a == Append(s, x)
<1>1. /\ n \in Nat /\ a \in Seq(Items) /\ Len(a) = n + 1 /\ a[n + 1] = x
      /\ \A i \in 1..n : a[i] = s[i]
  BY AppendProperties, LenProperties
<1>2. PICK f : IsPrefixSum(f, s)
  BY PrefixSumExists
<1>3. PICK g : IsPrefixSum(g, a)
  BY <1>1, PrefixSumExists
<1> HIDE DEF n, a
<1>4. f[n] \in Nat /\ Abstract!TotalBytes(s) = f[n]
  BY <1>1, <1>2, TotalOfPrefixSum DEF IsPrefixSum, n
<1> DEFINE h == [i \in 0..n |-> g[i]]
<1>5. IsPrefixSum(h, s)
  <2>1. g \in [0..(n + 1) -> Nat] /\ g[0] = 0
        /\ \A i \in 1..(n + 1) : g[i] = g[i - 1] + Bytes[a[i]]
    BY <1>1, <1>3 DEF IsPrefixSum
  <2>2. h \in [0..n -> Nat] /\ h[0] = 0
    BY <1>1, <2>1
  <2>3. \A i \in 1..n : i \in 0..n /\ i - 1 \in 0..n /\ i \in 1..(n + 1)
    BY <1>1
  <2>4. \A i \in 1..n : h[i] = h[i - 1] + Bytes[s[i]]
    BY <1>1, <2>1, <2>3
  <2>5. QED
    BY <2>2, <2>4 DEF IsPrefixSum, n
<1>6. Abstract!TotalBytes(s) = g[n]
  BY <1>1, <1>5, TotalOfPrefixSum DEF n
<1>7. g[n + 1] = g[n] + Bytes[x]
  <2>1. n + 1 \in 1..(n + 1) /\ (n + 1) - 1 = n
    BY <1>1
  <2>2. QED
    BY <1>1, <1>3, <2>1 DEF IsPrefixSum
<1>8. Abstract!TotalBytes(a) = g[n + 1]
  BY <1>1, <1>3, TotalOfPrefixSum
<1>9. QED
  BY <1>4, <1>6, <1>7, <1>8 DEF a

LEMMA TotalTail ==
    ASSUME NEW s \in Seq(Items), s # <<>>
    PROVE  /\ Abstract!TotalBytes(s) \in Nat /\ Abstract!TotalBytes(Tail(s)) \in Nat
           /\ Abstract!TotalBytes(Tail(s)) = Abstract!TotalBytes(s) - Bytes[Head(s)]
           /\ Len(s) = 1 => Abstract!TotalBytes(Tail(s)) = 0
<1> DEFINE r == Tail(s)
           m == Len(r)
<1>1. /\ m \in Nat /\ r \in Seq(Items) /\ Len(s) = m + 1 /\ Head(s) = s[1]
      /\ \A i \in 1..m : r[i] = s[i + 1]
  <2>1. Len(s) \in Nat \ {0} /\ m = Len(s) - 1
    BY HeadTailProperties, EmptySeq
  <2>2. QED
    BY <2>1, HeadTailProperties
<1>2. PICK f : IsPrefixSum(f, s)
  BY PrefixSumExists
<1>3. PICK g : IsPrefixSum(g, r)
  BY <1>1, PrefixSumExists
<1> HIDE DEF r, m
<1>4. /\ f \in [0..(m + 1) -> Nat] /\ f[0] = 0
      /\ \A i \in 1..(m + 1) : f[i] = f[i - 1] + Bytes[s[i]]
      /\ g \in [0..m -> Nat] /\ g[0] = 0
      /\ \A i \in 1..m : g[i] = g[i - 1] + Bytes[s[i + 1]]
  BY <1>1, <1>2, <1>3 DEF IsPrefixSum, m
<1>5. Abstract!TotalBytes(s) = f[m + 1] /\ Abstract!TotalBytes(r) = g[m]
  BY <1>1, <1>2, <1>3, TotalOfPrefixSum DEF m
<1>6. f[1] = Bytes[s[1]] /\ Bytes[s[1]] \in Nat
  <2>1. 1 \in 1..(m + 1) /\ s[1] \in Items
    BY <1>1, ElementOfSeq
  <2>2. QED
    BY <1>4, <2>1, QueueConstants
<1> DEFINE T == {n \in Nat : n <= m => f[n + 1] = g[n] + Bytes[s[1]]}
<1>7. 0 \in T
  BY <1>1, <1>4, <1>6
<1>8. ASSUME NEW n \in Nat, n \in T
      PROVE  n + 1 \in T
  <2>1. SUFFICES ASSUME n + 1 <= m
                 PROVE  f[(n + 1) + 1] = g[n + 1] + Bytes[s[1]]
    OBVIOUS
  <2>2. /\ n + 1 \in 1..m /\ (n + 1) + 1 \in 1..(m + 1) /\ n \in 0..m
        /\ (n + 1) - 1 = n /\ ((n + 1) + 1) - 1 = n + 1 /\ n <= m
    BY <1>1, <2>1
  <2>3. f[(n + 1) + 1] = f[n + 1] + Bytes[s[(n + 1) + 1]]
        /\ g[n + 1] = g[n] + Bytes[s[(n + 1) + 1]]
    BY <1>4, <2>2
  <2>4. f[n + 1] = g[n] + Bytes[s[1]]
    BY <1>8, <2>2
  <2>5. s[(n + 1) + 1] \in Items
    BY <1>1, <2>2, ElementOfSeq
  <2>6. g[n] \in Nat /\ Bytes[s[(n + 1) + 1]] \in Nat
    BY <1>4, <2>2, <2>5, QueueConstants
  <2>7. QED
    BY <1>6, <2>3, <2>4, <2>6
<1> HIDE DEF T
<1>9. m \in T
  BY <1>1, <1>7, <1>8, NatSetInduction
<1>10. f[m + 1] = g[m] + Bytes[s[1]] /\ g[m] \in Nat /\ f[m + 1] \in Nat
  <2>1. m + 1 \in 0..(m + 1) /\ m \in 0..m /\ m <= m
    BY <1>1
  <2>2. QED
    BY <1>4, <1>9, <2>1 DEF T
<1>11. m = 0 => g[m] = 0
  BY <1>4
<1>12. QED
  BY <1>1, <1>5, <1>6, <1>10, <1>11 DEF r

-----------------------------------------------------------------------------
(* The items of the queue's entries.                                         *)

\* The fields of an entry, and its size.
LEMMA EntryFields ==
    ASSUME NEW e \in Entry
    PROVE  /\ e.item \in Items /\ e.rank \in Nat
           /\ size(e) = Bytes[e.item] /\ size(e) \in Nat
BY QueueConstants DEF Entry, size

LEMMA BufferedItems ==
    ASSUME queue_ \in Seq(Entry)
    PROVE  /\ Buffered \in Seq(Items) /\ Len(Buffered) = Len(queue_)
           /\ Len(queue_) \in Nat
           /\ \A i \in 1..Len(queue_) : Buffered[i] = queue_[i].item
           /\ queue_ = <<>> <=> Buffered = <<>>
<1>1. /\ DOMAIN queue_ = 1..Len(queue_) /\ Len(queue_) \in Nat
      /\ \A i \in 1..Len(queue_) : queue_[i].item \in Items
  BY ElementOfSeq, LenProperties, EntryFields
<1>2. Buffered \in Seq(Items) /\ Len(Buffered) = Len(queue_)
  BY <1>1 DEF Buffered
<1>3. QED
  BY <1>1, <1>2, EmptySeq DEF Buffered

\* The front entry goes, by an eviction or by Dequeue.
LEMMA BufferedTail ==
    ASSUME queue_ \in Seq(Entry), queue_ # <<>>, queue_' = Tail(queue_)
    PROVE  /\ queue_' \in Seq(Entry)
           /\ Len(queue_) \in Nat \ {0} /\ Len(queue_') = Len(queue_) - 1
           /\ \A i \in 1..Len(queue_') : queue_'[i] = queue_[i + 1]
           /\ Buffered # <<>> /\ Buffered' = Tail(Buffered)
           /\ Head(queue_).item = Head(Buffered) /\ Head(Buffered) \in Items
           /\ size(Head(queue_)) = Bytes[Head(Buffered)]
<1>1. /\ queue_' \in Seq(Entry)
      /\ Len(queue_) \in Nat \ {0} /\ Len(queue_') = Len(queue_) - 1
      /\ \A i \in 1..Len(queue_') : queue_'[i] = queue_[i + 1]
      /\ Head(queue_) = queue_[1]
  BY HeadTailProperties, EmptySeq
<1>2. /\ Buffered \in Seq(Items) /\ Len(Buffered) = Len(queue_) /\ Buffered # <<>>
      /\ \A i \in 1..Len(queue_) : Buffered[i] = queue_[i].item
  BY BufferedItems
<1>3. /\ Buffered' \in Seq(Items) /\ Len(Buffered') = Len(queue_')
      /\ \A i \in 1..Len(queue_') : Buffered'[i] = queue_'[i].item
  <2>1. \A i \in 1..Len(queue_') : queue_'[i].item \in Items
    BY <1>1, ElementOfSeq, EntryFields
  <2>2. DOMAIN queue_' = 1..Len(queue_') /\ Len(queue_') \in Nat
    BY <1>1, LenProperties
  <2>3. QED
    BY <2>1, <2>2 DEF Buffered
<1>4. /\ Tail(Buffered) \in Seq(Items) /\ Len(Tail(Buffered)) = Len(Buffered) - 1
      /\ \A i \in 1..Len(Tail(Buffered)) : Tail(Buffered)[i] = Buffered[i + 1]
      /\ Head(Buffered) = Buffered[1] /\ Head(Buffered) \in Items
  BY <1>2, HeadTailProperties
<1>5. Len(Buffered') = Len(Tail(Buffered))
  BY <1>1, <1>2, <1>3, <1>4
<1>6. \A i \in 1..Len(Buffered') : Buffered'[i] = Tail(Buffered)[i]
  <2>1. \A i \in 1..Len(queue_') : i + 1 \in 1..Len(queue_)
    BY <1>1
  <2>2. QED
    BY <1>1, <1>2, <1>3, <1>4, <1>5, <2>1
<1>7. Buffered' = Tail(Buffered)
  BY <1>3, <1>4, <1>5, <1>6, SeqEqual
<1>8. Head(queue_) \in Entry /\ Head(queue_).item = Head(Buffered)
  <2>1. 1 \in 1..Len(queue_)
    BY <1>1
  <2>2. QED
    BY <1>1, <1>2, <1>4, <2>1, ElementOfSeq
<1>9. QED
  BY <1>1, <1>2, <1>4, <1>7, <1>8, EntryFields

\* An entry is pushed at the back.
LEMMA BufferedAppend ==
    ASSUME queue_ \in Seq(Entry), NEW e \in Entry, queue_' = Append(queue_, e)
    PROVE  /\ queue_' \in Seq(Entry)
           /\ Len(queue_) \in Nat /\ Len(queue_') = Len(queue_) + 1
           /\ \A i \in 1..Len(queue_) : queue_'[i] = queue_[i]
           /\ queue_'[Len(queue_) + 1] = e
           /\ Buffered' = Append(Buffered, e.item)
<1>1. /\ queue_' \in Seq(Entry)
      /\ Len(queue_) \in Nat /\ Len(queue_') = Len(queue_) + 1
      /\ \A i \in 1..Len(queue_) : queue_'[i] = queue_[i]
      /\ queue_'[Len(queue_) + 1] = e
  BY AppendProperties, LenProperties
<1>2. /\ Buffered \in Seq(Items) /\ Len(Buffered) = Len(queue_)
      /\ \A i \in 1..Len(queue_) : Buffered[i] = queue_[i].item
  BY BufferedItems
<1>3. /\ Buffered' \in Seq(Items) /\ Len(Buffered') = Len(queue_')
      /\ \A i \in 1..Len(queue_') : Buffered'[i] = queue_'[i].item
  <2>1. \A i \in 1..Len(queue_') : queue_'[i].item \in Items
    BY <1>1, ElementOfSeq, EntryFields
  <2>2. DOMAIN queue_' = 1..Len(queue_') /\ Len(queue_') \in Nat
    BY <1>1, LenProperties
  <2>3. QED
    BY <2>1, <2>2 DEF Buffered
<1>4. e.item \in Items
  BY EntryFields
<1> DEFINE a == Append(Buffered, e.item)
<1>5. /\ a \in Seq(Items) /\ Len(a) = Len(Buffered) + 1 /\ a[Len(Buffered) + 1] = e.item
      /\ \A i \in 1..Len(Buffered) : a[i] = Buffered[i]
  BY <1>2, <1>4, AppendProperties
<1> HIDE DEF a
<1>6. \A i \in 1..Len(Buffered') : Buffered'[i] = a[i]
  <2>1. ASSUME NEW i \in 1..(Len(queue_) + 1)
        PROVE  Buffered'[i] = a[i]
    <3>1. i \in 1..Len(queue_) \/ i = Len(queue_) + 1
      BY <1>1
    <3>2. QED
      BY <1>1, <1>2, <1>3, <1>5, <3>1
  <2>2. QED
    BY <1>1, <1>3, <2>1
<1>7. Buffered' = a
  BY <1>1, <1>2, <1>3, <1>5, <1>6, SeqEqual
<1>8. QED
  BY <1>1, <1>7 DEF a

-----------------------------------------------------------------------------
(* The inductive invariant.                                                  *)

IInv == QueueTypeOK /\ BytesExact /\ WithinLimits /\ HoldsNewest /\ StatsAccurate

\* The queue starts empty.
LEMMA InitIInv == QueueInit => IInv
<1> SUFFICES ASSUME QueueInit PROVE IInv
  OBVIOUS
<1>1. Buffered = <<>>
  BY DEF QueueInit, Buffered
<1>2. QED
  BY <1>1, TotalEmpty, QueueConstants DEF QueueInit, IInv, QueueTypeOK, Entry, BytesExact,
                         WithinLimits, HoldsNewest, StatsAccurate

\* What is left when the front entry goes, with the byte counter reduced by
\* the size of the entry that left.
LEMMA RemoveHead ==
    ASSUME IInv, queue_ # <<>>,
           queue_' = Tail(queue_),
           current_bytes_' = current_bytes_ - size(Head(queue_))
    PROVE  /\ queue_' \in Seq(Entry)
           /\ Len(queue_') = Len(queue_) - 1
           /\ \A i \in 1..Len(queue_') : queue_'[i] = queue_[i + 1]
           /\ current_bytes_' \in 0..current_bytes_
           /\ Len(queue_) = 1 => current_bytes_' = 0
           /\ BytesExact'
<1>1. queue_ \in Seq(Entry) /\ current_bytes_ = Abstract!TotalBytes(Buffered)
  BY DEF IInv, QueueTypeOK, BytesExact
<1>2. Buffered \in Seq(Items) /\ Len(Buffered) = Len(queue_)
  BY <1>1, BufferedItems
<1>3. /\ Abstract!TotalBytes(Buffered) \in Nat /\ Abstract!TotalBytes(Tail(Buffered)) \in Nat
      /\ Abstract!TotalBytes(Tail(Buffered))
            = Abstract!TotalBytes(Buffered) - Bytes[Head(Buffered)]
      /\ Len(Buffered) = 1 => Abstract!TotalBytes(Tail(Buffered)) = 0
      /\ Bytes[Head(Buffered)] \in Nat
  BY <1>1, <1>2, BufferedTail, TotalTail, QueueConstants
<1>4. current_bytes_' = Abstract!TotalBytes(Tail(Buffered)) /\ Buffered' = Tail(Buffered)
  BY <1>1, <1>3, BufferedTail
<1>5. BytesExact'
  BY <1>4 DEF BytesExact
<1>6. QED
  BY <1>1, <1>2, <1>3, <1>4, <1>5, BufferedTail

\* A push adds its entry's size to the byte counter.
LEMMA PushEntry ==
    ASSUME IInv, PushBack
    PROVE  /\ queue_' \in Seq(Entry)
           /\ Len(queue_') = Len(queue_) + 1
           /\ \A i \in 1..Len(queue_) : queue_'[i] = queue_[i]
           /\ queue_'[Len(queue_) + 1].rank = enqueued_ + 1
           /\ current_bytes_' \in Nat
           /\ BytesExact'
           /\ Buffered' = Append(Buffered, pending)
<1> DEFINE new == [item |-> pending, rank |-> enqueued_ + 1]
<1>1. /\ queue_ \in Seq(Entry) /\ pending \in Items /\ Bytes[pending] \in Nat
      /\ enqueued_ \in Nat /\ current_bytes_ \in Nat
      /\ current_bytes_ = Abstract!TotalBytes(Buffered)
  BY QueueConstants DEF IInv, QueueTypeOK, BytesExact, PushBack
<1>2. new \in Entry /\ new.item = pending /\ new.rank = enqueued_ + 1
  BY <1>1 DEF Entry
<1>3. queue_' = Append(queue_, new) /\ current_bytes_' = current_bytes_ + Bytes[pending]
  BY DEF PushBack
<1> HIDE DEF new
<1>4. Buffered \in Seq(Items)
  BY <1>1, BufferedItems
<1>5. /\ queue_' \in Seq(Entry)
      /\ Len(queue_') = Len(queue_) + 1
      /\ \A i \in 1..Len(queue_) : queue_'[i] = queue_[i]
      /\ queue_'[Len(queue_) + 1] = new
      /\ Buffered' = Append(Buffered, pending)
  BY <1>1, <1>2, <1>3, BufferedAppend
<1>6. Abstract!TotalBytes(Append(Buffered, pending)) = current_bytes_ + Bytes[pending]
  BY <1>1, <1>4, TotalAppend
<1>7. BytesExact'
  BY <1>3, <1>5, <1>6 DEF BytesExact
<1>8. QED
  BY <1>1, <1>2, <1>3, <1>5, <1>7

\* The inductive step, one case per action of DetectionQueue.
LEMMA NextIInv == IInv /\ [QueueNext]_queueVars => IInv'
<1> SUFFICES ASSUME IInv, [QueueNext]_queueVars
             PROVE  IInv'
  OBVIOUS
<1>0. /\ queue_ \in Seq(Entry) /\ Len(queue_) \in Nat
      /\ enqueued_ \in Nat /\ dropped_ \in Nat /\ taken \in Nat
      /\ pending \in Items \cup {NoItem} /\ victims \in Seq(Items)
      /\ current_bytes_ \in Nat
  BY DEF IInv, QueueTypeOK
<1>1. ASSUME NEW x \in Items, LockEnqueue(x)
      PROVE  IInv'
  BY <1>1 DEF LockEnqueue, IInv, QueueTypeOK, BytesExact, Buffered, WithinLimits,
              HoldsNewest, StatsAccurate
<1>2. CASE EvictOldest
  <2>1. /\ queue_' \in Seq(Entry) /\ Len(queue_') = Len(queue_) - 1
        /\ \A i \in 1..Len(queue_') : queue_'[i] = queue_[i + 1]
        /\ current_bytes_' \in 0..current_bytes_
        /\ Len(queue_) = 1 => current_bytes_' = 0
        /\ BytesExact'
    BY <1>2, RemoveHead DEF EvictOldest
  <2>2. Head(queue_).item \in Items
    BY <1>0, <1>2, HeadTailProperties, EntryFields DEF EvictOldest
  <2>3. QueueTypeOK'
    BY <1>0, <1>2, <2>1, <2>2, AppendProperties DEF EvictOldest, QueueTypeOK
  <2>4. WithinLimits'
    BY <1>0, <2>1, QueueConstants DEF IInv, WithinLimits
  <2>5. HoldsNewest'
    BY <1>0, <1>2, <2>1 DEF EvictOldest, IInv, HoldsNewest
  <2>6. StatsAccurate'
    BY <1>0, <1>2, <2>1 DEF EvictOldest, IInv, StatsAccurate
  <2>7. QED
    BY <2>1, <2>3, <2>4, <2>5, <2>6 DEF IInv
<1>3. CASE PushBack
  <2>1. /\ queue_' \in Seq(Entry) /\ Len(queue_') = Len(queue_) + 1
        /\ \A i \in 1..Len(queue_) : queue_'[i] = queue_[i]
        /\ queue_'[Len(queue_) + 1].rank = enqueued_ + 1
        /\ current_bytes_' \in Nat
        /\ BytesExact'
    BY <1>3, PushEntry
  <2>2. QueueTypeOK'
    BY <1>0, <1>3, <2>1, EmptySeq DEF PushBack, QueueTypeOK
  <2>3. WithinLimits'
    <3>1. Len(queue_) < MaxEntries /\ current_bytes_' = current_bytes_ + Bytes[pending]
      BY <1>0, <1>3, QueueConstants DEF PushBack, NoRoom
    <3>2. current_bytes_' <= MaxBytes \/ queue_ = <<>>
      BY <1>0, <1>3, <3>1, QueueConstants DEF PushBack, NoRoom
    <3>3. queue_ = <<>> => Len(queue_') = 1
      BY <2>1, EmptySeq
    <3>4. Len(queue_') <= MaxEntries
      BY <1>0, <2>1, <3>1, QueueConstants
    <3>5. QED
      BY <3>2, <3>3, <3>4 DEF WithinLimits
  <2>4. HoldsNewest'
    <3>1. enqueued_' = enqueued_ + 1
      BY <1>3 DEF PushBack
    <3>2. SUFFICES ASSUME NEW i \in 1..Len(queue_')
                   PROVE  queue_'[i].rank = enqueued_' - Len(queue_') + i
      BY DEF HoldsNewest
    <3>3. CASE i = Len(queue_) + 1
      BY <1>0, <2>1, <3>1, <3>3
    <3>4. CASE i \in 1..Len(queue_)
      <4>1. queue_[i].rank = enqueued_ - Len(queue_) + i
        BY <3>4 DEF IInv, HoldsNewest
      <4>2. queue_'[i] = queue_[i]
        BY <2>1, <3>4
      <4>3. QED
        BY <1>0, <2>1, <3>1, <4>1, <4>2
    <3>5. QED
      BY <1>0, <2>1, <3>2, <3>3, <3>4
  <2>5. StatsAccurate'
    BY <1>0, <1>3, <2>1 DEF PushBack, IInv, StatsAccurate
  <2>6. QED
    BY <2>1, <2>2, <2>3, <2>4, <2>5 DEF IInv
<1>4. CASE DequeueParsed \/ DequeueCorrupt
  <2>0. RemoveFront
    BY <1>4 DEF DequeueParsed, DequeueCorrupt
  <2>1. /\ queue_' \in Seq(Entry) /\ Len(queue_') = Len(queue_) - 1
        /\ \A i \in 1..Len(queue_') : queue_'[i] = queue_[i + 1]
        /\ current_bytes_' \in 0..current_bytes_
        /\ Len(queue_) = 1 => current_bytes_' = 0
        /\ BytesExact'
    BY <2>0, RemoveHead DEF RemoveFront
  <2>2. QueueTypeOK'
    BY <1>0, <2>0, <2>1 DEF RemoveFront, QueueTypeOK
  <2>3. WithinLimits'
    BY <1>0, <2>1, QueueConstants DEF IInv, WithinLimits
  <2>4. HoldsNewest'
    BY <1>0, <2>0, <2>1 DEF RemoveFront, IInv, HoldsNewest
  <2>5. StatsAccurate'
    BY <1>0, <2>0, <2>1 DEF RemoveFront, IInv, StatsAccurate
  <2>6. QED
    BY <2>1, <2>2, <2>3, <2>4, <2>5 DEF IInv
<1>5. CASE UNCHANGED queueVars
  BY <1>5 DEF queueVars, IInv, QueueTypeOK, BytesExact, Buffered, WithinLimits,
              HoldsNewest, StatsAccurate
<1>6. QED
  BY <1>1, <1>2, <1>3, <1>4, <1>5 DEF QueueNext

THEOREM Invariance == QueueSpec => []IInv
BY InitIInv, NextIInv, PTL DEF QueueSpec

\* Typing of the queue's state in every reachable state; in particular the
\* byte counter never goes below zero.
THEOREM TypeCorrect == QueueSpec => []QueueTypeOK
<1>1. IInv => QueueTypeOK
  BY DEF IInv
<1>2. QED
  BY <1>1, Invariance, PTL

\* The two limits of Config bound the queue whatever the sizes of the
\* detections are, but for one oversized entry alone in the queue.
THEOREM Limits == QueueSpec => []WithinLimits
<1>1. IInv => WithinLimits
  BY DEF IInv
<1>2. QED
  BY <1>1, Invariance, PTL

\* What the queue holds is always the newest entries in their order, so both
\* eviction and Dequeue take the oldest one.
THEOREM OldestFirst == QueueSpec => []HoldsNewest
<1>1. IInv => HoldsNewest
  BY DEF IInv
<1>2. QED
  BY <1>1, Invariance, PTL

\* The counters account for every entry ever pushed.
THEOREM Accounting == QueueSpec => []StatsAccurate
<1>1. IInv => StatsAccurate
  BY DEF IInv
<1>2. QED
  BY <1>1, Invariance, PTL

\* The byte counter is the number of bytes that are queued at every moment, also
\* between two evictions of one call and after an entry that did not parse.
THEOREM ByteCounter == QueueSpec => []BytesExact
<1>1. IInv => BytesExact
  BY DEF IInv
<1>2. QED
  BY <1>1, Invariance, PTL

-----------------------------------------------------------------------------
(* The queue implements LossyBuffer.  While a call of Enqueue evicts, its    *)
(* victims still count as buffered; pushing forgets them all at once.        *)

\* Dropping the first part of a sequence leaves the second.
LEMMA SuffixOfConcat ==
    ASSUME NEW v \in Seq(Items), NEW b \in Seq(Items)
    PROVE  /\ Len(v) \in 0..Len(v \o b)
           /\ Abstract!Suffix(v \o b, Len(v)) = b
<1> DEFINE c == v \o b
           r == SubSeq(c, Len(v) + 1, Len(c))
<1>1. /\ c \in Seq(Items) /\ Len(c) = Len(v) + Len(b)
      /\ Len(v) \in Nat /\ Len(b) \in Nat
      /\ \A i \in 1..Len(c) : c[i] = IF i <= Len(v) THEN v[i] ELSE b[i - Len(v)]
  BY ConcatProperties, LenProperties
<1> HIDE DEF c
<1>2. /\ r \in Seq(Items) /\ Len(r) = Len(b)
      /\ \A i \in 1..Len(r) : r[i] = c[Len(v) + i]
  <2>1. Len(v) + 1 \in 1..(Len(c) + 1) /\ Len(c) \in (Len(v) + 1 - 1)..Len(c)
    BY <1>1
  <2>2. \A i \in (Len(v) + 1)..Len(c) : c[i] \in Items
    BY <1>1, ElementOfSeq
  <2>3. /\ Len(r) = IF Len(v) + 1 <= Len(c) THEN Len(c) - (Len(v) + 1) + 1 ELSE 0
        /\ r \in Seq(Items)
        /\ \A i \in 1..(Len(c) - (Len(v) + 1) + 1) : r[i] = c[(Len(v) + 1) + i - 1]
    BY <1>1, <2>2, SubSeqProperties
  <2>4. Len(r) = Len(b) /\ Len(c) - (Len(v) + 1) + 1 = Len(b)
    BY <1>1, <2>3
  <2>5. \A i \in 1..Len(r) : (Len(v) + 1) + i - 1 = Len(v) + i
    BY <1>1, <2>4
  <2>6. QED
    BY <2>3, <2>4, <2>5
<1>3. \A i \in 1..Len(b) : r[i] = b[i]
  <2>1. \A i \in 1..Len(b) : /\ Len(v) + i \in 1..Len(c) /\ ~(Len(v) + i <= Len(v))
                             /\ Len(v) + i - Len(v) = i
    BY <1>1
  <2> HIDE DEF r
  <2>2. QED
    BY <1>1, <1>2, <2>1
<1>4. r = b
  <2> HIDE DEF r
  <2>1. QED
    BY <1>2, <1>3, SeqEqual
<1>5. QED
  BY <1>1, <1>4 DEF c, Abstract!Suffix

\* Moving the front of the second part to the end of the first changes nothing.
LEMMA ConcatMove ==
    ASSUME NEW v \in Seq(Items), NEW b \in Seq(Items), b # <<>>
    PROVE  Append(v, Head(b)) \o Tail(b) = v \o b
<1> DEFINE w == Append(v, Head(b))
           r == Tail(b)
<1>1. /\ Head(b) \in Items /\ Head(b) = b[1] /\ r \in Seq(Items)
      /\ Len(b) \in Nat \ {0} /\ Len(r) = Len(b) - 1
      /\ \A i \in 1..Len(r) : r[i] = b[i + 1]
  BY HeadTailProperties, EmptySeq
<1>2. /\ w \in Seq(Items) /\ Len(v) \in Nat /\ Len(w) = Len(v) + 1
      /\ \A i \in 1..Len(v) : w[i] = v[i]
      /\ w[Len(v) + 1] = b[1]
  BY <1>1, AppendProperties, LenProperties
<1> HIDE DEF w, r
<1>3. /\ v \o b \in Seq(Items) /\ Len(v \o b) = Len(v) + Len(b)
      /\ \A i \in 1..Len(v \o b) : (v \o b)[i] = IF i <= Len(v) THEN v[i] ELSE b[i - Len(v)]
  BY ConcatProperties
<1>4. /\ w \o r \in Seq(Items) /\ Len(w \o r) = Len(v) + Len(b)
      /\ \A i \in 1..(Len(v) + Len(b)) :
             (w \o r)[i] = IF i <= Len(w) THEN w[i] ELSE r[i - Len(w)]
  <2>1. /\ w \o r \in Seq(Items) /\ Len(w \o r) = Len(w) + Len(r)
        /\ \A i \in 1..(Len(w) + Len(r)) :
               (w \o r)[i] = IF i <= Len(w) THEN w[i] ELSE r[i - Len(w)]
    BY <1>1, <1>2, ConcatProperties
  <2>2. Len(w) + Len(r) = Len(v) + Len(b)
    BY <1>1, <1>2
  <2>3. QED
    BY <2>1, <2>2
<1>5. ASSUME NEW i \in 1..(Len(v) + Len(b))
      PROVE  (w \o r)[i] = (v \o b)[i]
  <2>1. CASE i <= Len(v)
    <3>1. i \in 1..Len(v) /\ i <= Len(w)
      BY <1>2, <2>1
    <3>2. QED
      BY <1>2, <1>3, <1>4, <2>1, <3>1
  <2>2. CASE i = Len(v) + 1
    <3>1. i <= Len(w) /\ ~(i <= Len(v)) /\ i - Len(v) = 1
      BY <1>2, <2>2
    <3>2. QED
      BY <1>2, <1>3, <1>4, <2>2, <3>1
  <2>3. CASE i > Len(v) + 1
    <3>1. /\ ~(i <= Len(w)) /\ ~(i <= Len(v)) /\ i - Len(w) \in 1..Len(r)
          /\ (i - Len(w)) + 1 = i - Len(v)
      BY <1>1, <1>2, <2>3
    <3>2. r[i - Len(w)] = b[i - Len(v)]
      BY <1>1, <3>1
    <3>3. QED
      BY <1>3, <1>4, <3>1, <3>2
  <2>4. QED
    BY <1>1, <1>2, <2>1, <2>2, <2>3
<1>6. w \o r = v \o b
  BY <1>3, <1>4, <1>5, SeqEqual
<1>7. QED
  BY <1>6 DEF w, r

\* An eviction happens only where the new entry does not fit: with the victims
\* of the call, from any of them on, there is no room for it.
MustForget ==
    /\ pending = NoItem => victims = <<>>
    /\ pending # NoItem =>
          \A j \in 0..(Len(victims) - 1) :
              ~Abstract!Fits(Append(Abstract!Suffix(victims \o Buffered, j), pending))

\* The loop condition is the abstract one: an entry fits if there is room for it.
LEMMA RoomIsFit ==
    ASSUME IInv, pending \in Items, queue_ # <<>> \/ ~NoRoom(pending)
    PROVE  Abstract!Fits(Append(Buffered, pending)) <=> ~NoRoom(pending)
<1>1. /\ queue_ \in Seq(Entry) /\ current_bytes_ = Abstract!TotalBytes(Buffered)
      /\ current_bytes_ \in Nat /\ MaxEntries \in Nat /\ MaxBytes \in Nat
      /\ Bytes[pending] \in Nat
  BY QueueConstants DEF IInv, QueueTypeOK, BytesExact
<1>2. /\ Buffered \in Seq(Items) /\ Len(Buffered) = Len(queue_) /\ Len(queue_) \in Nat
      /\ queue_ = <<>> <=> Len(queue_) = 0
  BY <1>1, BufferedItems, EmptySeq
<1>3. /\ Len(Append(Buffered, pending)) = Len(queue_) + 1
      /\ Abstract!TotalBytes(Append(Buffered, pending)) = current_bytes_ + Bytes[pending]
  BY <1>1, <1>2, TotalAppend, AppendProperties
<1> DEFINE a == Append(Buffered, pending)
<1> HIDE DEF a
<1>4. Len(a) = Len(queue_) + 1 /\ Abstract!TotalBytes(a) = current_bytes_ + Bytes[pending]
  BY <1>3 DEF a
<1>5. Abstract!Fits(a) <=> /\ Len(queue_) + 1 <= MaxEntries
                           /\ \/ current_bytes_ + Bytes[pending] <= MaxBytes
                              \/ Len(queue_) + 1 = 1
  BY <1>4 DEF Abstract!Fits
<1>6. NoRoom(pending) <=> \/ Len(queue_) >= MaxEntries
                          \/ current_bytes_ + Bytes[pending] > MaxBytes /\ Len(queue_) # 0
  BY <1>2 DEF NoRoom
<1>7. QED
  BY <1>1, <1>2, <1>5, <1>6 DEF a

\* An eviction leaves the abstract buffer as it is.
LEMMA EvictStutters ==
    ASSUME IInv, MustForget, EvictOldest
    PROVE  /\ UNCHANGED Abstract!vars
           /\ MustForget'
<1>1. /\ queue_ \in Seq(Entry) /\ victims \in Seq(Items) /\ pending \in Items
      /\ dropped_ \in Nat /\ Buffered \in Seq(Items) /\ Len(victims) \in Nat
  BY BufferedItems, LenProperties DEF IInv, QueueTypeOK, EvictOldest
<1>2. /\ Buffered # <<>> /\ Buffered' = Tail(Buffered)
      /\ victims' = Append(victims, Head(Buffered)) /\ Head(Buffered) \in Items
      /\ pending' = pending /\ dropped_' = dropped_ + 1
      /\ pending # NoItem
  BY <1>1, BufferedTail DEF EvictOldest
<1>3. victims' \o Buffered' = victims \o Buffered
  BY <1>1, <1>2, ConcatMove
<1>4. Len(victims') = Len(victims) + 1
  BY <1>1, <1>2, AppendProperties
<1>5. dropped_' - Len(victims') = dropped_ - Len(victims)
  BY <1>1, <1>2, <1>4
<1>6. ~Abstract!Fits(Append(Abstract!Suffix(victims \o Buffered, Len(victims)), pending))
  <2>1. ~Abstract!Fits(Append(Buffered, pending))
    BY <1>1, RoomIsFit DEF EvictOldest
  <2>2. QED
    BY <1>1, <2>1, SuffixOfConcat
<1>7. \A j \in 0..(Len(victims') - 1) : j \in 0..(Len(victims) - 1) \/ j = Len(victims)
  BY <1>1, <1>4
<1>8. \A j \in 0..(Len(victims') - 1) :
         ~Abstract!Fits(Append(Abstract!Suffix(victims \o Buffered, j), pending))
  BY <1>2, <1>6, <1>7 DEF MustForget
<1>9. MustForget'
  BY <1>2, <1>3, <1>8 DEF MustForget
<1>10. QED
  BY <1>3, <1>5, <1>9 DEF Abstract!vars

\* A push is the abstract put: it forgets the victims of its call.
LEMMA PushPuts ==
    ASSUME IInv, MustForget, PushBack
    PROVE  Abstract!Put(pending) /\ MustForget'
<1> DEFINE k == Len(victims)
           c == victims \o Buffered
<1>1. /\ queue_ \in Seq(Entry) /\ victims \in Seq(Items) /\ pending \in Items
      /\ dropped_ \in Nat /\ Buffered \in Seq(Items) /\ k \in Nat
      /\ pending # NoItem /\ ~NoRoom(pending)
      /\ victims' = <<>> /\ dropped_' = dropped_ /\ pending' = NoItem
  BY BufferedItems, LenProperties DEF IInv, QueueTypeOK, PushBack
<1>2. k \in 0..Len(c) /\ Abstract!Suffix(c, k) = Buffered
  BY <1>1, SuffixOfConcat
<1>3. Abstract!Fits(Append(Buffered, pending))
  BY <1>1, RoomIsFit
<1>4. \A j \in 0..(k - 1) : ~Abstract!Fits(Append(Abstract!Suffix(c, j), pending))
  BY <1>1 DEF MustForget
<1>5. victims' \o Buffered' = Append(Buffered, pending)
  <2>1. Buffered' = Append(Buffered, pending) /\ Append(Buffered, pending) \in Seq(Items)
    BY <1>1, PushEntry, AppendProperties
  <2>2. QED
    BY <1>1, <2>1, ConcatEmptySeq
<1>6. dropped_' - Len(victims') = (dropped_ - k) + k
  <2>1. Len(victims') = 0
    BY <1>1
  <2>2. QED
    BY <1>1, <2>1
<1> HIDE DEF k, c
<1>7. Abstract!Put(pending)
  <2>1. /\ Abstract!Fits(Append(Abstract!Suffix(c, k), pending))
        /\ \A j \in 0..(k - 1) : ~Abstract!Fits(Append(Abstract!Suffix(c, j), pending))
        /\ victims' \o Buffered' = Append(Abstract!Suffix(c, k), pending)
        /\ dropped_' - Len(victims') = (dropped_ - Len(victims)) + k
    BY <1>2, <1>3, <1>4, <1>5, <1>6 DEF k
  <2>2. QED
    BY <1>2, <2>1 DEF Abstract!Put, c
<1>8. QED
  BY <1>1, <1>7 DEF MustForget

\* Dequeue is the abstract take.
LEMMA RemoveTakes ==
    ASSUME IInv, MustForget, RemoveFront
    PROVE  Abstract!Take /\ MustForget'
<1>1. /\ queue_ \in Seq(Entry) /\ Buffered \in Seq(Items)
      /\ pending = NoItem /\ victims = <<>>
      /\ UNCHANGED <<pending, victims, dropped_>>
  BY BufferedItems DEF IInv, QueueTypeOK, RemoveFront, MustForget
<1>2. Buffered # <<>> /\ Buffered' = Tail(Buffered) /\ Tail(Buffered) \in Seq(Items)
  BY <1>1, BufferedTail, HeadTailProperties DEF RemoveFront
<1>3. victims \o Buffered = Buffered /\ victims' \o Buffered' = Tail(Buffered)
  BY <1>1, <1>2, ConcatEmptySeq
<1>4. Abstract!Take
  BY <1>1, <1>2, <1>3 DEF Abstract!Take
<1>5. QED
  BY <1>1, <1>4 DEF MustForget

LEMMA StepRefines ==
    ASSUME IInv, MustForget, [QueueNext]_queueVars
    PROVE  [Abstract!Next]_Abstract!vars /\ MustForget'
<1>1. ASSUME NEW x \in Items, LockEnqueue(x)
      PROVE  UNCHANGED Abstract!vars /\ MustForget'
  <2>1. /\ UNCHANGED <<queue_, dropped_, victims>> /\ victims = <<>>
        /\ pending' # NoItem
    BY <1>1, QueueConstants DEF LockEnqueue, MustForget
  <2>2. Buffered' = Buffered /\ Len(victims) = 0
    BY <2>1 DEF Buffered
  <2>3. 0..(Len(victims') - 1) = {}
    BY <2>1, <2>2
  <2>4. QED
    BY <2>1, <2>2, <2>3 DEF MustForget, Abstract!vars
<1>2. CASE EvictOldest
  BY <1>2, EvictStutters
<1>3. CASE PushBack
  <2>1. pending \in Items
    BY <1>3 DEF IInv, QueueTypeOK, PushBack
  <2>2. QED
    BY <1>3, <2>1, PushPuts DEF Abstract!Next
<1>4. CASE DequeueParsed \/ DequeueCorrupt
  BY <1>4, RemoveTakes DEF DequeueParsed, DequeueCorrupt, Abstract!Next
<1>5. CASE UNCHANGED queueVars
  BY <1>5 DEF queueVars, Buffered, MustForget, Abstract!vars
<1>6. QED
  BY <1>1, <1>2, <1>3, <1>4, <1>5 DEF QueueNext

\* The queue, with its loop that evicts one entry at a time and its byte counter,
\* is a lossy buffer: each put forgets the oldest entries and no more of them
\* than it must, each take removes the oldest.
THEOREM Refinement == QueueSpec => ImplementsLossyBuffer
<1>1. QueueInit => Abstract!Init /\ MustForget
  <2>1. SUFFICES ASSUME QueueInit PROVE Abstract!Init /\ MustForget
    OBVIOUS
  <2>2. Buffered = <<>> /\ victims = <<>> /\ pending = NoItem /\ dropped_ = 0
    BY <2>1 DEF QueueInit, Buffered
  <2>3. victims \o Buffered = <<>>
    <3>1. <<>> \in Seq(Items) /\ <<>> \o <<>> = <<>>
      BY ConcatEmptySeq, EmptySeq
    <3>2. QED
      BY <2>2, <3>1
  <2>4. dropped_ - Len(victims) = 0
    <3>1. Len(victims) = 0 /\ dropped_ = 0
      BY <2>2, EmptySeq
    <3>2. QED
      BY <3>1
  <2>5. QED
    BY <2>2, <2>3, <2>4 DEF Abstract!Init, MustForget
<1>2. IInv /\ MustForget /\ [QueueNext]_queueVars =>
        [Abstract!Next]_Abstract!vars /\ MustForget'
  BY StepRefines
<1>3. QED
  BY <1>1, <1>2, Invariance, PTL DEF QueueSpec, ImplementsLossyBuffer, Abstract!Spec

-----------------------------------------------------------------------------
(* The frame loop.  BuffersReturned is not inductive: it does not say where  *)
(* in the loop there is a frame, nor who has the mutex there; Held says both.*)

Held ==
    /\ step \in {"captured", "infer", "output"} <=> frame # NoFrame
    /\ frame # NoFrame => frame.source \in Sources /\ frame.buffer \in Buffers
    /\ step = "infer" <=> lock = "pipeline"

FrameInv == LoopTypeOK /\ Held /\ BuffersReturned

LEMMA LeastOfTwo ==
    ASSUME NEW m \in Int, NEW n \in Int
    PROVE  Min({m, n}) = IF m <= n THEN m ELSE n
BY DEF Min

LEMMA GreatestOfTwo ==
    ASSUME NEW m \in Int, NEW n \in Int
    PROVE  Max({m, n}) = IF m >= n THEN m ELSE n
BY DEF Max

LEMMA RecorderStays ==
    ASSUME NEW r \in Recorder
    PROVE  PushFrame(r) \in Recorder /\ TriggerRecording(r) \in Recorder
<1>1. /\ r.buffered \in 0..MaxBuffered /\ r.remaining \in 0..PostFrames
      /\ r.recording \in BOOLEAN /\ r.ended \in BOOLEAN
  BY DEF Recorder
<1>2. Min({MaxBuffered, r.buffered + 1}) \in 0..MaxBuffered
  BY <1>1, LeastOfTwo, RecorderConstants
<1>3. Max({0, r.remaining - 1}) \in 0..PostFrames
  BY <1>1, GreatestOfTwo, RecorderConstants
<1>4. PushFrame(r) \in Recorder
  BY <1>1, <1>2, <1>3 DEF PushFrame, Recorder
<1>5. TriggerRecording(r) \in Recorder
  <2>1. PostFrames \in 0..PostFrames
    BY RecorderConstants
  <2>2. [r EXCEPT !.recording = TRUE] \in Recorder
    BY DEF Recorder
  <2>3. \A q \in Recorder : [q EXCEPT !.remaining = PostFrames] \in Recorder
    BY <2>1 DEF Recorder
  <2>4. [r EXCEPT !.recording = TRUE, !.remaining = PostFrames] \in Recorder
    BY <2>2, <2>3
  <2>5. QED
    BY <2>4 DEF TriggerRecording
<1>6. QED
  BY <1>4, <1>5

LEMMA FrameIs ==
    ASSUME FrameInv, frame # NoFrame
    PROVE  /\ frame.source \in Sources /\ frame.buffer \in Buffers
           /\ lent[frame.source] = {frame.buffer}
           /\ \A c \in Sources : c # frame.source => lent[c] = {}
BY DEF FrameInv, Held, BuffersReturned

\* The next source is one of those there are.
LEMMA NextTurn ==
    ASSUME LoopTypeOK
    PROVE  (turn + 1) % sources \in Sources
BY LoopConstants DEF LoopTypeOK, Sources

\* Giving a frame back keeps the books, wherever in the loop it happens.
LEMMA Released ==
    ASSUME FrameInv, frame # NoFrame, ReleaseFrame, lock' \in {"free", "reader"},
           UNCHANGED sources
    PROVE  /\ lent' \in [Sources -> SUBSET Buffers] /\ frame' \in Frames \cup {NoFrame}
           /\ BuffersReturned' /\ Held'
<1>1. lent' = [lent EXCEPT ![frame.source] = @ \ {frame.buffer}] /\ frame' = NoFrame
  BY DEF ReleaseFrame
<1>2. lent \in [Sources -> SUBSET Buffers]
  BY DEF FrameInv, LoopTypeOK
<1>3. \A c \in Sources : lent'[c] = {}
  BY <1>1, <1>2, FrameIs
<1>4. BuffersReturned'
  BY <1>1, <1>3 DEF BuffersReturned, Sources
<1>5. lent' \in [Sources -> SUBSET Buffers]
  BY <1>1, <1>2
<1>6. Held'
  BY <1>1 DEF Held, ReleaseFrame
<1>7. QED
  BY <1>1, <1>4, <1>5, <1>6

LEMMA Captures == ASSUME FrameInv, Capture PROVE FrameInv'
<1>1. PICK b \in Buffers \ lent[turn] :
        /\ frame' = [source |-> turn, buffer |-> b]
        /\ lent' = [lent EXCEPT ![turn] = @ \cup {b}]
  BY DEF Capture
<1>2. /\ frame = NoFrame /\ turn \in Sources /\ sources' = sources
      /\ Sources \subseteq 0..(MaxSources - 1) /\ lent \in [Sources -> SUBSET Buffers]
      /\ \A c \in Sources : lent[c] = {}
  BY LoopConstants DEF FrameInv, Held, LoopTypeOK, BuffersReturned, Capture, setup, Sources
<1>3. frame' \in Frames /\ frame' # NoFrame /\ frame'.source = turn /\ frame'.buffer = b
  BY <1>1, <1>2, LoopConstants DEF Frames
<1>4. lent' \in [Sources -> SUBSET Buffers]
  BY <1>1, <1>2
<1>5. \A c \in Sources : lent'[c] = IF c = turn THEN {b} ELSE {}
  BY <1>1, <1>2
<1>6. Sources' = Sources
  BY <1>2 DEF Sources
<1>7. BuffersReturned'
  BY <1>3, <1>5, <1>6 DEF BuffersReturned
<1>8. LoopTypeOK'
  BY <1>3, <1>4, <1>6 DEF Capture, setup, outside, FrameInv, LoopTypeOK
<1>9. Held'
  BY <1>2, <1>3, <1>6 DEF Capture, FrameInv, Held
<1>10. QED
  BY <1>7, <1>8, <1>9 DEF FrameInv

\* The steps on which the frame is given back.
LEMMA GivingBack ==
    ASSUME FrameInv,
           PreprocessFails \/ InferenceFails \/ \E novel \in BOOLEAN : Output(novel)
    PROVE  FrameInv'
<1>1. /\ frame # NoFrame /\ ReleaseFrame /\ UNCHANGED <<sources, multi>>
      /\ lock' \in {"free", "reader"}
  BY DEF FrameInv, Held, LoopTypeOK, PreprocessFails, InferenceFails, Output, setup
<1>2. /\ lent' \in [Sources -> SUBSET Buffers] /\ frame' \in Frames \cup {NoFrame}
      /\ BuffersReturned' /\ Held'
  BY <1>1, Released
<1>3. turn' \in Sources
  BY NextTurn DEF FrameInv, LoopTypeOK, PreprocessFails, InferenceFails, Output
<1>4. recorder' \in Recorder
  BY RecorderStays DEF FrameInv, LoopTypeOK, PreprocessFails, InferenceFails, Output
<1>5. /\ UNCHANGED <<running, engine, active, dead, healthy>>
      /\ step' = "top"
  BY DEF PreprocessFails, InferenceFails, Output, outside, ReleaseFrame
<1>6. Sources' = Sources
  BY <1>1 DEF Sources
<1>7. LoopTypeOK'
  BY <1>1, <1>2, <1>3, <1>4, <1>5, <1>6 DEF FrameInv, LoopTypeOK
<1>8. QED
  BY <1>2, <1>7 DEF FrameInv

\* The steps that leave frame and buffers as they are.
LEMMA OtherSteps ==
    ASSUME FrameInv,
           \/ CaptureEnds \/ LeaveLoopAtTop \/ BeginInference \/ InferenceDone
           \/ ReloadRelease \/ ReloadInitialize \/ \E m \in Slots : SwitchModel(m)
           \/ StopRunning \/ Heal \/ \E c \in Sources : SourceDies(c)
    PROVE  FrameInv'
<1>1. UNCHANGED <<sources, multi, frame, lent, turn, recorder>>
  BY DEF CaptureEnds, LeaveLoopAtTop, BeginInference, InferenceDone, ReloadRelease,
         ReloadInitialize, SwitchModel, StopRunning, SourceDies, Heal, setup
<1>2. Sources' = Sources
  BY <1>1 DEF Sources
<1>3. BuffersReturned'
  BY <1>1, <1>2 DEF FrameInv, BuffersReturned
<1>4. Held'
  BY <1>1, <1>2 DEF FrameInv, Held, LoopTypeOK, CaptureEnds, LeaveLoopAtTop, BeginInference,
         InferenceDone, ReloadRelease, ReloadInitialize, SwitchModel, StopRunning,
         SourceDies, Heal
<1>5. /\ step' \in {"top", "captured", "infer", "output", "stopped"}
      /\ lock' \in {"free", "pipeline", "reader"}
      /\ engine' \in {"up", "half", "down"} /\ active' \in Slots
      /\ dead' \subseteq Sources
      /\ {running', multi', healthy'} \subseteq BOOLEAN
  BY <1>1, <1>2 DEF FrameInv, LoopTypeOK, CaptureEnds, LeaveLoopAtTop, BeginInference,
         InferenceDone, ReloadRelease, ReloadInitialize, SwitchModel, StopRunning,
         SourceDies, Heal, outside
<1>6. LoopTypeOK'
  BY <1>1, <1>2, <1>5 DEF FrameInv, LoopTypeOK
<1>7. QED
  BY <1>3, <1>4, <1>6 DEF FrameInv

LEMMA FrameStarts == LoopInit => FrameInv
<1>1. ASSUME LoopInit PROVE FrameInv
  <2>1. 0 \in Sources /\ sources \in 1..MaxSources
    <3>1. sources \in 1..MaxSources
      BY <1>1 DEF LoopInit
    <3>2. QED
      BY <3>1, LoopConstants DEF Sources
  <2>2. NewRecorder \in Recorder
    BY RecorderConstants DEF NewRecorder, Recorder
  <2>3. active \in Slots
    BY <1>1, LoopConstants DEF LoopInit
  <2>4. LoopTypeOK
    BY <1>1, <2>1, <2>2, <2>3 DEF LoopInit, LoopTypeOK
  <2>5. Held /\ BuffersReturned
    BY <1>1 DEF LoopInit, Held, BuffersReturned
  <2>6. QED
    BY <2>4, <2>5 DEF FrameInv
<1>2. QED
  BY <1>1

LEMMA FrameStays == FrameInv /\ [LoopNext]_loopVars => FrameInv'
<1>1. ASSUME FrameInv, LoopNext PROVE FrameInv'
  <2>1. CASE Capture
    BY <1>1, <2>1, Captures
  <2>2. CASE PreprocessFails \/ InferenceFails \/ \E novel \in BOOLEAN : Output(novel)
    BY <1>1, <2>2, GivingBack
  <2>3. CASE \/ CaptureEnds \/ LeaveLoopAtTop \/ BeginInference \/ InferenceDone
             \/ ReloadRelease \/ ReloadInitialize \/ \E m \in Slots : SwitchModel(m)
             \/ StopRunning \/ Heal \/ \E c \in Sources : SourceDies(c)
    BY <1>1, <2>3, OtherSteps
  <2>4. QED
    BY <1>1, <2>1, <2>2, <2>3 DEF LoopNext
<1>2. ASSUME FrameInv, UNCHANGED loopVars PROVE FrameInv'
  BY <1>2 DEF loopVars, FrameInv, LoopTypeOK, Held, BuffersReturned, Sources
<1>3. QED
  BY <1>1, <1>2

\* Every camera has all its buffers back whenever the loop holds no frame,
\* whatever failed on the way.
THEOREM NoBufferLost == LoopSpec => []BuffersReturned
<1>1. FrameInv => BuffersReturned
  BY DEF FrameInv
<1>2. QED
  BY FrameStarts, FrameStays, <1>1, PTL DEF LoopSpec

\* No command touches engine_ or the active model while an inference runs:
\* both sides take engine_mutex_.
THEOREM EngineExclusive == LoopSpec => InferenceUndisturbed
<1>1. FrameInv /\ [LoopNext]_loopVars
        => [step = "infer" /\ step' = "infer" => UNCHANGED <<engine, active>>]_loopVars
  <2>1. ASSUME FrameInv, LoopNext, step = "infer", step' = "infer"
        PROVE  UNCHANGED <<engine, active>>
    BY <2>1 DEF FrameInv, Held, LoopNext, Capture, CaptureEnds, LeaveLoopAtTop,
         PreprocessFails, BeginInference, InferenceFails, InferenceDone, Output,
         ReleaseFrame, ReloadRelease, ReloadInitialize, SwitchModel, StopRunning,
         SourceDies, Heal
  <2>2. QED
    BY <2>1 DEF loopVars
<1>2. QED
  BY FrameStarts, FrameStays, <1>1, PTL DEF LoopSpec, InferenceUndisturbed
=============================================================================
