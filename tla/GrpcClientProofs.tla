-------------------------- MODULE GrpcClientProofs --------------------------
(***************************************************************************)
(* Theorems about GrpcClient for every set of threads, every set of other  *)
(* calls, every capacity and every limit of attempts.                      *)
(*                                                                         *)
(* A thread has up to two results in hand: the one it was called with,     *)
(* while it is Carrying it, and one taken from the cache queue, while it   *)
(* is Holding it.  Distinct says that no two places (queue, wire, server,  *)
(* hands of the threads) have a result in common, and that no place has a  *)
(* result that StreamDetection was not called with yet; every step moves   *)
(* results only between the hands of one thread and the shared places,     *)
(* which lemma Move turns into Distinct'.                                  *)
(***************************************************************************)
EXTENDS EdgeUplink, SequenceTheorems, FiniteSetTheorems, TLAPS

Holding(t) == pc[t] \in {"drainWrite", "writeOne", "requeue"}

\* What a thread works with: see Buffer and DrainWrite.
HandsOK ==
    \A t \in Threads : /\ Carrying(t) => cur[t] \in Nat
                       /\ Holding(t) <=> held[t] # NoResult

\* The results that thread t has in hand.
Hands(t) == (IF Carrying(t) THEN {cur[t]} ELSE {})
              \cup (IF Holding(t) THEN {held[t]} ELSE {})

Shared == ToSet(queue) \cup ToSet(wire) \cup received

\* Shared and the hands of t, each place apart from the others.
Apart(t) ==
    /\ ToSet(queue) \cap (ToSet(wire) \cup received \cup Hands(t)) = {}
    /\ ToSet(wire) \cap (received \cup Hands(t)) = {}
    /\ received \cap Hands(t) = {}
    /\ Carrying(t) /\ Holding(t) => cur[t] # held[t]

Distinct ==
    /\ IsInjective(queue) /\ IsInjective(wire)
    /\ Shared \subseteq 1..accepted
    /\ \A t \in Threads : Apart(t) /\ Hands(t) \subseteq 1..accepted
    /\ \A t, u \in Threads : t # u => Hands(t) \cap Hands(u) = {}

\* The threads that have looked at the limit and not yet counted.
Sleeping == {t \in Threads : pc[t] = "backoff"}
AttemptsInv == attempts + Cardinality(Sleeping) < MaxAttempts + Cardinality(Threads)

-----------------------------------------------------------------------------
(* Sequences as sets of results. *)

\* Appending a new element keeps a sequence injective.
LEMMA AppendSet ==
    ASSUME NEW s \in Seq(Nat), NEW x \in Nat
    PROVE  /\ Append(s, x) \in Seq(Nat)
           /\ ToSet(Append(s, x)) = ToSet(s) \cup {x}
           /\ IsInjective(s) /\ x \notin ToSet(s) => IsInjective(Append(s, x))
<1> DEFINE a == Append(s, x)
<1>1. /\ a \in Seq(Nat) /\ Len(s) \in Nat /\ Len(a) = Len(s) + 1
      /\ DOMAIN s = 1..Len(s) /\ DOMAIN a = 1..(Len(s) + 1)
      /\ \A i \in 1..Len(s) : a[i] = s[i]
      /\ a[Len(s) + 1] = x
  BY AppendProperties, LenProperties
<1> HIDE DEF a
<1>2. ToSet(a) = ToSet(s) \cup {x}
  BY <1>1 DEF ToSet
<1>3. ASSUME IsInjective(s), x \notin ToSet(s)
      PROVE  IsInjective(a)
  <2>1. \A i \in 1..Len(s) : a[i] # x
    BY <1>1, <1>3 DEF ToSet
  <2>2. \A i, j \in 1..Len(s) : a[i] = a[j] => i = j
    BY <1>1, <1>3 DEF IsInjective
  <2>3. SUFFICES ASSUME NEW i \in 1..(Len(s) + 1), NEW j \in 1..(Len(s) + 1), a[i] = a[j]
                 PROVE  i = j
    BY <1>1 DEF IsInjective
  <2>4. (i \in 1..Len(s) \/ i = Len(s) + 1) /\ (j \in 1..Len(s) \/ j = Len(s) + 1)
    BY <1>1
  <2>5. QED
    BY <1>1, <2>1, <2>2, <2>3, <2>4
<1>4. QED
  BY <1>1, <1>2, <1>3 DEF a

\* Taking the front of an injective sequence leaves all its other elements.
LEMMA TailSet ==
    ASSUME NEW s \in Seq(Nat), s # <<>>
    PROVE  /\ Tail(s) \in Seq(Nat) /\ Head(s) \in Nat
           /\ Head(s) \in ToSet(s)
           /\ ToSet(s) = ToSet(Tail(s)) \cup {Head(s)}
           /\ IsInjective(s) => IsInjective(Tail(s)) /\ Head(s) \notin ToSet(Tail(s))
<1> DEFINE r == Tail(s)
           n == Len(r)
<1>1. /\ r \in Seq(Nat) /\ Head(s) \in Nat /\ Head(s) = s[1]
      /\ n \in Nat /\ Len(s) = n + 1
      /\ DOMAIN s = 1..(n + 1) /\ DOMAIN r = 1..n
      /\ \A i \in 1..n : r[i] = s[i + 1]
  <2>1. Len(s) \in Nat \ {0} /\ n = Len(s) - 1
    BY HeadTailProperties, EmptySeq
  <2>2. n \in Nat /\ Len(s) = n + 1
    BY <2>1
  <2>3. QED
    BY <2>2, HeadTailProperties, LenProperties
<1> HIDE DEF r, n
<1>2. \A i \in 1..n : i + 1 \in 1..(n + 1) /\ i + 1 # 1 /\ r[i] = s[i + 1]
  BY <1>1
<1>3. ToSet(s) = ToSet(r) \cup {s[1]} /\ s[1] \in ToSet(s)
  <2>1. \A i \in 1..(n + 1) : i = 1 \/ \E j \in 1..n : i = j + 1
    <3>1. \A i \in 1..(n + 1) : i # 1 => i - 1 \in 1..n /\ i = (i - 1) + 1
      BY <1>1
    <3>2. QED
      BY <3>1
  <2>2. 1 \in 1..(n + 1)
    BY <1>1
  <2>3. ToSet(s) = {s[i] : i \in 1..(n + 1)} /\ ToSet(r) = {r[i] : i \in 1..n}
    BY <1>1 DEF ToSet
  <2>4. ASSUME NEW x \in ToSet(s)
        PROVE  x \in ToSet(r) \cup {s[1]}
    <3>1. PICK i \in 1..(n + 1) : x = s[i]
      BY <2>3
    <3>2. CASE i = 1
      BY <3>1, <3>2
    <3>3. ASSUME NEW j \in 1..n, i = j + 1
          PROVE  x \in ToSet(r)
      <4>1. x = r[j]
        BY <1>2, <3>1, <3>3
      <4>2. QED
        BY <2>3, <4>1
    <3>4. QED
      BY <2>1, <3>2, <3>3
  <2>5. \A x : x \in ToSet(r) \cup {s[1]} => x \in ToSet(s)
    BY <1>2, <2>2, <2>3
  <2>6. QED
    BY <2>2, <2>3, <2>4, <2>5
<1>4. ASSUME IsInjective(s)
      PROVE  IsInjective(r) /\ s[1] \notin ToSet(r)
  <2>1. \A i, j \in 1..(n + 1) : s[i] = s[j] => i = j
    BY <1>1, <1>4 DEF IsInjective
  <2>5. 1 \in 1..(n + 1)
    <3>1. n \in Nat
      BY <1>1
    <3>2. QED
      BY <3>1
  <2>2. \A i, j \in 1..n : r[i] = r[j] => i = j
    <3>1. \A i, j \in 1..n : i + 1 = j + 1 => i = j
      BY <1>1
    <3>2. QED
      BY <1>2, <2>1, <3>1
  <2>3. \A i \in 1..n : r[i] # s[1]
    BY <1>2, <2>1, <2>5
  <2>4. QED
    BY <1>1, <2>2, <2>3 DEF IsInjective, ToSet
<1>5. QED
  BY <1>1, <1>3, <1>4 DEF r

-----------------------------------------------------------------------------
(* The moves of the model, as facts about places. *)

LEMMA EnqueueSet ==
    ASSUME TypeOK, NEW x \in Nat, Enqueue(x)
    PROVE  /\ queue' \in Seq(Nat) /\ excused' \subseteq Nat
           /\ ToSet(queue') \subseteq ToSet(queue) \cup {x}
           /\ IsInjective(queue) /\ x \notin ToSet(queue) => IsInjective(queue')
<1>1. queue \in Seq(Nat) /\ excused \subseteq Nat
  BY DEF TypeOK
<1>2. CASE Len(queue) < CacheEntries
  <2>1. queue' = Append(queue, x) /\ excused' = excused
    BY <1>2 DEF Enqueue
  <2>2. QED
    BY <1>1, <2>1, AppendSet
<1>3. CASE ~(Len(queue) < CacheEntries)
  <2>1. queue' = Append(Tail(queue), x) /\ excused' = excused \cup {Head(queue)}
    BY <1>3 DEF Enqueue
  <2>2. queue # <<>>
    BY <1>1, <1>3, ClientConstants, EmptySeq
  <2>3. /\ Tail(queue) \in Seq(Nat) /\ Head(queue) \in Nat
        /\ ToSet(Tail(queue)) \subseteq ToSet(queue)
        /\ IsInjective(queue) => IsInjective(Tail(queue))
    BY <1>1, <2>2, TailSet
  <2>4. /\ queue' \in Seq(Nat)
        /\ ToSet(queue') = ToSet(Tail(queue)) \cup {x}
        /\ IsInjective(Tail(queue)) /\ x \notin ToSet(Tail(queue)) => IsInjective(queue')
    BY <2>1, <2>3, AppendSet
  <2>5. QED
    BY <1>1, <2>1, <2>3, <2>4
<1>4. QED
  BY <1>2, <1>3

\* A thread's step changes its own label only.
LEMMA GotoLabel ==
    ASSUME pc \in [Threads -> Labels], NEW t \in Threads, NEW label \in Labels,
           Goto(t, label)
    PROVE  /\ pc' \in [Threads -> Labels] /\ pc'[t] = label
           /\ \A u \in Threads : u # t => pc'[u] = pc[u]
BY DEF Goto

\* What the write of the caller's own result does.
LEMMA SendBlockPlaces ==
    ASSUME TypeOK, NEW t \in Threads, NEW x \in Nat, SendBlock(t, x)
    PROVE  /\ connected' \in BOOLEAN /\ stub' = stub /\ attempts' = attempts
           /\ connected' => connected
           /\ stream' \in {"closed", "open", "broken"}
           /\ stream' # "closed" => stream # "closed" \/ stub
           /\ wire' \in Seq(Nat)
           /\ pc' \in [Threads -> Labels]
           /\ \A u \in Threads : u # t => pc'[u] = pc[u]
           /\ \/ wire' = wire /\ pc'[t] = "buffer"
              \/ wire' = Append(wire, x) /\ pc'[t] \in {"idle", "takeOne"}
<1>0. /\ pc \in [Threads -> Labels] /\ wire \in Seq(Nat) /\ Append(wire, x) \in Seq(Nat)
      /\ {"buffer", "idle", "takeOne"} \subseteq Labels
  BY AppendSet DEF TypeOK, Labels
<1>1. CASE ~CanOpen /\ connected' = FALSE /\ Goto(t, "buffer")
           /\ UNCHANGED <<stub, attempts, stream, wire>>
  BY <1>0, <1>1, GotoLabel DEF TypeOK, CanOpen
<1>2. CASE /\ CanOpen /\ OpenedStream = "open"
           /\ stream' = "open"
           /\ wire' = Append(wire, x)
           /\ Goto(t, IF queue = <<>> THEN "idle" ELSE "takeOne")
           /\ UNCHANGED <<connected, stub, attempts>>
  <2>1. (IF queue = <<>> THEN "idle" ELSE "takeOne") \in Labels
    BY <1>0
  <2>2. /\ pc' \in [Threads -> Labels] /\ pc'[t] \in {"idle", "takeOne"}
        /\ \A u \in Threads : u # t => pc'[u] = pc[u]
    BY <1>0, <1>2, <2>1, GotoLabel
  <2>3. QED
    BY <1>0, <1>2, <2>2 DEF TypeOK, CanOpen
<1>3. CASE /\ CanOpen /\ OpenedStream = "broken"
           /\ stream' = "closed"
           /\ connected' = FALSE
           /\ Goto(t, "buffer")
           /\ UNCHANGED <<stub, attempts, wire>>
  BY <1>0, <1>3, GotoLabel DEF TypeOK
<1>4. QED
  BY <1>1, <1>2, <1>3 DEF SendBlock

IInv == TypeOK /\ HandsOK /\ Distinct

\* The results of the other threads stay apart from what thread t moves.
LEMMA Move ==
    ASSUME IInv, TypeOK', NEW t \in Threads,
           accepted <= accepted',
           \A u \in Threads : u # t =>
              pc'[u] = pc[u] /\ cur'[u] = cur[u] /\ held'[u] = held[u],
           Carrying(t)' => cur'[t] \in Nat,
           Holding(t)' <=> held'[t] # NoResult,
           IsInjective(queue'), IsInjective(wire'),
           Apart(t)',
           Shared' \cup Hands(t)' \subseteq Shared \cup Hands(t) \cup (accepted + 1)..accepted'
    PROVE  IInv'
<1>1. HandsOK'
  BY DEF IInv, HandsOK, Carrying, Holding
<1>2. ASSUME NEW u \in Threads, u # t
      PROVE  /\ Hands(u)' = Hands(u)
             /\ (Carrying(u) /\ Holding(u) => cur[u] # held[u])'
  <2>1. Hands(u)' = Hands(u)
    BY <1>2 DEF Hands, Carrying, Holding
  <2>2. Apart(u)
    BY DEF IInv, Distinct
  <2>3. QED
    BY <1>2, <2>1, <2>2 DEF Apart, Carrying, Holding
<1>3. accepted \in Nat /\ accepted' \in Nat
  BY DEF TypeOK, IInv
<1>4. \A x \in 1..accepted : x \in 1..accepted' /\ x \notin (accepted + 1)..accepted'
  BY <1>3
<1>5. \A x \in (accepted + 1)..accepted' : x \in 1..accepted'
  BY <1>3
<1>6. Shared \cup Hands(t) \subseteq 1..accepted
  BY DEF IInv, Distinct
<1>7. Shared' \cup Hands(t)' \subseteq 1..accepted'
  BY <1>4, <1>5, <1>6
<1>8. ASSUME NEW u \in Threads, u # t
      PROVE  /\ Hands(u)' \subseteq 1..accepted'
             /\ Hands(u)' \cap (Shared' \cup Hands(t)') = {}
  <2>1. Hands(u) \subseteq 1..accepted /\ Hands(u) \cap Hands(t) = {} /\ Apart(u)
    BY <1>8 DEF IInv, Distinct
  <2>2. Hands(u) \cap Shared = {}
    BY <2>1 DEF Apart, Shared
  <2>3. QED
    BY <1>2, <1>4, <1>8, <2>1, <2>2
<1>9. ASSUME NEW u \in Threads, u # t
      PROVE  Apart(u)'
  BY <1>2, <1>8, <1>9 DEF Apart, Shared
<1>10. \A u, v \in Threads : u # v => (Hands(u) \cap Hands(v))' = {}
  <2>1. ASSUME NEW u \in Threads, NEW v \in Threads, u # v, u # t, v # t
        PROVE  (Hands(u) \cap Hands(v))' = {}
    BY <1>2, <2>1 DEF IInv, Distinct
  <2>2. QED
    BY <1>8, <2>1
<1>11. Distinct'
  BY <1>7, <1>8, <1>9, <1>10 DEF Distinct
<1>12. QED
  BY <1>1, <1>11 DEF IInv

\* A step of the network leaves the hands alone.
LEMMA Pass ==
    ASSUME IInv, TypeOK', UNCHANGED <<pc, cur, held, queue, accepted>>,
           IsInjective(wire'),
           (ToSet(wire) \cup received)' \subseteq ToSet(wire) \cup received,
           (ToSet(wire) \cap received)' = {}
    PROVE  IInv'
<1>1. HandsOK'
  BY DEF IInv, HandsOK, Carrying, Holding
<1>2. \A t \in Threads : Hands(t)' = Hands(t)
  BY DEF Hands, Carrying, Holding
<1>3. Shared' \subseteq Shared
  BY DEF Shared
<1>4. ASSUME NEW t \in Threads
      PROVE  Apart(t)'
  <2>1. Apart(t)
    BY DEF IInv, Distinct
  <2>2. (Carrying(t) /\ Holding(t) => cur[t] # held[t])'
    BY <2>1 DEF Apart, Carrying, Holding
  <2>3. QED
    BY <1>2, <2>1, <2>2 DEF Apart
<1>5. QED
  BY <1>1, <1>2, <1>3, <1>4 DEF IInv, Distinct

\* What a thread carries or holds, by where it is.
LEMMA Places ==
    ASSUME NEW t \in Threads
    PROVE  /\ pc[t] = "idle" => Hands(t) = {} /\ ~Carrying(t) /\ ~Holding(t)
           /\ pc[t] = "takeOne" => Hands(t) = {} /\ ~Carrying(t) /\ ~Holding(t)
           /\ pc[t] \in {"backoff", "buffer", "drain", "resume"} =>
                 Hands(t) = {cur[t]} /\ Carrying(t) /\ ~Holding(t)
           /\ pc[t] = "drainWrite" =>
                 Hands(t) = {cur[t], held[t]} /\ Carrying(t) /\ Holding(t)
           /\ pc[t] \in {"writeOne", "requeue"} =>
                 Hands(t) = {held[t]} /\ ~Carrying(t) /\ Holding(t)
BY DEF Hands, Carrying, Holding

\* Sending a result that a thread has in hand, or a new one.
LEMMA SendKeeps ==
    ASSUME IInv, TypeOK', NEW t \in Threads, NEW x \in Nat,
           SendBlock(t, x), UNCHANGED <<queue, received, held>>,
           \A u \in Threads : u # t => cur'[u] = cur[u],
           cur'[t] = x, pc[t] \in {"idle", "resume"},
           \/ pc[t] = "idle" /\ x = accepted + 1 /\ accepted' = accepted + 1
           \/ pc[t] = "resume" /\ x = cur[t] /\ accepted' = accepted
    PROVE  IInv'
<1>1. /\ wire' \in Seq(Nat) /\ wire \in Seq(Nat) /\ accepted \in Nat
      /\ \A u \in Threads : u # t => pc'[u] = pc[u]
      /\ \/ wire' = wire /\ pc'[t] = "buffer"
         \/ wire' = Append(wire, x) /\ pc'[t] \in {"idle", "takeOne"}
  BY SendBlockPlaces DEF IInv, TypeOK
<1>2. Apart(t) /\ IsInjective(queue) /\ IsInjective(wire) /\ Shared \subseteq 1..accepted
  BY DEF IInv, Distinct
<1>3. ~Holding(t) /\ held[t] = NoResult
  BY Places DEF IInv, HandsOK
<1>4. x \notin Shared
  <2>1. CASE pc[t] = "idle"
    <3>1. x = accepted + 1
      BY <2>1
    <3>2. x \notin 1..accepted
      BY <1>1, <3>1
    <3>3. QED
      BY <1>2, <3>2
  <2>2. CASE pc[t] = "resume"
    BY <1>2, <2>2, Places DEF Apart, Shared
  <2>3. QED
    BY <2>1, <2>2
<1>5. /\ accepted <= accepted'
      /\ {x} \subseteq Hands(t) \cup (accepted + 1)..accepted'
  <2>1. CASE pc[t] = "idle"
    BY <1>1, <2>1
  <2>2. CASE pc[t] = "resume"
    BY <1>1, <2>2, Places
  <2>3. QED
    BY <2>1, <2>2
<1>6. CASE wire' = wire /\ pc'[t] = "buffer"
  <2>1. Hands(t)' = {x} /\ Carrying(t)' /\ ~Holding(t)'
    BY <1>6 DEF Hands, Carrying, Holding
  <2>2. Apart(t)' /\ Shared' = Shared
    BY <1>2, <1>4, <1>6, <2>1 DEF Apart, Shared
  <2>3. QED
    BY <1>1, <1>2, <1>3, <1>5, <1>6, <2>1, <2>2, Move
<1>7. CASE wire' = Append(wire, x) /\ pc'[t] \in {"idle", "takeOne"}
  <2>1. Hands(t)' = {} /\ ~Carrying(t)' /\ ~Holding(t)'
    BY <1>7 DEF Hands, Carrying, Holding
  <2>2. ToSet(wire') = ToSet(wire) \cup {x} /\ IsInjective(wire')
    BY <1>1, <1>2, <1>4, <1>7, AppendSet DEF Shared
  <2>3. Apart(t)' /\ Shared' = Shared \cup {x}
    BY <1>2, <1>4, <2>1, <2>2 DEF Apart, Shared
  <2>4. QED
    BY <1>1, <1>2, <1>3, <1>5, <2>1, <2>2, <2>3, Move
<1>8. QED
  BY <1>1, <1>6, <1>7

-----------------------------------------------------------------------------
(* The steps of StreamDetection. *)

LEMMA KeepStreamDetection ==
    ASSUME IInv, NEW t \in Threads, StreamDetection(t)
    PROVE  IInv'
<1> DEFINE x == accepted + 1
<1>1. /\ pc[t] = "idle" /\ accepted' = x /\ cur' = [cur EXCEPT ![t] = x]
      /\ UNCHANGED <<queue, held, server, received, excused, outages>>
      /\ x \in Nat /\ TypeOK
  BY DEF StreamDetection, IInv, TypeOK
<1>2. /\ cur' \in [Threads -> Nat \cup {NoResult}] /\ cur'[t] = x
      /\ \A u \in Threads : u # t => cur'[u] = cur[u]
  BY <1>1 DEF TypeOK
<1>3. CASE CallConnected(t, x)
  <2>1. SendBlock(t, x)
    BY <1>3 DEF CallConnected
  <2>2. TypeOK'
    BY <1>1, <1>2, <2>1, SendBlockPlaces DEF TypeOK
  <2>3. QED
    BY <1>1, <1>2, <2>1, <2>2, SendKeeps
<1>4. CASE CallExhausted(t) \/ CallBackoff(t)
  <2>1. PICK label \in {"buffer", "backoff"} :
           Goto(t, label) /\ UNCHANGED <<client, wire>>
    BY <1>4 DEF CallExhausted, CallBackoff
  <2>2. /\ pc' \in [Threads -> Labels] /\ pc'[t] = label
        /\ \A u \in Threads : u # t => pc'[u] = pc[u]
    BY <1>1, <2>1, GotoLabel DEF TypeOK, Labels
  <2>3. TypeOK'
    BY <1>1, <1>2, <2>1, <2>2 DEF TypeOK, client
  <2>4. Hands(t)' = {x} /\ Carrying(t)' /\ ~Holding(t)'
    BY <1>2, <2>2 DEF Hands, Carrying, Holding
  <2>5. /\ Apart(t) /\ IsInjective(queue) /\ IsInjective(wire)
        /\ Shared \subseteq 1..accepted
        /\ held[t] = NoResult
    BY <1>1, Places DEF IInv, Distinct, HandsOK
  <2>6. x \notin Shared /\ accepted <= accepted' /\ {x} \subseteq x..accepted'
    <3>1. accepted \in Nat
      BY <1>1 DEF TypeOK
    <3>2. x \notin 1..accepted
      BY <3>1
    <3>3. QED
      BY <1>1, <2>5, <3>1, <3>2
  <2>7. Apart(t)' /\ Shared' = Shared
    BY <1>1, <2>1, <2>4, <2>5, <2>6 DEF Apart, Shared
  <2>8. QED
    BY <1>1, <1>2, <2>1, <2>2, <2>3, <2>4, <2>5, <2>6, <2>7, Move
<1>5. QED
  BY <1>3, <1>4 DEF StreamDetection

LEMMA KeepReconnect ==
    ASSUME IInv, NEW t \in Threads, Reconnect(t)
    PROVE  IInv'
<1>1. TypeOK /\ pc[t] = "backoff"
      /\ UNCHANGED <<stream, queue, cur, held, network, accepted, excused>>
  BY DEF Reconnect, IInv
<1>2. PICK label \in {"drain", "buffer"} : Goto(t, label)
  BY DEF Reconnect
<1>3. /\ pc' \in [Threads -> Labels] /\ pc'[t] = label
      /\ \A u \in Threads : u # t => pc'[u] = pc[u]
  BY <1>1, <1>2, GotoLabel DEF TypeOK, Labels
<1>4. TypeOK'
  <2>1. connected' \in BOOLEAN /\ stub' \in BOOLEAN
    <3>1. stub' = TRUE /\ (connected' = TRUE \/ connected' = connected)
      BY DEF Reconnect
    <3>2. connected \in BOOLEAN
      BY <1>1 DEF TypeOK
    <3>3. QED
      BY <3>1, <3>2
  <2>2. attempts' \in Nat
    <3>1. attempts' = 0 \/ attempts' = attempts + 1
      BY DEF Reconnect
    <3>2. QED
      BY <1>1, <3>1 DEF TypeOK
  <2>3. QED
    BY <1>1, <1>3, <2>1, <2>2 DEF TypeOK, network
<1>5. Hands(t)' = Hands(t) /\ Carrying(t)' /\ ~Holding(t)' /\ Carrying(t) /\ ~Holding(t)
  BY <1>1, <1>3 DEF Hands, Carrying, Holding
<1>6. Apart(t) /\ IsInjective(queue) /\ IsInjective(wire) /\ cur[t] \in Nat /\ held[t] = NoResult
  BY <1>5 DEF IInv, Distinct, HandsOK
<1>7. Apart(t)' /\ Shared' = Shared
  BY <1>1, <1>5, <1>6 DEF Apart, Shared, network
<1>8. QED
  <2>1. accepted \in Nat
    BY <1>1 DEF TypeOK
  <2>2. QED
    BY <1>1, <1>3, <1>4, <1>5, <1>6, <1>7, <2>1, Move DEF network

LEMMA KeepBuffer ==
    ASSUME IInv, NEW t \in Threads, Buffer(t)
    PROVE  IInv'
<1>1. /\ TypeOK /\ pc[t] = "buffer" /\ Enqueue(cur[t]) /\ Goto(t, "idle")
      /\ UNCHANGED <<client, cur, held, network, accepted>>
  BY DEF Buffer, IInv
<1>2. /\ pc' \in [Threads -> Labels] /\ pc'[t] = "idle"
      /\ \A u \in Threads : u # t => pc'[u] = pc[u]
  BY <1>1, GotoLabel DEF TypeOK, Labels
<1>3. Hands(t) = {cur[t]} /\ Carrying(t) /\ ~Holding(t)
  BY <1>1, Places
<1>4. Hands(t)' = {} /\ ~Carrying(t)' /\ ~Holding(t)'
  BY <1>2 DEF Hands, Carrying, Holding
<1>5. Apart(t) /\ IsInjective(queue) /\ IsInjective(wire) /\ cur[t] \in Nat /\ held[t] = NoResult
  BY <1>3 DEF IInv, Distinct, HandsOK
<1>6. cur[t] \notin Shared
  BY <1>3, <1>5 DEF Apart, Shared
<1>7. /\ queue' \in Seq(Nat) /\ excused' \subseteq Nat /\ IsInjective(queue')
      /\ ToSet(queue') \subseteq ToSet(queue) \cup {cur[t]}
  BY <1>1, <1>5, <1>6, EnqueueSet DEF Shared
<1>8. TypeOK'
  BY <1>1, <1>2, <1>7 DEF TypeOK, client, network
<1>9. Apart(t)' /\ Shared' \subseteq Shared \cup Hands(t)
  BY <1>1, <1>3, <1>4, <1>5, <1>6, <1>7 DEF Apart, Shared, network
<1>10. QED
  <2>1. accepted \in Nat
    BY <1>1 DEF TypeOK
  <2>2. QED
    BY <1>1, <1>2, <1>4, <1>5, <1>7, <1>8, <1>9, <2>1, Move DEF network

LEMMA KeepRequeue ==
    ASSUME IInv, NEW t \in Threads, Requeue(t)
    PROVE  IInv'
<1>1. /\ TypeOK /\ pc[t] = "requeue" /\ Enqueue(held[t]) /\ Goto(t, "idle")
      /\ held' = [held EXCEPT ![t] = NoResult]
      /\ UNCHANGED <<client, cur, network, accepted>>
  BY DEF Requeue, IInv
<1>2. /\ pc' \in [Threads -> Labels] /\ pc'[t] = "idle"
      /\ \A u \in Threads : u # t => pc'[u] = pc[u]
  BY <1>1, GotoLabel DEF TypeOK, Labels
<1>3. Hands(t) = {held[t]} /\ ~Carrying(t) /\ Holding(t)
  BY <1>1, Places
<1>4. Hands(t)' = {} /\ ~Carrying(t)' /\ ~Holding(t)'
  BY <1>2 DEF Hands, Carrying, Holding
<1>5. /\ Apart(t) /\ IsInjective(queue) /\ IsInjective(wire) /\ held[t] \in Nat
      /\ held' \in [Threads -> Nat \cup {NoResult}] /\ held'[t] = NoResult
      /\ \A u \in Threads : u # t => held'[u] = held[u]
  BY <1>1, <1>3 DEF IInv, Distinct, HandsOK, TypeOK
<1>6. held[t] \notin Shared
  BY <1>3, <1>5 DEF Apart, Shared
<1>7. /\ queue' \in Seq(Nat) /\ excused' \subseteq Nat /\ IsInjective(queue')
      /\ ToSet(queue') \subseteq ToSet(queue) \cup {held[t]}
  BY <1>1, <1>5, <1>6, EnqueueSet DEF Shared
<1>8. TypeOK'
  BY <1>1, <1>2, <1>5, <1>7 DEF TypeOK, client, network
<1>9. Apart(t)' /\ Shared' \subseteq Shared \cup Hands(t)
  BY <1>1, <1>3, <1>4, <1>5, <1>6, <1>7 DEF Apart, Shared, network
<1>10. QED
  <2>1. accepted \in Nat
    BY <1>1 DEF TypeOK
  <2>2. QED
    BY <1>1, <1>2, <1>4, <1>5, <1>7, <1>8, <1>9, <2>1, Move DEF network

LEMMA KeepResume ==
    ASSUME IInv, NEW t \in Threads, Resume(t)
    PROVE  IInv'
<1>1. /\ TypeOK /\ pc[t] = "resume" /\ SendBlock(t, cur[t])
      /\ UNCHANGED <<queue, cur, held, server, received, accepted, excused, outages>>
  BY DEF Resume, IInv
<1>2. cur[t] \in Nat
  BY <1>1, Places DEF IInv, HandsOK
<1>3. TypeOK'
  BY <1>1, <1>2, SendBlockPlaces DEF TypeOK
<1>4. QED
  BY <1>1, <1>2, <1>3, SendKeeps

\* Taking the front entry of the cache queue.
LEMMA DequeueSet ==
    ASSUME TypeOK, queue # <<>>, queue' = Tail(queue)
    PROVE  /\ queue' \in Seq(Nat) /\ Head(queue) \in Nat
           /\ ToSet(queue) = ToSet(queue') \cup {Head(queue)}
           /\ IsInjective(queue) => IsInjective(queue') /\ Head(queue) \notin ToSet(queue')
BY TailSet DEF TypeOK

\* The three ways in which DrainTake and TakeOne end.
LEMMA KeepTake ==
    ASSUME IInv, NEW t \in Threads,
           NEW after \in {"drainWrite", "writeOne"}, NEW stop \in {"resume", "idle"},
           \/ pc[t] = "drain" /\ after = "drainWrite" /\ stop = "resume"
           \/ pc[t] = "takeOne" /\ after = "writeOne" /\ stop = "idle",
           UNCHANGED <<client, cur, network, accepted>>,
           \/ /\ queue # <<>>
              /\ held' = [held EXCEPT ![t] = Head(queue)]
              /\ queue' = Tail(queue)
              /\ Goto(t, after)
              /\ UNCHANGED excused
           \/ /\ queue # <<>>
              /\ queue' = Tail(queue)
              /\ excused' = excused \cup {Head(queue)}
              /\ Goto(t, stop)
              /\ UNCHANGED held
           \/ /\ Goto(t, stop)
              /\ UNCHANGED <<queue, held, excused>>
    PROVE  IInv'
<1>1. /\ TypeOK /\ Apart(t) /\ IsInjective(queue) /\ IsInjective(wire)
      /\ pc \in [Threads -> Labels] /\ after \in Labels /\ stop \in Labels
      /\ wire' = wire /\ received' = received /\ accepted \in Nat
  BY DEF IInv, Distinct, TypeOK, Labels, network
<1>2. /\ ~Holding(t) /\ held[t] = NoResult
      /\ Carrying(t) => cur[t] \in Nat
  BY Places DEF IInv, HandsOK
<1>3. CASE /\ queue # <<>>
           /\ held' = [held EXCEPT ![t] = Head(queue)]
           /\ queue' = Tail(queue)
           /\ Goto(t, after)
           /\ UNCHANGED excused
  <2>1. /\ queue' \in Seq(Nat) /\ Head(queue) \in Nat
        /\ ToSet(queue) = ToSet(queue') \cup {Head(queue)}
        /\ IsInjective(queue') /\ Head(queue) \notin ToSet(queue')
    BY <1>1, <1>3, DequeueSet
  <2>2. /\ pc' \in [Threads -> Labels] /\ pc'[t] = after
        /\ \A u \in Threads : u # t => pc'[u] = pc[u]
    BY <1>1, <1>3, GotoLabel
  <2>3. /\ held' \in [Threads -> Nat \cup {NoResult}] /\ held'[t] = Head(queue)
        /\ \A u \in Threads : u # t => held'[u] = held[u]
    BY <1>1, <1>3, <2>1 DEF TypeOK
  <2>4. TypeOK'
    BY <1>1, <1>3, <2>1, <2>2, <2>3 DEF TypeOK, client, network
  <2>5. /\ Hands(t)' = Hands(t) \cup {Head(queue)}
        /\ Carrying(t)' = Carrying(t) /\ Holding(t)'
    BY <1>2, <2>2, <2>3 DEF Hands, Carrying, Holding
  <2>6. Head(queue) \notin ToSet(wire) \cup received \cup Hands(t)
    BY <1>1, <2>1 DEF Apart
  <2>7. (Carrying(t) /\ Holding(t) => cur[t] # held[t])'
    BY <2>3, <2>5, <2>6 DEF Hands
  <2>8. Apart(t)' /\ Shared' \cup Hands(t)' \subseteq Shared \cup Hands(t)
    BY <1>1, <2>1, <2>5, <2>6, <2>7 DEF Apart, Shared
  <2>9. held'[t] # NoResult
    BY <2>1, <2>3, ClientConstants
  <2>10. QED
    BY <1>1, <1>2, <2>1, <2>2, <2>3, <2>4, <2>5, <2>8, <2>9, Move
<1>4. ASSUME Goto(t, stop), UNCHANGED held,
             queue' \in Seq(Nat), IsInjective(queue'), ToSet(queue') \subseteq ToSet(queue),
             excused' \subseteq Nat
      PROVE  IInv'
  <2>1. /\ pc' \in [Threads -> Labels] /\ pc'[t] = stop
        /\ \A u \in Threads : u # t => pc'[u] = pc[u]
    BY <1>1, <1>4, GotoLabel
  <2>2. TypeOK'
    BY <1>1, <1>4, <2>1 DEF TypeOK, client, network
  <2>3. Hands(t)' = Hands(t) /\ Carrying(t)' = Carrying(t) /\ ~Holding(t)'
    BY <1>2, <1>4, <2>1 DEF Hands, Carrying, Holding
  <2>4. Apart(t)' /\ Shared' \cup Hands(t)' \subseteq Shared \cup Hands(t)
    BY <1>1, <1>4, <2>3 DEF Apart, Shared
  <2>5. QED
    BY <1>1, <1>2, <1>4, <2>1, <2>2, <2>3, <2>4, Move
<1>5. CASE /\ queue # <<>>
           /\ queue' = Tail(queue)
           /\ excused' = excused \cup {Head(queue)}
           /\ Goto(t, stop)
           /\ UNCHANGED held
  BY <1>1, <1>4, <1>5, DequeueSet DEF TypeOK
<1>6. CASE Goto(t, stop) /\ UNCHANGED <<queue, held, excused>>
  BY <1>1, <1>4, <1>6 DEF TypeOK
<1>7. QED
  BY <1>3, <1>5, <1>6

LEMMA KeepDrainTake ==
    ASSUME IInv, NEW t \in Threads, DrainTake(t)
    PROVE  IInv'
BY KeepTake DEF DrainTake, DequeueGot

LEMMA KeepTakeOne ==
    ASSUME IInv, NEW t \in Threads, TakeOne(t)
    PROVE  IInv'
BY KeepTake DEF TakeOne, DequeueGot

LEMMA KeepDrainWrite ==
    ASSUME IInv, NEW t \in Threads, DrainWrite(t)
    PROVE  IInv'
<1>1. /\ TypeOK /\ pc[t] = "drainWrite"
      /\ held' = [held EXCEPT ![t] = NoResult]
      /\ UNCHANGED <<connected, stub, attempts, cur, server, received, accepted, outages>>
      /\ accepted \in Nat
  BY DEF DrainWrite, IInv, TypeOK
<1>2. stream' \in {"closed", "open", "broken"}
  BY <1>1 DEF DrainWrite, OpenedStream, TypeOK
<1>3. Hands(t) = {cur[t], held[t]} /\ Carrying(t) /\ Holding(t)
  BY <1>1, Places
<1>4. /\ Apart(t) /\ IsInjective(queue) /\ IsInjective(wire) /\ cur[t] \in Nat
      /\ held[t] \in Nat
      /\ held' \in [Threads -> Nat \cup {NoResult}] /\ held'[t] = NoResult
      /\ \A u \in Threads : u # t => held'[u] = held[u]
  BY <1>1, <1>3 DEF IInv, Distinct, HandsOK, TypeOK
<1>5. held[t] \notin Shared /\ held[t] # cur[t]
  BY <1>3, <1>4 DEF Apart, Shared
<1>6. ASSUME NEW label \in {"drain", "resume"}, Goto(t, label)
      PROVE  /\ pc' \in [Threads -> Labels]
             /\ \A u \in Threads : u # t => pc'[u] = pc[u]
             /\ Hands(t)' = {cur[t]} /\ Carrying(t)' /\ ~Holding(t)'
  <2>1. /\ pc' \in [Threads -> Labels] /\ pc'[t] = label
        /\ \A u \in Threads : u # t => pc'[u] = pc[u]
    BY <1>1, <1>6, GotoLabel DEF TypeOK, Labels
  <2>2. QED
    BY <1>1, <2>1 DEF Hands, Carrying, Holding
<1>7. CASE /\ wire' = Append(wire, held[t])
           /\ Goto(t, "drain")
           /\ UNCHANGED <<queue, excused>>
  <2>1. /\ wire' \in Seq(Nat) /\ IsInjective(wire')
        /\ ToSet(wire') = ToSet(wire) \cup {held[t]}
    BY <1>1, <1>4, <1>5, <1>7, AppendSet DEF TypeOK, Shared
  <2>2. TypeOK'
    BY <1>1, <1>2, <1>4, <1>6, <1>7, <2>1 DEF TypeOK
  <2>3. Hands(t)' = {cur[t]} /\ Carrying(t)' /\ ~Holding(t)'
    BY <1>6, <1>7
  <2>4. Apart(t)' /\ Shared' \cup Hands(t)' \subseteq Shared \cup Hands(t)
    BY <1>1, <1>3, <1>4, <1>5, <1>7, <2>1, <2>3 DEF Apart, Shared
  <2>5. QED
    BY <1>1, <1>4, <1>6, <1>7, <2>1, <2>2, <2>3, <2>4, Move
<1>8. CASE Enqueue(held[t]) /\ Goto(t, "resume") /\ UNCHANGED wire
  <2>1. /\ queue' \in Seq(Nat) /\ excused' \subseteq Nat /\ IsInjective(queue')
        /\ ToSet(queue') \subseteq ToSet(queue) \cup {held[t]}
    BY <1>1, <1>4, <1>5, <1>8, EnqueueSet DEF Shared
  <2>2. TypeOK'
    BY <1>1, <1>2, <1>4, <1>6, <1>8, <2>1 DEF TypeOK
  <2>3. Hands(t)' = {cur[t]} /\ Carrying(t)' /\ ~Holding(t)'
    BY <1>6, <1>8
  <2>4. Apart(t)' /\ Shared' \cup Hands(t)' \subseteq Shared \cup Hands(t)
    BY <1>1, <1>3, <1>4, <1>5, <1>8, <2>1, <2>3 DEF Apart, Shared
  <2>5. QED
    BY <1>1, <1>4, <1>6, <1>8, <2>1, <2>2, <2>3, <2>4, Move
<1>9. QED
  BY <1>7, <1>8 DEF DrainWrite

LEMMA KeepWriteOne ==
    ASSUME IInv, NEW t \in Threads, WriteOne(t)
    PROVE  IInv'
<1>1. /\ TypeOK /\ pc[t] = "writeOne" /\ accepted \in Nat
      /\ UNCHANGED <<client, queue, cur, server, received, accepted, excused, outages>>
  BY DEF WriteOne, IInv, TypeOK
<1>2. Hands(t) = {held[t]} /\ ~Carrying(t) /\ Holding(t)
  BY <1>1, Places
<1>3. /\ Apart(t) /\ IsInjective(queue) /\ IsInjective(wire)
      /\ held[t] \in Nat /\ held[t] # NoResult
  BY <1>1, <1>2 DEF IInv, Distinct, HandsOK, TypeOK
<1>4. held[t] \notin Shared
  BY <1>2, <1>3 DEF Apart, Shared
<1>5. ASSUME Goto(t, "idle"), held' = [held EXCEPT ![t] = NoResult],
             wire' = wire \/ wire' = Append(wire, held[t])
      PROVE  IInv'
  <2>1. /\ pc' \in [Threads -> Labels] /\ pc'[t] = "idle"
        /\ \A u \in Threads : u # t => pc'[u] = pc[u]
    BY <1>1, <1>5, GotoLabel DEF TypeOK, Labels
  <2>2. /\ held' \in [Threads -> Nat \cup {NoResult}] /\ held'[t] = NoResult
        /\ \A u \in Threads : u # t => held'[u] = held[u]
    BY <1>1, <1>5 DEF TypeOK
  <2>3. /\ wire' \in Seq(Nat) /\ IsInjective(wire')
        /\ ToSet(wire') \subseteq ToSet(wire) \cup {held[t]}
    <3>1. wire \in Seq(Nat) /\ held[t] \notin ToSet(wire)
      BY <1>1, <1>4 DEF TypeOK, Shared
    <3>2. CASE wire' = wire
      BY <1>3, <3>1, <3>2
    <3>3. CASE wire' = Append(wire, held[t])
      BY <1>3, <3>1, <3>3, AppendSet
    <3>4. QED
      BY <1>5, <3>2, <3>3
  <2>4. TypeOK'
    BY <1>1, <2>1, <2>2, <2>3 DEF TypeOK, client
  <2>5. Hands(t)' = {} /\ ~Carrying(t)' /\ ~Holding(t)'
    BY <2>1 DEF Hands, Carrying, Holding
  <2>6. Apart(t)' /\ Shared' \cup Hands(t)' \subseteq Shared \cup Hands(t)
    BY <1>1, <1>2, <1>3, <1>4, <2>3, <2>5 DEF Apart, Shared
  <2>7. QED
    BY <1>1, <1>3, <2>1, <2>2, <2>3, <2>4, <2>5, <2>6, Move
<1>6. CASE Goto(t, "requeue") /\ UNCHANGED <<wire, held>>
  <2>1. /\ pc' \in [Threads -> Labels] /\ pc'[t] = "requeue"
        /\ \A u \in Threads : u # t => pc'[u] = pc[u]
    BY <1>1, <1>6, GotoLabel DEF TypeOK, Labels
  <2>2. TypeOK'
    BY <1>1, <1>6, <2>1 DEF TypeOK, client
  <2>3. Hands(t)' = Hands(t) /\ ~Carrying(t)' /\ Holding(t)'
    <3>1. ~Carrying(t)' /\ Holding(t)'
      BY <2>1 DEF Carrying, Holding
    <3>2. QED
      BY <1>2, <1>6, <3>1 DEF Hands
  <2>4. Apart(t)' /\ Shared' = Shared
    BY <1>1, <1>2, <1>3, <1>6, <2>3 DEF Apart, Shared
  <2>5. QED
    BY <1>1, <1>3, <1>6, <2>1, <2>2, <2>3, <2>4, Move
<1>7. QED
  BY <1>5, <1>6 DEF WriteOne

-----------------------------------------------------------------------------
(* The other calls, and the network. *)

\* Closing the stream delivers, or losing it drops, what is in transit.
LEMMA KeepEmptied ==
    ASSUME IInv, TypeOK', UNCHANGED <<pc, cur, held, queue, accepted>>, wire' = <<>>,
           received' = received \/ received' = received \cup ToSet(wire)
    PROVE  IInv'
<1>1. ToSet(wire') = {} /\ IsInjective(wire')
  BY DEF ToSet, IsInjective
<1>2. QED
  BY <1>1, Pass

LEMMA KeepFinish ==
    ASSUME IInv, FinishStream, connected' \in BOOLEAN, stub' \in BOOLEAN,
           UNCHANGED <<attempts, queue, pc, cur, held, server, outages, accepted, excused>>
    PROVE  IInv'
<1>1. /\ TypeOK /\ wire' = <<>> /\ stream' = "closed"
      /\ received' = received \cup ToSet(wire)
  BY DEF IInv, FinishStream
<1>2. ToSet(wire) \subseteq Nat
  BY <1>1, ElementOfSeq, LenProperties DEF TypeOK, ToSet
<1>3. TypeOK'
  BY <1>1, <1>2, EmptySeq DEF TypeOK
<1>4. QED
  BY <1>1, <1>3, KeepEmptied

LEMMA KeepCut ==
    ASSUME IInv, CutStream, outages' \in Nat, server' \in BOOLEAN,
           UNCHANGED <<connected, stub, attempts, pc, cur, held, queue, received, accepted>>
    PROVE  IInv'
<1>1. /\ TypeOK /\ wire' = <<>> /\ excused' = excused \cup ToSet(wire)
      /\ stream' = "broken" \/ stream' = stream
  BY DEF IInv, CutStream
<1>2. ToSet(wire) \subseteq Nat
  BY <1>1, ElementOfSeq, LenProperties DEF TypeOK, ToSet
<1>3. TypeOK'
  BY <1>1, <1>2, EmptySeq DEF TypeOK
<1>4. QED
  BY <1>1, <1>3, KeepEmptied

LEMMA KeepFlush ==
    ASSUME IInv, FlushStream
    PROVE  IInv'
<1>1. /\ FinishStream
      /\ UNCHANGED <<stub, attempts, queue, pc, cur, held, server, outages, accepted, excused>>
      /\ connected' \in BOOLEAN
  BY DEF FlushStream
<1>2. stub' \in BOOLEAN
  BY <1>1 DEF IInv, TypeOK
<1>3. QED
  BY <1>1, <1>2, KeepFinish

\* No place has a result in common with the server's.
LEMMA WireApart ==
    ASSUME IInv
    PROVE  TypeOK /\ IsInjective(wire) /\ (ToSet(wire) \cap received = {})
<1>1. PICK t \in Threads : TRUE
  BY ClientConstants
<1>2. Apart(t)
  BY DEF IInv, Distinct
<1>3. QED
  BY <1>2 DEF IInv, Distinct, Apart

LEMMA KeepTryConnect ==
    ASSUME IInv, TryConnect
    PROVE  IInv'
<1>1. UNCHANGED <<stream, queue, pc, cur, held, network, accepted, excused>>
  BY DEF TryConnect
<1>2. /\ stub' \in BOOLEAN
      /\ connected' = TRUE \/ connected' = connected
      /\ attempts' = 0 \/ attempts' = attempts
  BY DEF TryConnect
<1>3. connected' \in BOOLEAN /\ attempts' \in Nat
  <2>1. connected \in BOOLEAN /\ attempts \in Nat
    BY WireApart DEF TypeOK
  <2>2. connected' \in BOOLEAN
    BY <1>2, <2>1
  <2>3. attempts' \in Nat
    BY <1>2, <2>1
  <2>4. QED
    BY <2>2, <2>3
<1>4. TypeOK'
  BY WireApart, <1>1, <1>2, <1>3 DEF TypeOK, network
<1>5. QED
  BY WireApart, <1>1, <1>4, Pass DEF network

LEMMA KeepControls ==
    ASSUME IInv, Connect \/ Disconnect \/ OtherFlush
    PROVE  IInv'
<1>0. TypeOK /\ IsInjective(wire) /\ (ToSet(wire) \cap received = {})
  BY WireApart
<1>1. CASE Connect
  BY <1>1, KeepTryConnect DEF Connect
<1>2. CASE Disconnect
  <2>1. /\ UNCHANGED <<attempts, queue, pc, cur, held, server, outages, accepted, excused>>
        /\ connected' \in BOOLEAN
    BY <1>2 DEF Disconnect
  <2>2. stub' \in BOOLEAN
    BY <1>2 DEF Disconnect
  <2>3. CASE stream = "closed" /\ UNCHANGED <<stream, wire, received>>
    <3>1. TypeOK'
      BY <1>0, <2>1, <2>2, <2>3 DEF TypeOK
    <3>2. QED
      BY <1>0, <2>1, <2>3, <3>1, Pass
  <2>4. CASE FinishStream
    BY <2>1, <2>2, <2>4, KeepFinish
  <2>5. QED
    BY <1>2, <2>3, <2>4 DEF Disconnect
<1>3. QED
  BY <1>1, <1>2, KeepFlush DEF OtherFlush

LEMMA KeepNetwork ==
    ASSUME IInv, Network
    PROVE  IInv'
<1>0. TypeOK /\ IsInjective(wire) /\ (ToSet(wire) \cap received = {})
  BY WireApart
<1>1. CASE Deliver
  <2>1. /\ wire # <<>> /\ wire' = Tail(wire) /\ received' = received \cup {Head(wire)}
        /\ UNCHANGED <<client, queue, pc, cur, held, server, outages, accepted, excused>>
    BY <1>1 DEF Deliver
  <2>2. /\ wire' \in Seq(Nat) /\ Head(wire) \in Nat
        /\ ToSet(wire) = ToSet(wire') \cup {Head(wire)}
        /\ IsInjective(wire') /\ Head(wire) \notin ToSet(wire')
    BY <1>0, <2>1, TailSet DEF TypeOK
  <2>3. TypeOK'
    BY <1>0, <2>1, <2>2 DEF TypeOK, client
  <2>4. QED
    BY <1>0, <2>1, <2>2, <2>3, Pass
<1>2. CASE Break \/ ServerDown
  <2>1. /\ CutStream /\ outages' \in Nat /\ server' \in BOOLEAN
        /\ UNCHANGED <<connected, stub, attempts, pc, cur, held, queue, received, accepted>>
    <3>1. CutStream /\ outages' = outages + 1 /\ server' \in {server, FALSE}
      BY <1>2 DEF Break, ServerDown
    <3>2. outages \in Nat /\ server \in BOOLEAN
      BY <1>0 DEF TypeOK
    <3>3. outages' \in Nat
      BY <3>1, <3>2
    <3>4. server' \in BOOLEAN
      BY <3>1, <3>2
    <3>5. UNCHANGED <<connected, stub, attempts, pc, cur, held, queue, received, accepted>>
      BY <1>2 DEF Break, ServerDown
    <3>6. QED
      BY <3>1, <3>3, <3>4, <3>5
  <2>2. QED
    BY <2>1, KeepCut
<1>3. CASE ServerUp
  <2>1. /\ server' = TRUE
        /\ UNCHANGED <<client, queue, pc, cur, held, wire, received, outages, accepted, excused>>
    BY <1>3 DEF ServerUp
  <2>2. TypeOK'
    BY <1>0, <2>1 DEF TypeOK, client
  <2>3. QED
    BY <1>0, <2>1, <2>2, Pass
<1>4. QED
  BY <1>1, <1>2, <1>3 DEF Network

-----------------------------------------------------------------------------
LEMMA InitIInv == Init => IInv
<1> SUFFICES ASSUME Init PROVE IInv
  OBVIOUS
<1>1. TypeOK
  BY ClientConstants, EmptySeq DEF Init, TypeOK, Labels
<1>2. HandsOK
  BY DEF Init, HandsOK, Carrying, Holding
<1>3. \A t \in Threads : Hands(t) = {} /\ ~Carrying(t)
  BY DEF Init, Hands, Carrying, Holding
<1>4. /\ ToSet(queue) = {} /\ ToSet(wire) = {} /\ received = {}
      /\ IsInjective(queue) /\ IsInjective(wire)
  BY DEF Init, ToSet, IsInjective
<1>5. QED
  BY <1>1, <1>2, <1>3, <1>4 DEF IInv, Distinct, Apart, Shared

LEMMA KeepCall ==
    ASSUME IInv, NEW t \in Threads, StreamDetection(t) \/ Continue(t) \/ OwnFlush(t)
    PROVE  IInv'
BY KeepStreamDetection, KeepReconnect, KeepBuffer, KeepDrainTake, KeepDrainWrite,
   KeepResume, KeepTakeOne, KeepWriteOne, KeepRequeue, KeepFlush DEF Continue, OwnFlush

LEMMA KeepStutter ==
    ASSUME IInv, UNCHANGED vars
    PROVE  IInv'
BY DEF vars, client, network, IInv, TypeOK, HandsOK, Distinct, Apart, Hands, Shared,
       Carrying, Holding

LEMMA NextIInv == IInv /\ [Next]_vars => IInv'
BY KeepCall, KeepStutter, KeepControls, KeepNetwork DEF Next

\* No result is ever in two places: not twice in the cache queue or in
\* transit, nor in one of them and in the hands of a thread or on the server.
LEMMA DistinctIsEnough == IInv => NoDuplicate
<1> SUFFICES ASSUME IInv PROVE NoDuplicate
  OBVIOUS
<1>1. \A x \in InHand : \E t \in Threads : x \in Hands(t)
  BY DEF InHand, Hands, IInv, HandsOK
<1>2. PICK t \in Threads : TRUE
  BY ClientConstants
<1>3. \A u \in Threads : Apart(u)
  BY DEF IInv, Distinct
<1>4. QED
  BY <1>1, <1>2, <1>3 DEF NoDuplicate, Apart, IInv, Distinct

\* The variables keep to their types, for any number of threads.
THEOREM TypeCorrect == Spec => []TypeOK
<1>1. IInv => TypeOK
  BY DEF IInv
<1>2. QED
  BY <1>1, InitIInv, NextIInv, PTL DEF Spec

\* Whatever the threads, the other callers and the network do, re-queueing
\* and draining never duplicate a result.
THEOREM NeverDuplicates == Spec => []NoDuplicate
BY InitIInv, NextIInv, DistinctIsEnough, PTL DEF Spec

-----------------------------------------------------------------------------
(* The channel under the stream. *)

LEMMA NextChannel == ChannelUnderStream /\ [Next]_vars => ChannelUnderStream'
<1> SUFFICES ASSUME ChannelUnderStream, [Next]_vars PROVE ChannelUnderStream'
  OBVIOUS
<1> USE DEF ChannelUnderStream
<1>1. ASSUME NEW t \in Threads, NEW x, SendBlock(t, x)
      PROVE  ChannelUnderStream'
  BY <1>1 DEF SendBlock, CanOpen
<1>2. ASSUME NEW t \in Threads, StreamDetection(t)
      PROVE  ChannelUnderStream'
  BY <1>1, <1>2 DEF StreamDetection, CallConnected, CallExhausted, CallBackoff, client
<1>3. ASSUME NEW t \in Threads, Continue(t)
      PROVE  ChannelUnderStream'
  <2>1. CASE Reconnect(t)
    BY <2>1 DEF Reconnect
  <2>2. CASE Resume(t)
    BY <1>1, <2>2 DEF Resume
  <2>3. CASE DrainWrite(t)
    BY <2>3 DEF DrainWrite, CanOpen
  <2>4. CASE Buffer(t) \/ DrainTake(t) \/ TakeOne(t) \/ WriteOne(t) \/ Requeue(t)
    BY <2>4 DEF Buffer, DrainTake, TakeOne, WriteOne, Requeue, client
  <2>5. QED
    BY <1>3, <2>1, <2>2, <2>3, <2>4 DEF Continue
<1>4. CASE FlushStream
  BY <1>4 DEF FlushStream, FinishStream
<1>5. CASE Connect \/ Disconnect
  BY <1>5 DEF Connect, TryConnect, Disconnect, FinishStream
<1>6. CASE Network
  BY <1>6 DEF Network, Deliver, Break, ServerDown, ServerUp, CutStream, client
<1>7. CASE UNCHANGED vars
  BY <1>7 DEF vars, client
<1>8. QED
  BY <1>2, <1>3, <1>4, <1>5, <1>6, <1>7 DEF Next, OwnFlush, OtherFlush

\* The code that uses stub_ after it saw connected_, or an open stream, finds
\* it set, whoever disconnects or reconnects meanwhile.
THEOREM ChannelStays == Spec => []ChannelUnderStream
<1>1. Init => ChannelUnderStream
  BY DEF Init, ChannelUnderStream
<1>2. QED
  BY <1>1, NextChannel, PTL DEF Spec

-----------------------------------------------------------------------------
(* The limit of attempts: every attempt beyond the limit was begun by a      *)
(* thread that had looked at the counter before the limit was reached, and   *)
(* is sleeping until it makes it.                                            *)

LEMMA SleepingFinite ==
    /\ IsFiniteSet(Sleeping) /\ Cardinality(Sleeping) \in Nat
    /\ Cardinality(Threads) \in Nat
    /\ Cardinality(Sleeping) <= Cardinality(Threads)
<1>1. IsFiniteSet(Threads) /\ Sleeping \subseteq Threads
  BY ClientConstants DEF Sleeping
<1>2. QED
  BY <1>1, FS_Subset, FS_CardinalityType

LEMMA SameAttempts ==
    ASSUME AttemptsInv, attempts \in Nat,
           attempts' = attempts \/ attempts' = 0, Sleeping' = Sleeping
    PROVE  AttemptsInv'
<1>1. MaxAttempts \in Nat
  BY ClientConstants
<1>2. QED
  BY <1>1, SleepingFinite DEF AttemptsInv

LEMMA NextAttempts == IInv /\ AttemptsInv /\ [Next]_vars => AttemptsInv'
<1> SUFFICES ASSUME IInv, AttemptsInv, [Next]_vars PROVE AttemptsInv'
  OBVIOUS
<1>0. /\ pc \in [Threads -> Labels] /\ attempts \in Nat /\ TypeOK /\ MaxAttempts \in Nat
      /\ \A l \in {"idle", "buffer", "drain", "drainWrite", "resume", "takeOne",
                   "writeOne", "requeue"} : l \in Labels /\ l # "backoff"
  BY ClientConstants DEF IInv, TypeOK, Labels
<1>1. ASSUME NEW t \in Threads, NEW l \in Labels, l # "backoff", pc[t] # "backoff", Goto(t, l)
      PROVE  Sleeping' = Sleeping
  BY <1>0, <1>1, GotoLabel DEF Sleeping
<1>2. ASSUME NEW t \in Threads, StreamDetection(t)
      PROVE  AttemptsInv'
  <2>1. pc[t] = "idle" /\ accepted + 1 \in Nat
    BY <1>0, <1>2 DEF StreamDetection, TypeOK
  <2>2. CASE CallConnected(t, accepted + 1)
    <3>1. /\ attempts' = attempts /\ pc' \in [Threads -> Labels]
          /\ \A u \in Threads : u # t => pc'[u] = pc[u]
          /\ pc'[t] \in {"buffer", "idle", "takeOne"}
      BY <1>0, <2>1, <2>2, SendBlockPlaces DEF CallConnected
    <3>2. Sleeping' = Sleeping
      BY <2>1, <3>1 DEF Sleeping
    <3>3. QED
      BY <1>0, <3>1, <3>2, SameAttempts
  <2>3. CASE CallExhausted(t)
    BY <1>0, <1>1, <2>1, <2>3, SameAttempts DEF CallExhausted, client
  <2>4. CASE CallBackoff(t)
    <3>1. attempts < MaxAttempts /\ attempts' = attempts
      BY <2>4 DEF CallBackoff, client
    <3>2. /\ Cardinality(Sleeping)' \in Nat /\ Cardinality(Threads) \in Nat
          /\ Cardinality(Sleeping)' <= Cardinality(Threads)
      <4>1. IsFiniteSet(Threads) /\ Sleeping' \subseteq Threads
        BY ClientConstants DEF Sleeping
      <4>2. QED
        BY <4>1, FS_Subset, FS_CardinalityType
    <3>3. QED
      BY <1>0, <3>1, <3>2 DEF AttemptsInv
  <2>5. QED
    BY <1>2, <2>2, <2>3, <2>4 DEF StreamDetection
<1>3. ASSUME NEW t \in Threads, Reconnect(t)
      PROVE  AttemptsInv'
  <2>1. /\ pc[t] = "backoff"
        /\ attempts' = 0 \/ attempts' = attempts + 1
    BY <1>3 DEF Reconnect
  <2>2. PICK l \in {"drain", "buffer"} : Goto(t, l)
    BY <1>3 DEF Reconnect
  <2>3. t \in Sleeping /\ Sleeping' = Sleeping \ {t}
    BY <1>0, <2>1, <2>2, GotoLabel DEF Sleeping
  <2>4. Cardinality(Sleeping') = Cardinality(Sleeping) - 1
    BY <2>3, SleepingFinite, FS_RemoveElement
  <2>5. QED
    BY <1>0, <2>1, <2>4, SleepingFinite DEF AttemptsInv
<1>4. ASSUME NEW t \in Threads, Resume(t)
      PROVE  AttemptsInv'
  <2>1. pc[t] = "resume" /\ SendBlock(t, cur[t]) /\ cur[t] \in Nat
    BY <1>4, Places DEF Resume, IInv, HandsOK
  <2>2. /\ attempts' = attempts /\ pc' \in [Threads -> Labels]
        /\ \A u \in Threads : u # t => pc'[u] = pc[u]
        /\ pc'[t] \in {"buffer", "idle", "takeOne"}
    BY <1>0, <2>1, SendBlockPlaces
  <2>3. Sleeping' = Sleeping
    BY <2>1, <2>2 DEF Sleeping
  <2>4. QED
    BY <1>0, <2>2, <2>3, SameAttempts
<1>5. ASSUME NEW t \in Threads,
             \/ Buffer(t) \/ DrainTake(t) \/ DrainWrite(t)
             \/ TakeOne(t) \/ WriteOne(t) \/ Requeue(t)
      PROVE  AttemptsInv'
  <2>1. pc[t] # "backoff" /\ attempts' = attempts
    BY <1>5 DEF Buffer, DrainTake, DrainWrite, TakeOne, WriteOne, Requeue, client
  <2>2. \E l \in Labels : l # "backoff" /\ Goto(t, l)
    BY <1>0, <1>5 DEF Buffer, DrainTake, DrainWrite, TakeOne, WriteOne, Requeue
  <2>3. QED
    BY <1>0, <1>1, <2>1, <2>2, SameAttempts
<1>6. CASE FlushStream \/ Connect \/ Disconnect \/ Network \/ UNCHANGED vars
  <2>1. pc' = pc /\ (attempts' = attempts \/ attempts' = 0)
    BY <1>6 DEF FlushStream, Connect, TryConnect, Disconnect, Network, Deliver, Break,
                ServerDown, ServerUp, client, vars
  <2>2. Sleeping' = Sleeping
    BY <2>1 DEF Sleeping
  <2>3. QED
    BY <1>0, <2>1, <2>2, SameAttempts
<1>7. QED
  BY <1>2, <1>3, <1>4, <1>5, <1>6 DEF Next, Continue, OwnFlush, OtherFlush

\* The limit of attempts is exceeded by fewer than there are threads.
THEOREM AttemptsLimited == Spec => []AttemptsBound
<1>1. Init => AttemptsInv
  <2>1. ASSUME Init PROVE AttemptsInv
    <3>1. Sleeping = {} /\ attempts = 0
      BY <2>1 DEF Init, Sleeping
    <3>2. Cardinality(Sleeping) = 0
      BY <3>1, FS_EmptySet
    <3>3. Cardinality(Threads) \in Nat \ {0} /\ MaxAttempts \in Nat
      BY ClientConstants, FS_CardinalityType, FS_EmptySet
    <3>4. QED
      BY <3>1, <3>2, <3>3 DEF AttemptsInv
  <2>2. QED
    BY <2>1
<1>2. IInv /\ AttemptsInv => AttemptsBound
  BY SleepingFinite, ClientConstants DEF AttemptsInv, AttemptsBound, IInv, TypeOK
<1>3. QED
  BY <1>1, <1>2, InitIInv, NextIInv, NextAttempts, PTL DEF Spec
-----------------------------------------------------------------------------
(* EdgeUplink: the pipeline thread of the edge and its coordinator.          *)

LEMMA UNextIInv == IInv /\ [UNext]_uvars => IInv'
<1> SUFFICES ASSUME IInv, [UNext]_uvars PROVE IInv'
  OBVIOUS
<1>1. CASE Initialize
  BY <1>1, KeepTryConnect DEF Initialize
<1>2. ASSUME NEW t \in Threads, Send(t) \/ InCall(t) \/ Flush(t)
      PROVE  IInv'
  BY <1>2, KeepCall DEF Send, InCall, Flush
<1>3. CASE LeaveLoop
  BY <1>3, KeepStutter DEF LeaveLoop
<1>4. CASE Stop
  BY <1>4, KeepFlush, KeepStutter DEF Stop
<1>5. CASE Outside
  BY <1>5, KeepNetwork DEF Outside
<1>6. CASE UNCHANGED uvars
  BY <1>6, KeepStutter DEF uvars
<1>7. QED
  BY <1>1, <1>2, <1>3, <1>4, <1>5, <1>6 DEF UNext

\* Where a result can be that the only thread t was called with.
Everywhere(t) == Hands(t) \cup Shared \cup excused

\* A thread that takes a queued result along has a stream to write it to.
StreamWhileTaking == \A t \in Threads : pc[t] \in {"takeOne", "writeOne"} => stream # "closed"

\* The loop has been left, and the stream is flushed, with no call under way.
FlushedAtRest ==
    /\ phase \in {"init", "running", "flushing", "stopped"}
    /\ phase \in {"init", "flushing"} => \A t \in Threads : pc[t] = "idle"

LEMMA LossOfOne ==
    ASSUME HandsOK, NEW t, Threads = {t}
    PROVE  NoSilentLoss <=> 1..accepted \subseteq Everywhere(t)
<1>1. InHand = Hands(t)
  BY DEF InHand, Hands, HandsOK
<1>2. QED
  BY <1>1 DEF NoSilentLoss, Everywhere, Shared

LEMMA EnqueueLosesNothing ==
    ASSUME TypeOK, NEW x \in Nat, Enqueue(x)
    PROVE  ToSet(queue) \cup excused \cup {x} \subseteq ToSet(queue') \cup excused'
<1>1. queue \in Seq(Nat)
  BY DEF TypeOK
<1>2. CASE Len(queue) < CacheEntries
  BY <1>1, <1>2, AppendSet DEF Enqueue
<1>3. CASE ~(Len(queue) < CacheEntries)
  <2>1. queue' = Append(Tail(queue), x) /\ excused' = excused \cup {Head(queue)}
    BY <1>3 DEF Enqueue
  <2>2. queue # <<>>
    BY <1>1, <1>3, ClientConstants, EmptySeq
  <2>3. Tail(queue) \in Seq(Nat) /\ ToSet(queue) = ToSet(Tail(queue)) \cup {Head(queue)}
    BY <1>1, <2>2, TailSet
  <2>4. ToSet(queue') = ToSet(Tail(queue)) \cup {x}
    BY <2>1, <2>3, AppendSet
  <2>5. QED
    BY <2>1, <2>3, <2>4
<1>4. QED
  BY <1>2, <1>3

\* The result of a send is on the wire, or still in hand to be buffered.
LEMMA SendLosesNothing ==
    ASSUME TypeOK, NEW t \in Threads, NEW x \in Nat, SendBlock(t, x),
           UNCHANGED <<queue, received, excused>>, cur'[t] = x
    PROVE  /\ Shared \cup excused \cup {x} \subseteq Everywhere(t)'
           /\ pc'[t] \in {"takeOne", "writeOne"} => stream' # "closed"
<1>1. wire \in Seq(Nat) /\ pc \in [Threads -> Labels]
  BY DEF TypeOK
<1>2. CASE wire' = wire /\ pc'[t] = "buffer"
  <2>1. Hands(t)' = {x}
    BY <1>2 DEF Hands, Carrying, Holding
  <2>2. QED
    BY <1>2, <2>1 DEF Everywhere, Shared
<1>3. CASE wire' = Append(wire, x) /\ pc'[t] \in {"idle", "takeOne"}
  <2>1. ToSet(wire') = ToSet(wire) \cup {x}
    BY <1>1, <1>3, AppendSet
  <2>2. wire' # wire
    BY <1>1, <1>3, AppendProperties
  <2>3. stream' = "open"
    BY <2>2 DEF SendBlock
  <2>4. QED
    BY <2>1, <2>3 DEF Everywhere, Shared
<1>4. QED
  BY <1>2, <1>3, SendBlockPlaces

\* What is taken from the cache queue is in hand, or unparsable.
LEMMA TakeLosesNothing ==
    ASSUME IInv, NEW t \in Threads, DrainTake(t) \/ TakeOne(t)
    PROVE  /\ Everywhere(t) \subseteq Everywhere(t)'
           /\ pc[t] = "takeOne" => stream' = stream
           /\ pc[t] = "drain" => pc'[t] \in {"drainWrite", "resume"}
<1>1. /\ TypeOK /\ pc \in [Threads -> Labels] /\ held \in [Threads -> Nat \cup {NoResult}]
      /\ UNCHANGED <<cur, wire, received, stream>>
      /\ {"drainWrite", "resume", "writeOne", "idle"} \subseteq Labels
  BY DEF IInv, TypeOK, DrainTake, TakeOne, client, network, Labels
<1>2. PICK after \in {"drainWrite", "writeOne"}, stop \in {"resume", "idle"} :
         /\ \/ pc[t] = "drain" /\ after = "drainWrite" /\ stop = "resume"
            \/ pc[t] = "takeOne" /\ after = "writeOne" /\ stop = "idle"
         /\ \/ /\ queue # <<>> /\ queue' = Tail(queue)
               /\ held' = [held EXCEPT ![t] = Head(queue)]
               /\ Goto(t, after)
               /\ UNCHANGED excused
            \/ /\ queue # <<>> /\ queue' = Tail(queue)
               /\ excused' = excused \cup {Head(queue)}
               /\ Goto(t, stop)
            \/ /\ Goto(t, stop) /\ UNCHANGED <<queue, held, excused>>
  BY DEF DrainTake, TakeOne, DequeueGot
<1>3. pc'[t] \in {after, stop}
  BY <1>1, <1>2, GotoLabel
<1>4. Hands(t) = IF pc[t] = "drain" THEN {cur[t]} ELSE {}
  BY <1>2, Places
<1>5. pc'[t] # "idle" /\ pc[t] = "drain" => cur[t] \in Hands(t)'
  BY <1>1, <1>2, <1>3 DEF Hands, Carrying
<1>6. Hands(t) \subseteq Hands(t)'
  BY <1>1, <1>2, <1>3, <1>4, <1>5
<1>7. queue # <<>> /\ queue' = Tail(queue) => ToSet(queue) = ToSet(queue') \cup {Head(queue)}
  BY <1>1, TailSet DEF TypeOK
<1>8. pc'[t] = after => held'[t] \in Hands(t)'
  BY <1>2 DEF Hands, Holding
<1>9. ToSet(queue) \cup excused \subseteq Everywhere(t)'
  <2>1. CASE /\ queue # <<>> /\ queue' = Tail(queue)
             /\ held' = [held EXCEPT ![t] = Head(queue)]
             /\ Goto(t, after)
             /\ UNCHANGED excused
    <3>1. pc'[t] = after /\ held'[t] = Head(queue)
      BY <1>1, <1>2, <2>1, GotoLabel
    <3>2. QED
      BY <1>7, <1>8, <2>1, <3>1 DEF Everywhere, Shared
  <2>2. CASE /\ queue # <<>> /\ queue' = Tail(queue)
             /\ excused' = excused \cup {Head(queue)}
    BY <1>7, <2>2 DEF Everywhere, Shared
  <2>3. CASE UNCHANGED <<queue, held, excused>>
    BY <2>3 DEF Everywhere, Shared
  <2>4. QED
    BY <1>2, <2>1, <2>2, <2>3
<1>10. QED
  BY <1>1, <1>2, <1>3, <1>6, <1>9 DEF Everywhere, Shared

\* No step inside a call loses a result, if the stream is there to be written to.
LEMMA CallLosesNothing ==
    ASSUME IInv, NEW t \in Threads, StreamDetection(t) \/ Continue(t),
           pc[t] = "writeOne" => stream # "closed",
           pc[t] = "takeOne" => stream # "closed",
           1..accepted \subseteq Everywhere(t)
    PROVE  /\ 1..accepted' \subseteq Everywhere(t)'
           /\ pc'[t] \in {"takeOne", "writeOne"} => stream' # "closed"
<1>0. /\ TypeOK /\ pc \in [Threads -> Labels] /\ accepted \in Nat
      /\ cur \in [Threads -> Nat \cup {NoResult}] /\ held \in [Threads -> Nat \cup {NoResult}]
      /\ Carrying(t) => cur[t] \in Nat
      /\ Holding(t) => held[t] \in Nat
      /\ \A l \in {"idle", "backoff", "buffer", "drain", "drainWrite", "resume", "takeOne",
                   "writeOne", "requeue"} : l \in Labels
  BY DEF IInv, TypeOK, HandsOK, Labels
<1>1. CASE StreamDetection(t)
  <2>1. /\ pc[t] = "idle" /\ accepted' = accepted + 1 /\ accepted + 1 \in Nat
        /\ cur'[t] = accepted + 1
        /\ UNCHANGED <<queue, received, excused>>
    BY <1>0, <1>1 DEF StreamDetection
  <2>2. Everywhere(t) = Shared \cup excused
    BY <2>1, Places DEF Everywhere
  <2>3. CASE CallConnected(t, accepted + 1)
    <3>1. SendBlock(t, accepted + 1)
      BY <2>3 DEF CallConnected
    <3>2. /\ Shared \cup excused \cup {accepted + 1} \subseteq Everywhere(t)'
          /\ pc'[t] \in {"takeOne", "writeOne"} => stream' # "closed"
      BY <1>0, <2>1, <3>1, SendLosesNothing
    <3>3. QED
      BY <1>0, <2>1, <2>2, <3>2
  <2>4. CASE CallExhausted(t) \/ CallBackoff(t)
    <3>1. PICK label \in {"buffer", "backoff"} :
             Goto(t, label) /\ UNCHANGED <<client, wire>>
      BY <2>4 DEF CallExhausted, CallBackoff
    <3>2. pc'[t] = label
      BY <1>0, <3>1, GotoLabel
    <3>3. Hands(t)' = {accepted + 1} /\ Shared' = Shared
      BY <2>1, <3>1, <3>2 DEF Hands, Carrying, Holding, Shared
    <3>4. QED
      BY <1>0, <2>1, <2>2, <3>2, <3>3 DEF Everywhere
  <2>5. QED
    BY <1>1, <2>3, <2>4 DEF StreamDetection
<1>2. CASE Reconnect(t)
  <2>1. /\ pc[t] = "backoff" /\ pc'[t] \in {"drain", "buffer"}
        /\ UNCHANGED <<queue, cur, held, wire, received, accepted, excused>>
    BY <1>0, <1>2, GotoLabel DEF Reconnect, network
  <2>2. QED
    BY <2>1 DEF Everywhere, Hands, Carrying, Holding, Shared
<1>3. CASE Buffer(t) \/ Requeue(t)
  <2>1. PICK x \in Nat : /\ Enqueue(x) /\ Hands(t) = {x}
                         /\ pc'[t] = "idle"
                         /\ UNCHANGED <<wire, received, accepted>>
    BY <1>0, <1>3, Places, GotoLabel DEF Buffer, Requeue, network
  <2>2. QED
    BY <1>0, <2>1, EnqueueLosesNothing DEF Everywhere, Shared
<1>4. CASE DrainTake(t) \/ TakeOne(t)
  <2>1. UNCHANGED accepted /\ pc[t] \in {"drain", "takeOne"}
    BY <1>4 DEF DrainTake, TakeOne
  <2>2. QED
    BY <1>4, <2>1, TakeLosesNothing
<1>5. CASE DrainWrite(t)
  <2>1. /\ pc[t] = "drainWrite" /\ UNCHANGED <<cur, received, accepted>>
        /\ \/ /\ wire' = Append(wire, held[t])
              /\ Goto(t, "drain")
              /\ UNCHANGED <<queue, excused>>
           \/ /\ Enqueue(held[t])
              /\ Goto(t, "resume")
              /\ UNCHANGED wire
    BY <1>5 DEF DrainWrite
  <2>2. Hands(t) = {cur[t], held[t]} /\ held[t] \in Nat
    BY <1>0, <2>1, Places
  <2>3. pc'[t] \in {"drain", "resume"}
    BY <1>0, <2>1, GotoLabel
  <2>4. cur[t] \in Hands(t)'
    BY <2>1, <2>3 DEF Hands, Carrying
  <2>5. CASE wire' = Append(wire, held[t]) /\ UNCHANGED <<queue, excused>>
    <3>1. ToSet(wire') = ToSet(wire) \cup {held[t]}
      BY <1>0, <2>2, <2>5, AppendSet DEF TypeOK
    <3>2. QED
      BY <2>1, <2>2, <2>3, <2>4, <2>5, <3>1 DEF Everywhere, Shared
  <2>6. CASE Enqueue(held[t]) /\ UNCHANGED wire
    <3>1. ToSet(queue) \cup excused \cup {held[t]} \subseteq ToSet(queue') \cup excused'
      BY <1>0, <2>2, <2>6, EnqueueLosesNothing
    <3>2. QED
      BY <2>1, <2>2, <2>3, <2>4, <2>6, <3>1 DEF Everywhere, Shared
  <2>7. QED
    BY <2>1, <2>5, <2>6
<1>6. CASE Resume(t)
  <2>1. /\ pc[t] = "resume" /\ SendBlock(t, cur[t]) /\ cur'[t] = cur[t]
        /\ UNCHANGED <<queue, received, excused, accepted>>
    BY <1>6 DEF Resume
  <2>2. Hands(t) = {cur[t]} /\ cur[t] \in Nat
    BY <1>0, <2>1, Places
  <2>3. QED
    BY <1>0, <2>1, <2>2, SendLosesNothing DEF Everywhere
<1>7. CASE WriteOne(t)
  <2>1. pc[t] = "writeOne" /\ UNCHANGED <<queue, received, excused, accepted, cur>>
    BY <1>7 DEF WriteOne
  <2>2. Hands(t) = {held[t]} /\ held[t] \in Nat
    BY <1>0, <2>1, Places
  <2>3. CASE wire' = Append(wire, held[t]) /\ Goto(t, "idle")
    <3>1. ToSet(wire') = ToSet(wire) \cup {held[t]} /\ pc'[t] = "idle"
      BY <1>0, <2>2, <2>3, AppendSet, GotoLabel DEF TypeOK
    <3>2. QED
      BY <2>1, <2>2, <3>1 DEF Everywhere, Shared
  <2>4. CASE Goto(t, "requeue") /\ UNCHANGED <<wire, held>>
    <3>1. pc'[t] = "requeue"
      BY <1>0, <2>4, GotoLabel
    <3>2. held[t] \in Hands(t)'
      BY <2>4, <3>1 DEF Hands, Holding
    <3>3. QED
      BY <2>1, <2>2, <2>4, <3>1, <3>2 DEF Everywhere, Shared
  <2>5. QED
    BY <1>7, <2>1, <2>3, <2>4 DEF WriteOne
<1>8. QED
  BY <1>1, <1>2, <1>3, <1>4, <1>5, <1>6, <1>7 DEF Continue

\* A flush delivers what is in transit; a broken stream excuses it.
LEMMA OthersLoseNothing ==
    ASSUME TypeOK, NEW t \in Threads, FlushStream \/ TryConnect \/ Network
    PROVE  /\ Everywhere(t) \subseteq Everywhere(t)'
           /\ UNCHANGED <<accepted, pc>>
           /\ (TryConnect \/ Network) /\ stream # "closed" => stream' # "closed"
<1>1. UNCHANGED <<queue, pc, cur, held, accepted>> /\ Hands(t)' = Hands(t)
  BY DEF FlushStream, TryConnect, Network, Deliver, Break, ServerDown, ServerUp, CutStream,
         client, Hands, Carrying, Holding
<1>0. (TryConnect \/ Network) /\ stream # "closed" => stream' # "closed"
  BY DEF TryConnect, Network, Deliver, Break, ServerDown, ServerUp, CutStream, client
<1>2. CASE FlushStream
  BY <1>0, <1>1, <1>2 DEF FlushStream, FinishStream, Everywhere, Shared
<1>3. CASE TryConnect \/ ServerUp
  BY <1>0, <1>1, <1>3 DEF TryConnect, ServerUp, Everywhere, Shared, client, network
<1>4. CASE Deliver
  <2>1. ToSet(wire) = ToSet(wire') \cup {Head(wire)}
    BY <1>4, TailSet DEF Deliver, TypeOK
  <2>2. QED
    BY <1>0, <1>1, <1>4, <2>1 DEF Deliver, Everywhere, Shared, client
<1>5. CASE Break \/ ServerDown
  <2>1. /\ excused' = excused \cup ToSet(wire) /\ received' = received
        /\ stream' = "broken" \/ stream' = stream
    BY <1>5 DEF Break, ServerDown, CutStream
  <2>2. QED
    BY <1>0, <1>1, <2>1 DEF Everywhere, Shared
<1>6. QED
  BY <1>2, <1>3, <1>4, <1>5 DEF Network

LossInv == IInv /\ NoSilentLoss /\ StreamWhileTaking /\ FlushedAtRest

LEMMA KeepFlushedAtRest ==
    ASSUME IInv, FlushedAtRest, [UNext]_uvars
    PROVE  FlushedAtRest'
<1>1. CASE Initialize
  BY <1>1 DEF Initialize, TryConnect, FlushedAtRest
<1>2. ASSUME NEW t \in Threads, Send(t) \/ InCall(t) \/ Flush(t)
      PROVE  FlushedAtRest'
  <2>1. UNCHANGED phase
    BY <1>2 DEF Send, InCall, Flush
  <2>2. CASE phase = "running" \/ phase = "stopped"
    BY <2>1, <2>2 DEF FlushedAtRest
  <2>3. CASE pc[t] # "idle"
    BY <2>1, <2>3 DEF FlushedAtRest
  <2>4. CASE pc[t] = "idle" /\ phase # "running"
    <3>1. UNCHANGED pc
      BY <1>2, <2>4 DEF Send, InCall, Flush, Continue, Reconnect, Buffer, DrainTake, DrainWrite,
                        Resume, TakeOne, WriteOne, Requeue, OwnFlush, FlushStream
    <3>2. QED
      BY <2>1, <3>1 DEF FlushedAtRest
  <2>5. QED
    BY <2>2, <2>3, <2>4
<1>3. CASE LeaveLoop
  BY <1>3 DEF LeaveLoop, FlushedAtRest, vars
<1>4. CASE Stop
  BY <1>4 DEF Stop, FlushedAtRest
<1>5. CASE Outside \/ UNCHANGED uvars
  <2>1. UNCHANGED <<phase, pc>>
    BY <1>5 DEF Outside, Network, Deliver, Break, ServerDown, ServerUp, uvars, vars
  <2>2. QED
    BY <2>1 DEF FlushedAtRest
<1>6. QED
  BY <1>1, <1>2, <1>3, <1>4, <1>5 DEF UNext

LEMMA UNextLossInv ==
    ASSUME NEW t, Threads = {t}
    PROVE  LossInv /\ [UNext]_uvars => LossInv'
<1> SUFFICES ASSUME LossInv, [UNext]_uvars PROVE LossInv'
  OBVIOUS
<1>1. /\ IInv /\ IInv' /\ TypeOK /\ FlushedAtRest' /\ t \in Threads
      /\ 1..accepted \subseteq Everywhere(t)
      /\ pc[t] \in {"takeOne", "writeOne"} => stream # "closed"
  BY UNextIInv, KeepFlushedAtRest, LossOfOne DEF LossInv, IInv, StreamWhileTaking
<1>2. SUFFICES /\ 1..accepted' \subseteq Everywhere(t)'
               /\ pc'[t] \in {"takeOne", "writeOne"} => stream' # "closed"
  <2>1. HandsOK'
    BY <1>1 DEF IInv
  <2>2. NoSilentLoss' <=> 1..accepted' \subseteq Everywhere(t)'
    <3>1. InHand' = Hands(t)'
      BY <2>1 DEF InHand, Hands, HandsOK
    <3>2. QED
      BY <3>1 DEF NoSilentLoss, Everywhere, Shared
  <2>3. QED
    BY <1>1, <1>2, <2>2 DEF LossInv, StreamWhileTaking
<1>3. ASSUME FlushStream, pc[t] = "idle"
      PROVE  /\ 1..accepted' \subseteq Everywhere(t)'
             /\ pc'[t] \in {"takeOne", "writeOne"} => stream' # "closed"
  BY <1>1, <1>3, OthersLoseNothing
<1>4. ASSUME TryConnect \/ Network
      PROVE  /\ 1..accepted' \subseteq Everywhere(t)'
             /\ pc'[t] \in {"takeOne", "writeOne"} => stream' # "closed"
  BY <1>1, <1>4, OthersLoseNothing
<1>5. ASSUME UNCHANGED vars
      PROVE  /\ 1..accepted' \subseteq Everywhere(t)'
             /\ pc'[t] \in {"takeOne", "writeOne"} => stream' # "closed"
  BY <1>1, <1>5 DEF vars, client, network, Everywhere, Hands, Shared, Carrying, Holding
<1>6. CASE Initialize \/ Outside
  BY <1>4, <1>6 DEF Initialize, Outside
<1>7. CASE Send(t) \/ InCall(t)
  BY <1>1, <1>7, CallLosesNothing DEF Send, InCall
<1>8. CASE Flush(t)
  BY <1>3, <1>8 DEF Flush, OwnFlush
<1>9. CASE LeaveLoop \/ UNCHANGED uvars
  BY <1>5, <1>9 DEF LeaveLoop, uvars
<1>10. CASE Stop
  <2>1. pc[t] = "idle"
    BY <1>1, <1>10 DEF Stop, LossInv, FlushedAtRest
  <2>2. QED
    BY <1>3, <1>5, <1>10, <2>1 DEF Stop
<1>11. QED
  BY <1>6, <1>7, <1>8, <1>9, <1>10 DEF UNext

\* Nothing is lost silently on the edge as it runs, with one streaming thread:
\* every result handed to StreamDetection is on its way, was received, or was
\* evicted, unparsable or cut off, for any capacity, any limit of attempts and
\* any outages, whoever the caller and whether or not entries parse.  With two
\* threads a close by one can drop the entry of the other.
THEOREM OneThreadLosesNothing ==
    ASSUME NEW t, Threads = {t}
    PROVE  USpec => []NoSilentLoss
<1>1. UInit => LossInv
  <2>1. SUFFICES ASSUME UInit PROVE LossInv
    OBVIOUS
  <2>2. IInv /\ StreamWhileTaking /\ FlushedAtRest
    BY <2>1, InitIInv DEF UInit, Init, StreamWhileTaking, FlushedAtRest
  <2>3. 1..accepted = {}
    BY <2>1 DEF UInit, Init
  <2>4. QED
    BY <2>2, <2>3 DEF LossInv, NoSilentLoss
<1>2. LossInv /\ [UNext]_uvars => LossInv'
  BY UNextLossInv
<1>3. LossInv => NoSilentLoss
  BY DEF LossInv
<1>4. QED
  BY <1>1, <1>2, <1>3, PTL DEF USpec

-----------------------------------------------------------------------------
(* Drained on reconnect: a connected client that is not draining has queued  *)
(* results only on a stream that broke, and its next send will notice.       *)

DrainedInv ==
    \A t \in Threads :
      /\ pc[t] \notin {"takeOne", "writeOne", "requeue"}
      /\ pc[t] \in {"drain", "drainWrite", "resume"} => connected
      /\ pc[t] \in {"backoff", "buffer"} => ~connected
      /\ connected /\ queue # <<>> /\ pc[t] \notin {"drain", "drainWrite"}
            => stream = "broken"
      /\ phase = "init" => queue = <<>>

LEMMA SendDrained ==
    ASSUME TypeOK, ChannelUnderStream, NEW t \in Threads, NEW x \in Nat,
           SendBlock(t, x), connected,
           queue # <<>> => stream = "broken", UNCHANGED queue
    PROVE  (pc'[t] = "idle" /\ queue = <<>>) \/ (pc'[t] = "buffer" /\ ~connected')
<1>1. pc \in [Threads -> Labels] /\ "idle" \in Labels /\ "buffer" \in Labels
  BY DEF TypeOK, Labels
<1>2. CanOpen
  BY DEF ChannelUnderStream, CanOpen
<1>3. CASE queue = <<>>
  BY <1>1, <1>2, <1>3, GotoLabel DEF SendBlock
<1>4. CASE stream = "broken"
  BY <1>1, <1>2, <1>4, GotoLabel DEF SendBlock, OpenedStream
<1>5. QED
  BY <1>3, <1>4

LEMMA KeepDrained ==
    ASSUME NEW t, Threads = {t}, CorruptResults = {},
           IInv, ChannelUnderStream, FlushedAtRest, DrainedInv, [UNext]_uvars
    PROVE  DrainedInv'
<1>0. /\ TypeOK /\ t \in Threads /\ pc \in [Threads -> Labels]
      /\ \A l \in {"idle", "backoff", "buffer", "drain", "drainWrite", "resume", "takeOne",
                   "writeOne", "requeue"} : l \in Labels
      /\ Carrying(t) => cur[t] \in Nat
      /\ accepted \in Nat
      /\ phase = "init" => pc[t] = "idle"
  BY DEF IInv, TypeOK, HandsOK, Labels, FlushedAtRest
<1>1. ASSUME pc'[t] = "idle", connected' /\ queue' # <<>> => stream' = "broken",
             phase' = "init" => queue' = <<>>
      PROVE  DrainedInv'
  BY <1>0, <1>1 DEF DrainedInv
<1>2. ASSUME pc'[t] \in {"backoff", "buffer"}, ~connected', phase' # "init"
      PROVE  DrainedInv'
  BY <1>0, <1>2 DEF DrainedInv
<1>3. ASSUME UNCHANGED <<pc, connected, queue, phase>>,
             stream = "broken" => stream' = "broken"
      PROVE  DrainedInv'
  BY <1>0, <1>3 DEF DrainedInv
<1>4. ASSUME FlushStream, pc[t] = "idle", phase' # "init"
      PROVE  DrainedInv'
  <2>1. UNCHANGED <<pc, queue>> /\ (connected' => stream = "open" /\ connected)
    BY <1>4 DEF FlushStream
  <2>2. connected => queue = <<>> \/ stream = "broken"
    BY <1>0, <1>4 DEF DrainedInv
  <2>3. QED
    BY <1>1, <1>4, <2>1, <2>2
<1>5. CASE Initialize
  BY <1>0, <1>1, <1>5 DEF Initialize, TryConnect, DrainedInv
<1>6. CASE Send(t)
  <2>1. /\ phase = "running" /\ UNCHANGED <<phase, queue>>
        /\ pc[t] = "idle"
        /\ CallConnected(t, accepted + 1) \/ CallExhausted(t) \/ CallBackoff(t)
    BY <1>6 DEF Send, StreamDetection
  <2>2. CASE CallConnected(t, accepted + 1)
    <3>1. connected /\ SendBlock(t, accepted + 1) /\ accepted + 1 \in Nat
      BY <1>0, <2>2 DEF CallConnected
    <3>2. queue # <<>> => stream = "broken"
      BY <1>0, <2>1, <3>1 DEF DrainedInv
    <3>3. \/ pc'[t] = "idle" /\ queue = <<>>
          \/ pc'[t] = "buffer" /\ ~connected'
      BY <1>0, <2>1, <3>1, <3>2, SendDrained
    <3>4. QED
      BY <1>1, <1>2, <2>1, <3>3
  <2>3. CASE CallExhausted(t) \/ CallBackoff(t)
    <3>1. pc'[t] \in {"buffer", "backoff"} /\ ~connected'
      BY <1>0, <2>3, GotoLabel DEF CallExhausted, CallBackoff, client
    <3>2. QED
      BY <1>2, <2>1, <3>1
  <2>4. QED
    BY <2>1, <2>2, <2>3
<1>7. CASE InCall(t)
  <2>0. Continue(t) /\ UNCHANGED phase
    BY <1>7 DEF InCall
  <2>1. CASE Reconnect(t)
    <3>1. /\ pc[t] = "backoff" /\ ~connected /\ UNCHANGED queue
          /\ \/ pc'[t] = "drain" /\ connected'
             \/ pc'[t] = "buffer" /\ ~connected'
      BY <1>0, <2>1, GotoLabel DEF Reconnect, DrainedInv
    <3>2. phase' # "init"
      BY <1>0, <2>0, <3>1
    <3>3. QED
      BY <1>0, <1>2, <3>1, <3>2 DEF DrainedInv
  <2>2. CASE Buffer(t)
    <3>1. pc[t] = "buffer" /\ pc'[t] = "idle" /\ ~connected'
      BY <1>0, <2>2, GotoLabel DEF Buffer, client, DrainedInv
    <3>2. QED
      BY <1>0, <1>1, <2>0, <3>1
  <2>3. CASE DrainTake(t)
    <3>1. pc[t] = "drain" /\ connected /\ connected'
      BY <1>0, <2>3 DEF DrainTake, client, DrainedInv
    <3>2. pc'[t] = "drainWrite" \/ (pc'[t] = "resume" /\ queue' = <<>>)
      BY <1>0, <2>3, GotoLabel DEF DrainTake, DequeueGot
    <3>3. QED
      BY <1>0, <2>0, <3>1, <3>2 DEF DrainedInv
  <2>4. CASE DrainWrite(t)
    <3>1. pc[t] = "drainWrite" /\ connected /\ connected' /\ CanOpen
      BY <1>0, <2>4 DEF DrainWrite, DrainedInv, ChannelUnderStream, CanOpen
    <3>2. pc'[t] = "drain" \/ (pc'[t] = "resume" /\ stream' = "broken")
      <4>1. OpenedStream \in {"open", "broken"}
        BY <1>0 DEF OpenedStream, TypeOK
      <4>2. QED
        BY <1>0, <2>4, <3>1, <4>1, GotoLabel DEF DrainWrite
    <3>3. QED
      BY <1>0, <2>0, <3>1, <3>2 DEF DrainedInv
  <2>5. CASE Resume(t)
    <3>1. pc[t] = "resume" /\ connected /\ SendBlock(t, cur[t]) /\ UNCHANGED queue
          /\ cur[t] \in Nat
      BY <1>0, <2>5 DEF Resume, DrainedInv, Carrying
    <3>2. queue # <<>> => stream = "broken"
      BY <1>0, <3>1 DEF DrainedInv
    <3>3. \/ pc'[t] = "idle" /\ queue = <<>>
          \/ pc'[t] = "buffer" /\ ~connected'
      BY <1>0, <3>1, <3>2, SendDrained
    <3>4. QED
      BY <1>0, <1>1, <1>2, <2>0, <3>1, <3>3
  <2>6. CASE TakeOne(t) \/ WriteOne(t) \/ Requeue(t)
    BY <1>0, <2>6 DEF TakeOne, WriteOne, Requeue, DrainedInv
  <2>7. QED
    BY <2>0, <2>1, <2>2, <2>3, <2>4, <2>5, <2>6 DEF Continue
<1>8. CASE Flush(t)
  <2>1. FlushStream /\ pc[t] = "idle" /\ UNCHANGED phase
    BY <1>8 DEF Flush, OwnFlush
  <2>2. CASE phase = "init"
    BY <1>0, <1>1, <2>1, <2>2 DEF FlushStream, DrainedInv
  <2>3. QED
    BY <1>4, <2>1, <2>2
<1>9. CASE LeaveLoop
  BY <1>0, <1>9 DEF LeaveLoop, vars, client, DrainedInv
<1>10. CASE Stop
  <2>1. pc[t] = "idle" /\ phase' # "init" /\ (FlushStream \/ UNCHANGED vars)
    BY <1>0, <1>10 DEF Stop, FlushedAtRest
  <2>2. CASE UNCHANGED vars
    BY <1>0, <2>1, <2>2 DEF vars, client, DrainedInv
  <2>3. QED
    BY <1>4, <2>1, <2>2
<1>11. CASE Outside \/ UNCHANGED uvars
  <2>1. /\ UNCHANGED <<pc, connected, queue, phase>>
        /\ stream = "broken" => stream' = "broken"
    BY <1>11 DEF Outside, Network, Deliver, Break, ServerDown, ServerUp, CutStream, client,
                 uvars, vars
  <2>2. QED
    BY <1>3, <2>1
<1>12. QED
  BY <1>0, <1>5, <1>6, <1>7, <1>8, <1>9, <1>10, <1>11 DEF UNext

LEMMA UNextChannel == ChannelUnderStream /\ [UNext]_uvars => ChannelUnderStream'
<1> SUFFICES ASSUME ChannelUnderStream, [UNext]_uvars PROVE ChannelUnderStream'
  OBVIOUS
<1>1. CASE Initialize
  BY <1>1 DEF Initialize, TryConnect, ChannelUnderStream
<1>2. ASSUME [Next]_vars
      PROVE  ChannelUnderStream'
  BY <1>2, NextChannel
<1>3. CASE \E t \in Threads : Send(t) \/ InCall(t) \/ Flush(t)
  BY <1>2, <1>3 DEF Next, Send, InCall, Flush
<1>4. CASE FlushStream
  BY <1>4 DEF FlushStream, FinishStream, ChannelUnderStream
<1>5. CASE LeaveLoop \/ Stop \/ Outside \/ UNCHANGED uvars
  BY <1>2, <1>4, <1>5 DEF Next, LeaveLoop, Stop, Outside, uvars
<1>6. QED
  BY <1>1, <1>3, <1>5 DEF UNext

\* "auto-drains on reconnect" (CHANGELOG.md:49), for the one streaming thread of
\* the edge and queued results that all parse: at rest on a live stream the cache
\* queue is empty, whatever connections and streams were lost before.
THEOREM OneThreadDrains ==
    ASSUME NEW t, Threads = {t}, CorruptResults = {}
    PROVE  USpec => []DrainedWhenStreaming
<1> DEFINE Inv == IInv /\ ChannelUnderStream /\ FlushedAtRest /\ DrainedInv
<1>1. UInit => Inv
  BY InitIInv DEF UInit, Init, ChannelUnderStream, FlushedAtRest, DrainedInv
<1>2. Inv /\ [UNext]_uvars => Inv'
  BY UNextIInv, UNextChannel, KeepFlushedAtRest, KeepDrained
<1>3. Inv => DrainedWhenStreaming
  BY DEF DrainedInv, DrainedWhenStreaming
<1>4. QED
  <2> HIDE DEF Inv
  <2>1. QED
    BY <1>1, <1>2, <1>3, PTL DEF USpec

-----------------------------------------------------------------------------
(* Local mode. *)

\* A thread of a coordinator never sleeps before a reconnection: it calls only
\* while it is connected.
NeverReconnects ==
    caller = "coordinator" => \A t \in Threads : pc[t] # "backoff"

LEMMA SendBlockLabel ==
    ASSUME pc \in [Threads -> Labels], NEW t \in Threads, NEW x, SendBlock(t, x)
    PROVE  /\ \A u \in Threads : pc'[u] = "backoff" => pc[u] = "backoff"
           /\ connected' => connected
<1>1. PICK label \in {"buffer", "idle", "takeOne"} : Goto(t, label)
  BY DEF SendBlock
<1>2. QED
  BY <1>1, GotoLabel DEF SendBlock, Labels

LEMMA LocalStep ==
    ASSUME IInv, NeverReconnects, [UNext]_uvars
    PROVE  /\ NeverReconnects'
           /\ caller = "coordinator" /\ phase # "init" /\ ~connected => ~connected'
<1>0. pc \in [Threads -> Labels]
  BY DEF IInv, TypeOK
<1>1. UNCHANGED caller
  BY DEF UNext, Initialize, LeaveLoop, Stop, Outside, Send, InCall, Flush, uvars
<1>2. SUFFICES ASSUME caller = "coordinator"
               PROVE  /\ \A u \in Threads : pc'[u] = "backoff" => pc[u] = "backoff"
                      /\ phase = "init" \/ (connected' => connected)
  BY <1>1 DEF NeverReconnects
<1>3. ASSUME NEW t \in Threads, Send(t)
      PROVE  /\ \A u \in Threads : pc'[u] = "backoff" => pc[u] = "backoff"
             /\ connected' => connected
  <2>1. SendBlock(t, accepted + 1)
    BY <1>2, <1>3 DEF Send, StreamDetection, CallConnected, CallExhausted, CallBackoff
  <2>2. QED
    BY <1>0, <2>1, SendBlockLabel
<1>4. ASSUME NEW t \in Threads, InCall(t)
      PROVE  /\ \A u \in Threads : pc'[u] = "backoff" => pc[u] = "backoff"
             /\ connected' => connected
  <2>1. ~Reconnect(t)
    BY <1>2 DEF Reconnect, NeverReconnects
  <2>2. CASE Resume(t)
    BY <1>0, <2>2, SendBlockLabel DEF Resume
  <2>3. CASE Buffer(t) \/ DrainTake(t) \/ DrainWrite(t) \/ TakeOne(t) \/ WriteOne(t) \/ Requeue(t)
    <3>1. /\ UNCHANGED connected
          /\ \E l \in Labels : l # "backoff" /\ Goto(t, l)
      BY <2>3 DEF Buffer, DrainTake, DrainWrite, TakeOne, WriteOne, Requeue, client, Labels
    <3>2. QED
      BY <1>0, <3>1, GotoLabel
  <2>4. QED
    BY <1>4, <2>1, <2>2, <2>3 DEF InCall, Continue
<1>5. CASE FlushStream \/ Network \/ UNCHANGED vars
  <2>1. UNCHANGED pc
    BY <1>5 DEF FlushStream, Network, Deliver, Break, ServerDown, ServerUp, vars
  <2>2. connected' = (connected /\ stream = "open") \/ connected' = connected
    BY <1>5 DEF FlushStream, Network, Deliver, Break, ServerDown, ServerUp, client, vars
  <2>3. connected' => connected
    BY <2>2
  <2>4. QED
    BY <2>1, <2>3
<1>6. CASE Initialize
  BY <1>6 DEF Initialize, TryConnect
<1>7. QED
  BY <1>3, <1>4, <1>5, <1>6 DEF UNext, Flush, OwnFlush, LeaveLoop, Stop, Outside, uvars

\* A coordinator that has lost its connection never has it again, for any number
\* of streaming threads, any capacity and any limit of attempts.
THEOREM LocalModeStays == USpec => LocalModeIsFinal
<1>1. UInit => IInv /\ NeverReconnects
  BY InitIInv DEF UInit, Init, NeverReconnects
<1>2. IInv /\ NeverReconnects /\ [UNext]_uvars =>
        /\ (IInv /\ NeverReconnects)'
        /\ [caller = "coordinator" /\ phase # "init" /\ ~connected => ~connected']_uvars
  BY UNextIInv, LocalStep
<1>3. QED
  BY <1>1, <1>2, PTL DEF USpec, LocalModeIsFinal
=============================================================================
