--------------------------- MODULE DetectionQueue ---------------------------
(***************************************************************************)
(* The offline cache queue of the edge device                              *)
(* (rk3588-edge/src/communication/detection_queue.cpp): a deque of         *)
(* serialized detections bounded by a number of entries and by a number of *)
(* bytes, all of it behind one mutex.                                      *)
(*                                                                         *)
(* Enqueue runs its eviction loop one iteration per step, with the mutex   *)
(* held: `pending' is the entry its caller is pushing, so the mutex is     *)
(* free exactly when pending = NoItem.  The two counters are atomics that  *)
(* other threads read without the mutex, also in the middle of that loop.  *)
(***************************************************************************)
EXTENDS Integers, Sequences

CONSTANTS Items,        \* detection results that can be offered
          NoItem,       \* not a detection result
          Bytes,        \* Bytes[x]: length of x once serialized
          Unparsable,   \* results ParseFromString rejects (invalid UTF-8 text)
          MaxEntries,   \* Config::max_entries, 0 is accepted by edge_main
          MaxBytes,     \* Config::max_memory_bytes
          MaxEnqueues   \* bound of the model: calls of Enqueue

ASSUME QueueConstants ==
    /\ NoItem \notin Items
    /\ Bytes \in [Items -> Nat]
    /\ Unparsable \subseteq Items
    /\ MaxEntries \in Nat
    /\ MaxBytes \in Nat
    /\ MaxEnqueues \in Nat

VARIABLES queue_,         \* the deque, oldest first
          current_bytes_, \* running byte counter
          enqueued_,      \* EnqueuedTotal()
          dropped_,       \* DroppedTotal()
          pending,        \* what the thread inside Enqueue pushes, or NoItem
          victims,        \* items that call has evicted so far
          taken           \* history: entries Dequeue has removed

queueVars == <<queue_, current_bytes_, enqueued_, dropped_, pending, victims, taken>>

\* Besides its item an entry carries a history field, which no action reads
\* back: its rank among all entries ever pushed.
Entry == [item : Items, rank : Nat]

size(e) == Bytes[e.item]

QueueInit ==
    /\ queue_ = <<>>
    /\ current_bytes_ = 0
    /\ enqueued_ = 0 /\ dropped_ = 0
    /\ pending = NoItem
    /\ victims = <<>>
    /\ taken = 0

-----------------------------------------------------------------------------
(* Enqueue *)

\* A result that SerializeToString refuses returns before the lock and changes
\* nothing: no step.
LockEnqueue(x) ==
    /\ pending = NoItem
    /\ enqueued_ < MaxEnqueues
    /\ pending' = x
    /\ UNCHANGED <<queue_, current_bytes_, enqueued_, dropped_, victims, taken>>

\* Faults of the loop condition: one entry too many, a byte limit that is
\* never quite used, an oversized entry that empties the queue for ever.
NoRoomOffByOne(x) ==
    \/ Len(queue_) > MaxEntries
    \/ current_bytes_ + Bytes[x] > MaxBytes /\ queue_ # <<>>
NoRoomEarly(x) ==
    \/ Len(queue_) >= MaxEntries
    \/ current_bytes_ + Bytes[x] >= MaxBytes /\ queue_ # <<>>
NoRoomForOversized(x) ==
    \/ Len(queue_) >= MaxEntries
    \/ current_bytes_ + Bytes[x] > MaxBytes

\* The condition of the while loop.
NoRoom(x) ==
    \/ Len(queue_) >= MaxEntries
    \/ current_bytes_ + Bytes[x] > MaxBytes /\ queue_ # <<>>

\* Faults of the eviction: the size of the wrong entry is subtracted, or the
\* drop is not counted.
EvictOldestWrongSize ==
    /\ pending # NoItem
    /\ NoRoom(pending)
    /\ queue_ # <<>>
    /\ current_bytes_' = current_bytes_ - Bytes[pending]
    /\ queue_' = Tail(queue_)
    /\ dropped_' = dropped_ + 1
    /\ victims' = Append(victims, Head(queue_).item)
    /\ UNCHANGED <<enqueued_, pending, taken>>
EvictOldestUncounted ==
    /\ pending # NoItem
    /\ NoRoom(pending)
    /\ queue_ # <<>>
    /\ current_bytes_' = current_bytes_ - size(Head(queue_))
    /\ queue_' = Tail(queue_)
    /\ victims' = Append(victims, Head(queue_).item)
    /\ UNCHANGED <<dropped_, enqueued_, pending, taken>>

\* On an empty queue EvictOldest returns at once and the loop goes round
\* again: a stuttering step.
EvictOldest ==
    /\ pending # NoItem
    /\ NoRoom(pending)
    /\ queue_ # <<>>
    /\ current_bytes_' = current_bytes_ - size(Head(queue_))
    /\ queue_' = Tail(queue_)
    /\ dropped_' = dropped_ + 1
    /\ victims' = Append(victims, Head(queue_).item)
    /\ UNCHANGED <<enqueued_, pending, taken>>

PushBack ==
    /\ pending # NoItem
    /\ ~NoRoom(pending)
    /\ queue_' = Append(queue_, [item |-> pending, rank |-> enqueued_ + 1])
    /\ current_bytes_' = current_bytes_ + Bytes[pending]
    /\ enqueued_' = enqueued_ + 1
    /\ pending' = NoItem
    /\ victims' = <<>>
    /\ UNCHANGED <<dropped_, taken>>

(* Dequeue *)

\* Fault: the newest entry is removed.
RemoveBack ==
    /\ pending = NoItem
    /\ queue_ # <<>>
    /\ current_bytes_' = current_bytes_ - size(queue_[Len(queue_)])
    /\ queue_' = SubSeq(queue_, 1, Len(queue_) - 1)
    /\ taken' = taken + 1
    /\ UNCHANGED <<enqueued_, dropped_, pending, victims>>

\* The front entry leaves the queue whether or not it can be parsed.
RemoveFront ==
    /\ pending = NoItem
    /\ queue_ # <<>>
    /\ current_bytes_' = current_bytes_ - size(Head(queue_))
    /\ queue_' = Tail(queue_)
    /\ taken' = taken + 1
    /\ UNCHANGED <<enqueued_, dropped_, pending, victims>>

DequeueParsed == queue_ # <<>> /\ Head(queue_).item \notin Unparsable /\ RemoveFront

\* Fault: the early return of a failed parse forgets the byte counter.
DequeueCorruptUncounted ==
    /\ pending = NoItem
    /\ queue_ # <<>>
    /\ Head(queue_).item \in Unparsable
    /\ queue_' = Tail(queue_)
    /\ taken' = taken + 1
    /\ UNCHANGED <<current_bytes_, enqueued_, dropped_, pending, victims>>
DequeueCorrupt == queue_ # <<>> /\ Head(queue_).item \in Unparsable /\ RemoveFront

-----------------------------------------------------------------------------
QueueNext == \/ \E x \in Items : LockEnqueue(x)
        \/ EvictOldest
        \/ PushBack
        \/ DequeueParsed
        \/ DequeueCorrupt

QueueSpec == QueueInit /\ [][QueueNext]_queueVars

\* A thread that holds the mutex is eventually scheduled.
QueueFairSpec == QueueSpec /\ WF_queueVars(EvictOldest) /\ WF_queueVars(PushBack)

-----------------------------------------------------------------------------
QueueTypeOK ==
    /\ queue_ \in Seq(Entry)
    /\ current_bytes_ \in Nat
    /\ enqueued_ \in Nat /\ dropped_ \in Nat /\ taken \in Nat
    /\ pending \in Items \cup {NoItem}
    /\ victims \in Seq(Items)

\* The abstract buffer: a call of Enqueue that has not pushed yet has not
\* forgotten anything yet either.
Buffered == [i \in DOMAIN queue_ |-> queue_[i].item]

Abstract == INSTANCE LossyBuffer
              WITH content <- victims \o Buffered, dropped <- dropped_ - Len(victims)

\* The byte counter is the sum of what is queued, at every step of the loop:
\* were a removal to forget its subtraction, the queue would slowly evict
\* everything it is given.
BytesExact == current_bytes_ = Abstract!TotalBytes(Buffered)

\* Both limits of Config hold at every moment, except that one oversized
\* entry may be alone in the queue.
WithinLimits ==
    /\ Len(queue_) <= MaxEntries
    /\ current_bytes_ <= MaxBytes \/ Len(queue_) = 1

\* Ring behaviour: the queue holds the most recently pushed entries, in the
\* order they were pushed, so eviction and Dequeue only ever take the oldest.
HoldsNewest ==
    \A i \in 1..Len(queue_) : queue_[i].rank = enqueued_ - Len(queue_) + i

\* The statistics account for every entry, also when read during an eviction:
\* what was pushed is queued, was dropped, or was removed by Dequeue.
StatsAccurate == enqueued_ = dropped_ + taken + Len(queue_)

\* The queue implements the abstract lossy buffer: the loop that evicts one
\* entry at a time forgets exactly what one put has to forget.
ImplementsLossyBuffer == Abstract!Spec

\* Every call of Enqueue returns (detection_queue.hpp:28: "Evicts oldest if
\* at capacity. Returns true.").
EnqueueReturns == pending # NoItem ~> pending = NoItem
=============================================================================
