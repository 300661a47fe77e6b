---------------------------- MODULE LossyBuffer ----------------------------
(***************************************************************************)
(* What the offline cache queue promises its callers, without its loop and *)
(* its byte counter (rk3588-edge/include/neuro/comm/detection_queue.hpp):  *)
(* "Bounded ring queue for buffering detection results during gRPC         *)
(* disconnects. [...] When full, evicts oldest entries (FIFO)."            *)
(*                                                                         *)
(* A put keeps the longest suffix of the content that leaves room for the  *)
(* new entry: it forgets the oldest entries, and no more than it has to.   *)
(***************************************************************************)
EXTENDS Integers, Sequences

CONSTANTS Items,        \* the detection results that can be offered
          Bytes,        \* Bytes[x]: length of x once serialized
          Unparsable,   \* the results whose bytes cannot be parsed back
          MaxEntries,   \* Config::max_entries
          MaxBytes      \* Config::max_memory_bytes

VARIABLES content,      \* what is buffered, the oldest entry first
          dropped       \* how many entries were forgotten to make room

vars == <<content, dropped>>

\* The serialized length of all entries of s together.
TotalBytes(s) ==
    LET upto[i \in 0..Len(s)] == IF i = 0 THEN 0 ELSE upto[i - 1] + Bytes[s[i]]
    IN  upto[Len(s)]

\* A single entry is kept whatever its size: the byte limit never empties
\* the buffer of the entry that was just put.
Fits(s) == /\ Len(s) <= MaxEntries
           /\ TotalBytes(s) <= MaxBytes \/ Len(s) = 1

Suffix(s, k) == SubSeq(s, k + 1, Len(s))

Init == content = <<>> /\ dropped = 0

Put(x) ==
    \E k \in 0..Len(content) :
        /\ Fits(Append(Suffix(content, k), x))
        /\ \A j \in 0..(k - 1) : ~Fits(Append(Suffix(content, j), x))
        /\ content' = Append(Suffix(content, k), x)
        /\ dropped' = dropped + k

\* Oldest first.  An entry that cannot be parsed is removed but reported as
\* "nothing there", and is not counted as dropped.
Take ==
    /\ content # <<>>
    /\ content' = Tail(content)
    /\ UNCHANGED dropped

Next == Take \/ \E x \in Items : Put(x)

Spec == Init /\ [][Next]_vars
=============================================================================
