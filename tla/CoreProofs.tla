------------------------------ MODULE CoreProofs -------------------------------
(***************************************************************************)
(* What the central server runs on, proved for any files, callbacks,       *)
(* configurations, plugins and handlers: the watcher of its files, the     *)
(* configuration in force, the start and the end of its services, its      *)
(* plugins and its typed events.                                           *)
(***************************************************************************)
EXTENDS ConfigWatcher, ConfigReload, ServerLifecycle, PluginLifecycle, TypedEvents,
        Induction, FiniteSetTheorems, SequenceTheorems

-----------------------------------------------------------------------------
\* RemoveAt moves the entries behind by one.
LEMMA RemoveAtIs ==
    ASSUME NEW S, NEW s \in Seq(S), NEW k \in DOMAIN s
    PROVE  /\ RemoveAt(s, k) \in Seq(S) /\ Len(RemoveAt(s, k)) = Len(s) - 1
           /\ \A i \in 1..(Len(s) - 1) :
                 RemoveAt(s, k)[i] = IF i < k THEN s[i] ELSE s[i + 1]
<1> DEFINE r == RemoveAt(s, k)
           n == Len(s)
<1>1. n \in Nat /\ DOMAIN s = 1..n /\ k \in 1..n
  BY LenProperties
<1>2. /\ SubSeq(s, 1, k - 1) \in Seq(S) /\ SubSeq(s, k + 1, n) \in Seq(S)
      /\ Len(SubSeq(s, 1, k - 1)) = k - 1 /\ Len(SubSeq(s, k + 1, n)) = n - k
      /\ \A i \in 1..(k - 1) : SubSeq(s, 1, k - 1)[i] = s[i]
      /\ \A i \in 1..(n - k) : SubSeq(s, k + 1, n)[i] = s[i + k]
  BY <1>1
<1>3. /\ r \in Seq(S) /\ Len(r) = n - 1
      /\ \A i \in 1..(n - 1) : r[i] = IF i < k THEN s[i] ELSE s[i + 1]
  <2> DEFINE p == SubSeq(s, 1, k - 1)
             q == SubSeq(s, k + 1, n)
  <2>1. r = p \o q
    BY DEF RemoveAt
  <2>2. /\ p \in Seq(S) /\ q \in Seq(S) /\ Len(p) = k - 1 /\ Len(q) = n - k
        /\ \A i \in 1..(k - 1) : p[i] = s[i]
        /\ \A i \in 1..(n - k) : q[i] = s[i + k]
    BY <1>2
  <2> HIDE DEF p, q, r, n
  <2>3. /\ r \in Seq(S) /\ Len(r) = (k - 1) + (n - k)
        /\ \A i \in 1..((k - 1) + (n - k)) : r[i] = IF i <= k - 1 THEN p[i] ELSE q[i - (k - 1)]
    BY <2>1, <2>2, ConcatProperties
  <2>4. (k - 1) + (n - k) = n - 1
    BY <1>1
  <2>5. ASSUME NEW i \in 1..(n - 1) PROVE r[i] = IF i < k THEN s[i] ELSE s[i + 1]
    <3>1. CASE i < k
      BY <1>1, <2>2, <2>3, <2>4, <3>1
    <3>2. CASE ~(i < k)
      <4>1. i - (k - 1) \in 1..(n - k) /\ (i - (k - 1)) + k = i + 1 /\ ~(i <= k - 1)
        BY <1>1, <3>2
      <4>2. r[i] = q[i - (k - 1)]
        BY <2>3, <2>4, <4>1
      <4>3. q[i - (k - 1)] = s[i + 1]
        BY <2>2, <4>1
      <4>4. QED
        BY <3>2, <4>2, <4>3
    <3>3. QED
      BY <3>1, <3>2
  <2>6. QED
    BY <2>3, <2>4, <2>5
<1>4. QED
  BY <1>3 DEF r, n

-----------------------------------------------------------------------------
(* The watcher.  That a callback knows what counts as seen does not keep     *)
(* itself: between reading a content and adopting it the task awaits one     *)
(* callback after the other while the file changes and the lists do, so the  *)
(* invariant says how far the change under way has been told.                *)

\* Registered callbacks are callbacks, in lists.
Registered == /\ sync \in [Lists -> SUBSET Callbacks]
              /\ async \in [Lists -> Seq(Callbacks)]
              /\ walked \in Nat

\* An edit gives a content that no watched file had before.
Adopted == /\ disk \in [Paths -> 0..MaxEdits]
           /\ hash \in [Paths -> 0..MaxEdits \cup {Unwatched}]
           /\ \A p \in Paths : hash[p] # Unwatched => hash[p] <= disk[p]

\* Callbacks are registered for watched files only.
Watched == \A p \in Paths : In(p) # {} => hash[p] # Unwatched

Knows(p, c) == told[<<p, c>>] = disk[p]
Heard(p, c) == Knows(p, c) \/ <<p, c>> \in skipped

\* Unless the file has changed again: the synchronous callbacks know the change
\* being handled; of the list under walk the entries passed have heard of it;
\* and once those for any change have their turn, all of the path have.
Told(p) ==
    /\ \A c \in sync[p] : Knows(p, c)
    /\ \A i \in DOMAIN async[p] : (walking = p /\ i > walked) \/ Heard(p, async[p][i])
    /\ walking = AnyPath =>
          /\ \A c \in sync[AnyPath] : Knows(p, c)
          /\ \A i \in DOMAIN async[AnyPath] : i > walked \/ Heard(p, async[AnyPath][i])

Reported ==
    Handling =>
        /\ current \in Paths \X (0..MaxEdits)
        /\ current[2] <= disk[current[1]]
        /\ walking \in {current[1], AnyPath, Nowhere}
        /\ current[2] = disk[current[1]] => Told(current[1])

WatcherInv == Registered /\ Adopted /\ Watched /\ Reported /\ NothingMissed

\* What the invariant depends on.
invVars == <<disk, hash, sync, async, told, skipped, forced>>

LEMMA OnlyThese ==
    ASSUME WatcherInv, UNCHANGED invVars, walked' \in Nat,
           Handling' => Handling /\ UNCHANGED <<current, walking, walked>>
    PROVE  WatcherInv'
BY DEF WatcherInv, Registered, Adopted, Watched, Reported, NothingMissed, invVars,
       In, Told, Knows, Heard

LEMMA WatcherStarts == WatcherInit => WatcherInv
<1> SUFFICES ASSUME WatcherInit PROVE WatcherInv
  OBVIOUS
<1>1. Registered /\ Adopted
  BY WatcherConstants DEF WatcherInit, Registered, Adopted
<1>2. \A l \in Lists : In(l) = {}
  BY DEF WatcherInit, In, ToSet
<1>3. Reported
  BY DEF WatcherInit, Reported, Handling
<1>4. QED
  BY <1>1, <1>2, <1>3, WatcherConstants DEF WatcherInv, Watched, NothingMissed, Lists

LEMMA InCallbacks ==
    ASSUME Registered
    PROVE  \A l \in Lists : In(l) \subseteq Callbacks
<1>1. \A l \in Lists : sync[l] \subseteq Callbacks /\ async[l] \in Seq(Callbacks)
  BY DEF Registered
<1>2. QED
  BY <1>1 DEF In, ToSet

\* A callback that joins a list, or leaves one.
LEMMA RegisterAdds ==
    ASSUME Registered, NEW l \in Lists, NEW c \in Callbacks, Register(l, c),
           walked' = walked
    PROVE  /\ Registered'
           /\ \A k \in Lists : k # l => sync'[k] = sync[k] /\ async'[k] = async[k]
           /\ sync[l] \subseteq sync'[l] /\ sync'[l] \subseteq sync[l] \cup {c}
           /\ \A i \in DOMAIN async'[l] : \/ i \in DOMAIN async[l] /\ async'[l][i] = async[l][i]
                                          \/ async'[l][i] = c
<1>1. CASE c \in SyncCallbacks /\ sync' = [sync EXCEPT ![l] = @ \cup {c}] /\ UNCHANGED async
  BY <1>1 DEF Registered
<1>2. CASE c \in AsyncCallbacks /\ async' = [async EXCEPT ![l] = Append(@, c)] /\ UNCHANGED sync
  <2>1. async[l] \in Seq(Callbacks) /\ async'[l] = Append(async[l], c)
    BY <1>2 DEF Registered
  <2>2. /\ Append(async[l], c) \in Seq(Callbacks)
        /\ \A i \in DOMAIN Append(async[l], c) :
              \/ i \in DOMAIN async[l] /\ Append(async[l], c)[i] = async[l][i]
              \/ Append(async[l], c)[i] = c
    BY <2>1
  <2>3. Registered'
    BY <1>2, <2>1, <2>2 DEF Registered
  <2>4. QED
    BY <1>2, <2>1, <2>2, <2>3 DEF Registered
<1>3. QED
  BY <1>1, <1>2 DEF Register

LEMMA DeregisterLeaves ==
    ASSUME Registered, NEW l \in Lists, NEW c, Deregister(l, c), walked' = walked
    PROVE  /\ Registered' /\ skipped \subseteq skipped'
           /\ \A k \in Lists : k # l => sync'[k] = sync[k] /\ async'[k] = async[k]
           /\ sync'[l] \subseteq sync[l]
           /\ \A i \in DOMAIN async'[l] : \E j \in DOMAIN async[l] :
                 /\ async'[l][i] = async[l][j]
                 /\ walking = l /\ i <= walked =>
                       j <= walked \/ <<current[1], async[l][j]>> \in skipped'
<1>1. /\ sync' \in [Lists -> SUBSET Callbacks] /\ sync'[l] \subseteq sync[l]
      /\ \A k \in Lists : k # l => sync'[k] = sync[k]
  BY DEF Deregister, Registered
<1>2. CASE UNCHANGED <<async, skipped>>
  <2>1. \A i \in DOMAIN async'[l] : i \in DOMAIN async[l] /\ async'[l][i] = async[l][i]
    BY <1>2
  <2>2. Registered'
    BY <1>1, <1>2 DEF Registered
  <2>3. QED
    BY <1>1, <1>2, <2>1, <2>2
<1>3. ASSUME NEW k \in DOMAIN async[l], async' = [async EXCEPT ![l] = RemoveAt(@, k)],
             skipped' = skipped \cup PassedBy(l, k)
      PROVE  /\ Registered' /\ skipped \subseteq skipped'
             /\ \A m \in Lists : m # l => async'[m] = async[m]
             /\ \A i \in DOMAIN async'[l] : \E j \in DOMAIN async[l] :
                   /\ async'[l][i] = async[l][j]
                   /\ walking = l /\ i <= walked =>
                         j <= walked \/ <<current[1], async[l][j]>> \in skipped'
  <2>1. async[l] \in Seq(Callbacks) /\ walked \in Nat
    BY DEF Registered
  <2> DEFINE s == async[l]
             r == RemoveAt(s, k)
  <2>2. /\ s \in Seq(Callbacks) /\ k \in DOMAIN s /\ DOMAIN s = 1..Len(s) /\ Len(s) \in Nat
    BY <2>1, LenProperties
  <2> HIDE DEF s
  <2>3. /\ r \in Seq(Callbacks) /\ Len(r) = Len(s) - 1 /\ DOMAIN r = 1..(Len(s) - 1)
        /\ \A i \in 1..(Len(s) - 1) : r[i] = IF i < k THEN s[i] ELSE s[i + 1]
    BY <2>2, RemoveAtIs, LenProperties
  <2> HIDE DEF r
  <2>4. async'[l] = r /\ async' \in [Lists -> Seq(Callbacks)]
        /\ \A m \in Lists : m # l => async'[m] = async[m]
    BY <1>3, <2>3 DEF Registered, r, s
  <2>5. ASSUME NEW i \in DOMAIN r
        PROVE  \E j \in DOMAIN s :
                  /\ r[i] = s[j]
                  /\ walking = l /\ i <= walked =>
                        j <= walked \/ <<current[1], s[j]>> \in skipped'
    <3>1. CASE i < k
      BY <2>1, <2>2, <2>3, <2>5, <3>1
    <3>2. CASE ~(i < k)
      <4>1. i \in Nat /\ i + 1 \in DOMAIN s /\ r[i] = s[i + 1]
        BY <2>2, <2>3, <2>5, <3>2
      <4>2. ASSUME walking = l, i <= walked, ~(i + 1 <= walked)
            PROVE  <<current[1], s[i + 1]>> \in skipped'
        <5>1. i = walked /\ k <= walked /\ walked < Len(s)
          BY <2>1, <2>2, <3>2, <4>1, <4>2
        <5>2. PassedBy(l, k) = {<<current[1], s[walked + 1]>>}
          BY <4>2, <5>1 DEF PassedBy, s
        <5>3. QED
          BY <1>3, <5>1, <5>2
      <4>3. QED
        BY <4>1, <4>2
    <3>3. QED
      BY <3>1, <3>2
  <2>6. Registered'
    BY <1>1, <2>1, <2>4 DEF Registered
  <2>7. QED
    BY <1>3, <2>4, <2>5, <2>6 DEF s
<1>4. QED
  BY <1>1, <1>2, <1>3 DEF Deregister

\* A caller between two steps of a walk: those who join a list know the file,
\* and the entries passed are others that were passed, or those passed by.
LEMMA CallKeepsReported ==
    ASSUME WatcherInv, disk' = disk, Registered',
           loop' = loop, current' = current, walked' = walked,
           walking' = walking \/ (walking' = Nowhere /\ async'[walking] = <<>>),
           \A q \in Paths, c \in Callbacks :
              /\ told'[<<q, c>>] \in {told[<<q, c>>], disk[q]}
              /\ <<q, c>> \in skipped => <<q, c>> \in skipped' \/ told'[<<q, c>>] = disk[q],
           \A q \in Paths, l \in Lists : l \in {q, AnyPath} =>
              /\ \A c \in sync'[l] : c \in sync[l] \/ told'[<<q, c>>] = disk[q]
              /\ \A i \in DOMAIN async'[l] :
                    \/ told'[<<q, async'[l][i]>>] = disk[q]
                    \/ \E j \in DOMAIN async[l] :
                          /\ async'[l][i] = async[l][j]
                          /\ walking = l /\ i <= walked =>
                                j <= walked \/ <<current[1], async[l][j]>> \in skipped'
    PROVE  Reported'
<1> SUFFICES ASSUME Handling PROVE Reported'
  BY DEF Reported, Handling
<1>0. PICK p \in Paths : p = current[1]
  BY DEF WatcherInv, Reported
<1>1. /\ current' = current /\ current \in Paths \X (0..MaxEdits)
      /\ current[2] <= disk[p] /\ walking \in {p, AnyPath, Nowhere}
      /\ current[2] = disk[p] => Told(p)
  BY <1>0 DEF WatcherInv, Reported
<1>2. walking' \in {p, AnyPath, Nowhere}
  BY <1>1
<1>3. ASSUME Told(p) PROVE Told(p)'
  <2>1. /\ p \in Lists /\ AnyPath \in Lists /\ p # AnyPath /\ Nowhere \notin Lists
        /\ walked \in Nat
    BY WatcherConstants DEF Lists, WatcherInv, Registered
  <2>2. /\ \A l \in Lists : sync[l] \subseteq Callbacks /\ sync'[l] \subseteq Callbacks
        /\ \A l \in Lists : /\ DOMAIN async[l] \subseteq Nat /\ DOMAIN async'[l] \subseteq Nat
                            /\ \A i \in DOMAIN async[l] : async[l][i] \in Callbacks
    BY DEF WatcherInv, Registered
  <2>3. \A c \in Callbacks : (Knows(p, c) => Knows(p, c)') /\ (Heard(p, c) => Heard(p, c)')
    BY DEF Knows, Heard
  <2>4. ASSUME NEW c \in sync'[p] PROVE Knows(p, c)'
    BY <1>3, <2>1, <2>2, <2>3, <2>4 DEF Told, Knows
  <2>5. ASSUME NEW l \in {p, AnyPath}, walking' = l \/ l = p, NEW i \in DOMAIN async'[l],
               ~(walking' = l /\ i > walked), NEW c, c = async'[l][i]
        PROVE  Heard(p, c)'
    <3>1. CASE told'[<<p, c>>] = disk[p]
      BY <3>1 DEF Heard, Knows
    <3>2. ASSUME NEW j \in DOMAIN async[l], c = async[l][j],
                 walking = l /\ i <= walked => j <= walked \/ <<p, c>> \in skipped'
          PROVE  Heard(p, c)'
      <4>1. i \in Nat /\ j \in Nat /\ c \in Callbacks
        BY <2>1, <2>2, <2>5, <3>2
      <4>2. CASE ~(walking = l /\ j > walked)
        <5>1. l = p \/ walking = AnyPath
          BY <2>1, <2>5
        <5>2. Heard(p, c)
          BY <1>3, <2>1, <3>2, <4>1, <4>2, <5>1 DEF Told
        <5>3. QED
          BY <2>3, <4>1, <5>2
      <4>3. CASE walking = l /\ j > walked
        <5>1. walking' = l
          BY <2>1, <2>5, <4>3
        <5>2. i <= walked /\ ~(j <= walked)
          BY <2>1, <2>5, <4>1, <4>3, <5>1
        <5>3. QED
          BY <3>2, <4>3, <5>2 DEF Heard
      <4>4. QED
        BY <4>2, <4>3
    <3>3. QED
      BY <1>0, <2>1, <2>5, <3>1, <3>2
  <2>6. ASSUME walking' = AnyPath, NEW c \in sync'[AnyPath] PROVE Knows(p, c)'
    BY <1>3, <2>1, <2>2, <2>3, <2>6 DEF Told, Knows
  <2>7. QED
    BY <2>4, <2>5, <2>6 DEF Told
<1>4. QED
  BY <1>0, <1>1, <1>2, <1>3 DEF Reported

LEMMA WatchKept ==
    ASSUME WatcherInv, NEW p \in Paths, NEW c \in Callbacks, watch(p, c)
    PROVE  WatcherInv'
<1>1. /\ disk' = disk /\ loop' = loop /\ current' = current /\ walked' = walked
      /\ walking' = walking /\ Register(p, c)
      /\ p \in Lists /\ AnyPath \in Lists /\ p # AnyPath
  BY WatcherConstants DEF watch, Lists
<1>2. /\ Registered'
      /\ \A k \in Lists : k # p => sync'[k] = sync[k] /\ async'[k] = async[k]
      /\ sync[p] \subseteq sync'[p] /\ sync'[p] \subseteq sync[p] \cup {c}
      /\ \A i \in DOMAIN async'[p] : \/ i \in DOMAIN async[p] /\ async'[p][i] = async[p][i]
                                     \/ async'[p][i] = c
  BY <1>1, RegisterAdds DEF WatcherInv
<1>3. /\ hash' \in [Paths -> 0..MaxEdits \cup {Unwatched}]
      /\ hash'[p] = IF hash[p] = Unwatched THEN disk[p] ELSE hash[p]
      /\ hash'[p] # Unwatched /\ \A q \in Paths : q # p => hash'[q] = hash[q]
      /\ disk[p] \in 0..MaxEdits
  BY WatcherConstants DEF watch, WatcherInv, Adopted
<1>4. /\ \A q \in Paths, d \in Callbacks : told'[<<q, d>>] \in {told[<<q, d>>], disk[q]}
      /\ told'[<<p, c>>] = disk[p]
      /\ hash[p] = Unwatched => \A d \in Callbacks : d \in In(AnyPath) => told'[<<p, d>>] = disk[p]
  BY DEF watch, Tell
<1>5. Adopted'
  BY <1>1, <1>3 DEF WatcherInv, Adopted
<1>6. /\ \A l \in Lists : l # p => In(l)' = In(l)
      /\ In(p)' \subseteq In(p) \cup {c}
  BY <1>2 DEF In, ToSet
<1>7. Watched'
  BY <1>1, <1>3, <1>6 DEF WatcherInv, Watched, Lists
<1>8. \A q \in Paths, d \in Callbacks :
         <<q, d>> \in skipped => <<q, d>> \in skipped' \/ told'[<<q, d>>] = disk[q]
  BY <1>4 DEF watch
<1>9. Reported'
  <2>1. ASSUME NEW q \in Paths, NEW l \in Lists, l \in {q, AnyPath}
        PROVE  /\ \A d \in sync'[l] : d \in sync[l] \/ told'[<<q, d>>] = disk[q]
               /\ \A i \in DOMAIN async'[l] :
                     \/ told'[<<q, async'[l][i]>>] = disk[q]
                     \/ \E j \in DOMAIN async[l] :
                           /\ async'[l][i] = async[l][j]
                           /\ walking = l /\ i <= walked =>
                                 j <= walked \/ <<current[1], async[l][j]>> \in skipped'
    <3>1. CASE l = p
      BY <1>1, <1>2, <1>4, <2>1, <3>1
    <3>2. CASE l # p
      BY <1>2, <3>2
    <3>3. QED
      BY <3>1, <3>2
  <2>2. QED
    BY <1>1, <1>2, <1>4, <1>8, <2>1, CallKeepsReported
<1>10. NothingMissed'
  <2> SUFFICES ASSUME NEW q \in Paths, NEW d, d \in In(q)' \cup In(AnyPath)',
                      hash'[q] = disk[q], <<q, d>> \notin skipped',
                      q \in forced' => d \in sync'[q] \cup sync'[AnyPath],
                      told'[<<q, d>>] # disk[q]
               PROVE  FALSE
    BY <1>1 DEF NothingMissed
  <2>1. ~(q = p /\ d = c)
    BY <1>4
  <2>2. d \in In(q) \cup In(AnyPath) /\ d \in Callbacks
    <3>1. d \in In(q) \cup In(AnyPath)
      BY <1>1, <1>6, <2>1 DEF Lists
    <3>2. \A l \in Lists : In(l) \subseteq Callbacks
      BY InCallbacks DEF WatcherInv
    <3>3. QED
      BY <3>1, <3>2 DEF Lists
  <2>3. <<q, d>> \notin skipped
    BY <1>8, <2>2
  <2>4. ~(q = p /\ hash[p] = Unwatched)
    <3> SUFFICES ASSUME q = p, hash[p] = Unwatched PROVE FALSE
      OBVIOUS
    <3>1. In(p) = {}
      BY DEF WatcherInv, Watched
    <3>2. QED
      BY <1>4, <2>2, <3>1
  <2>5. hash[q] = disk[q] /\ (q \in forced => q \in forced')
    BY <1>3, <2>4 DEF watch
  <2>6. q \in forced => d \in sync[q] \cup sync[AnyPath]
    BY <1>1, <1>2, <2>1, <2>5 DEF Lists
  <2>7. told[<<q, d>>] = disk[q]
    BY <2>2, <2>3, <2>5, <2>6 DEF WatcherInv, NothingMissed
  <2>8. QED
    BY <1>4, <2>2, <2>7
<1>11. QED
  BY <1>2, <1>5, <1>7, <1>9, <1>10 DEF WatcherInv

\* Leaving a list disturbs what is known no more than the walk allows.
LEMMA LeaveKept ==
    ASSUME WatcherInv, NEW l \in Lists, NEW c, Deregister(l, c),
           disk' = disk, loop' = loop, current' = current, walked' = walked,
           walking' = walking \/ (walking' = Nowhere /\ async'[walking] = <<>>),
           told' = told, forced' = forced,
           hash' \in [Paths -> 0..MaxEdits \cup {Unwatched}],
           \A q \in Paths : hash'[q] = hash[q] \/ (hash'[q] = Unwatched /\ In(q)' = {})
    PROVE  WatcherInv'
<1>1. AnyPath \in Lists /\ Paths \subseteq Lists
  BY DEF Lists
<1>2. /\ Registered' /\ skipped \subseteq skipped'
      /\ \A k \in Lists : k # l => sync'[k] = sync[k] /\ async'[k] = async[k]
      /\ sync'[l] \subseteq sync[l]
      /\ \A i \in DOMAIN async'[l] : \E j \in DOMAIN async[l] :
            /\ async'[l][i] = async[l][j]
            /\ walking = l /\ i <= walked =>
                  j <= walked \/ <<current[1], async[l][j]>> \in skipped'
  BY DeregisterLeaves DEF WatcherInv
<1>3. Adopted'
  BY DEF WatcherInv, Adopted
<1>4. \A k \in Lists : In(k)' \subseteq In(k) /\ sync'[k] \subseteq sync[k]
  <2>1. ASSUME NEW d \in ToSet(async'[l]) PROVE d \in ToSet(async[l])
    <3>1. PICK i \in DOMAIN async'[l] : d = async'[l][i]
      BY <2>1 DEF ToSet
    <3>2. QED
      BY <1>2, <3>1 DEF ToSet
  <2>2. \A k \in Lists : ToSet(async'[k]) \subseteq ToSet(async[k]) /\ sync'[k] \subseteq sync[k]
    BY <1>2, <2>1
  <2>3. QED
    BY <2>2 DEF In
<1>5. Watched'
  BY <1>1, <1>4 DEF WatcherInv, Watched
<1>6. Reported'
  <2>1. ASSUME NEW q \in Paths, NEW k \in Lists
        PROVE  /\ \A d \in sync'[k] : d \in sync[k] \/ told'[<<q, d>>] = disk[q]
               /\ \A i \in DOMAIN async'[k] :
                     \/ told'[<<q, async'[k][i]>>] = disk[q]
                     \/ \E j \in DOMAIN async[k] :
                           /\ async'[k][i] = async[k][j]
                           /\ walking = k /\ i <= walked =>
                                 j <= walked \/ <<current[1], async[k][j]>> \in skipped'
    BY <1>2
  <2>2. QED
    BY <1>2, <2>1, CallKeepsReported
<1>7. NothingMissed'
  <2> SUFFICES ASSUME NEW q \in Paths, NEW d, d \in In(q)' \cup In(AnyPath)',
                      hash'[q] = disk[q], <<q, d>> \notin skipped',
                      q \in forced => d \in sync'[q] \cup sync'[AnyPath]
               PROVE  told[<<q, d>>] = disk[q]
    BY DEF NothingMissed
  <2>1. hash[q] = disk[q] /\ <<q, d>> \notin skipped
    BY <1>2, WatcherConstants DEF WatcherInv, Adopted
  <2>2. /\ d \in In(q) \cup In(AnyPath)
        /\ q \in forced => d \in sync[q] \cup sync[AnyPath]
    BY <1>1, <1>4
  <2>3. QED
    BY <2>1, <2>2 DEF WatcherInv, NothingMissed
<1>8. QED
  BY <1>2, <1>3, <1>5, <1>6, <1>7 DEF WatcherInv

LEMMA UnwatchKept ==
    ASSUME WatcherInv, NEW p \in Paths, NEW c \in Callbacks, unwatch(p, c)
    PROVE  WatcherInv'
<1>1. /\ Deregister(p, c) /\ p \in Lists /\ disk' = disk /\ loop' = loop
      /\ current' = current /\ walked' = walked /\ told' = told /\ forced' = forced
  BY DEF unwatch, Lists
<1>2. /\ walking' = walking \/ (walking' = Nowhere /\ async'[walking] = <<>>)
      /\ hash' \in [Paths -> 0..MaxEdits \cup {Unwatched}]
      /\ \A q \in Paths : hash'[q] = hash[q] \/ (hash'[q] = Unwatched /\ In(q)' = {})
  <2>1. CASE sync'[p] = {} /\ async'[p] = <<>>
    <3>1. /\ hash' = [hash EXCEPT ![p] = Unwatched]
          /\ walking' = IF walking = p THEN Nowhere ELSE walking
      BY <2>1 DEF unwatch
    <3>2. In(p)' = {}
      BY <2>1 DEF In, ToSet
    <3>3. QED
      BY <2>1, <3>1, <3>2 DEF WatcherInv, Adopted
  <2>2. CASE ~(sync'[p] = {} /\ async'[p] = <<>>)
    BY <2>2 DEF unwatch, WatcherInv, Adopted
  <2>3. QED
    BY <2>1, <2>2
<1>3. QED
  BY <1>1, <1>2, LeaveKept

LEMMA UnregisterKept ==
    ASSUME WatcherInv, NEW c \in Callbacks, unregister_callback(c)
    PROVE  WatcherInv'
<1>1. AnyPath \in Lists
  BY DEF Lists
<1>2. QED
  BY <1>1, LeaveKept DEF unregister_callback, WatcherInv, Adopted

LEMMA AnyChangeKept ==
    ASSUME WatcherInv, NEW c \in Callbacks, on_any_change(c)
    PROVE  WatcherInv'
<1>1. /\ UNCHANGED <<disk, hash, loop, current, walking, walked, forced>>
      /\ Register(AnyPath, c) /\ AnyPath \in Lists /\ Paths \subseteq Lists
      /\ \A q \in Paths : q # AnyPath
  BY WatcherConstants DEF on_any_change, Lists
<1>2. /\ Registered'
      /\ \A k \in Lists : k # AnyPath => sync'[k] = sync[k] /\ async'[k] = async[k]
      /\ sync'[AnyPath] \subseteq sync[AnyPath] \cup {c}
      /\ \A i \in DOMAIN async'[AnyPath] :
            \/ i \in DOMAIN async[AnyPath] /\ async'[AnyPath][i] = async[AnyPath][i]
            \/ async'[AnyPath][i] = c
  BY <1>1, RegisterAdds DEF WatcherInv
<1>3. /\ \A q \in Paths, d \in Callbacks :
            /\ told'[<<q, d>>] = IF d = c THEN disk[q] ELSE told[<<q, d>>]
            /\ <<q, d>> \in skipped => <<q, d>> \in skipped' \/ d = c
  BY DEF on_any_change
<1>4. /\ \A q \in Paths : In(q)' = In(q)
      /\ In(AnyPath)' \subseteq In(AnyPath) \cup {c}
  BY <1>1, <1>2 DEF In, ToSet
<1>5. Adopted' /\ Watched'
  BY <1>1, <1>4 DEF WatcherInv, Adopted, Watched
<1>6. Reported'
  <2>1. ASSUME NEW q \in Paths, NEW k \in Lists
        PROVE  /\ \A d \in sync'[k] : d \in sync[k] \/ told'[<<q, d>>] = disk[q]
               /\ \A i \in DOMAIN async'[k] :
                     \/ told'[<<q, async'[k][i]>>] = disk[q]
                     \/ \E j \in DOMAIN async[k] :
                           /\ async'[k][i] = async[k][j]
                           /\ walking = k /\ i <= walked =>
                                 j <= walked \/ <<current[1], async[k][j]>> \in skipped'
    BY <1>2, <1>3
  <2>2. QED
    BY <1>1, <1>2, <1>3, <2>1, CallKeepsReported
<1>7. NothingMissed'
  <2> SUFFICES ASSUME NEW q \in Paths, NEW d, d \in In(q)' \cup In(AnyPath)',
                      hash[q] = disk[q], <<q, d>> \notin skipped',
                      q \in forced => d \in sync'[q] \cup sync'[AnyPath]
               PROVE  told'[<<q, d>>] = disk[q]
    BY <1>1 DEF NothingMissed
  <2>1. CASE d = c
    BY <1>3, <2>1
  <2>2. CASE d # c
    <3>1. /\ d \in In(q) \cup In(AnyPath)
          /\ q \in forced => d \in sync[q] \cup sync[AnyPath]
      BY <1>1, <1>2, <1>4, <2>2
    <3>2. d \in Callbacks
      BY <1>1, <3>1, InCallbacks DEF WatcherInv
    <3>3. QED
      BY <1>3, <2>2, <3>1, <3>2 DEF WatcherInv, NothingMissed
  <2>3. QED
    BY <2>1, <2>2
<1>8. QED
  BY <1>2, <1>5, <1>6, <1>7 DEF WatcherInv

LEMMA ForceKept ==
    ASSUME WatcherInv, NEW p \in Paths, force_reload(p)
    PROVE  WatcherInv'
<1>1. /\ UNCHANGED <<disk, sync, async, loop, current, walking, walked, skipped>>
      /\ forced' = forced \cup {p} /\ hash[p] # Unwatched
      /\ AnyPath \in Lists /\ Paths \subseteq Lists
  BY DEF force_reload, Lists
<1>2. /\ hash' \in [Paths -> 0..MaxEdits \cup {Unwatched}]
      /\ hash'[p] = disk[p] /\ disk[p] \in 0..MaxEdits
      /\ \A q \in Paths : q # p => hash'[q] = hash[q]
  BY DEF force_reload, WatcherInv, Adopted
<1>3. \A q \in Paths, d \in Callbacks :
         told'[<<q, d>>] = IF q = p /\ d \in sync[p] \cup sync[AnyPath]
                           THEN disk[p] ELSE told[<<q, d>>]
  BY DEF force_reload, Tell
<1>4. Registered' /\ \A l \in Lists : In(l)' = In(l)
  BY <1>1 DEF WatcherInv, Registered, In
<1>5. Adopted' /\ Watched'
  BY <1>1, <1>2, <1>4, WatcherConstants DEF WatcherInv, Adopted, Watched
<1>6. Reported'
  BY <1>1, <1>3, <1>4, CallKeepsReported
<1>7. NothingMissed'
  <2> SUFFICES ASSUME NEW q \in Paths, NEW d, d \in In(q) \cup In(AnyPath),
                      hash'[q] = disk[q], <<q, d>> \notin skipped,
                      q \in forced \cup {p} => d \in sync[q] \cup sync[AnyPath]
               PROVE  told'[<<q, d>>] = disk[q]
    BY <1>1, <1>4 DEF NothingMissed
  <2>1. d \in Callbacks
    BY <1>1, InCallbacks DEF WatcherInv
  <2>2. CASE q = p
    BY <1>3, <2>1, <2>2
  <2>3. CASE q # p
    BY <1>2, <1>3, <2>1, <2>3 DEF WatcherInv, NothingMissed
  <2>4. QED
    BY <2>2, <2>3
<1>8. QED
  BY <1>4, <1>5, <1>6, <1>7 DEF WatcherInv

LEMMA NoticeKept ==
    ASSUME WatcherInv, NEW p \in Paths, Notice(p)
    PROVE  WatcherInv'
<1>1. /\ UNCHANGED <<disk, hash, sync, async, forced>> /\ p # AnyPath
      /\ current' = <<p, disk[p]>> /\ walking' = p /\ walked' = 0
      /\ hash[p] # disk[p] /\ disk[p] \in 0..MaxEdits
  BY WatcherConstants DEF Notice, Due, WatcherInv, Adopted, Lists
<1>2. /\ \A q \in Paths, c \in Callbacks :
            told'[<<q, c>>] = IF q = p /\ c \in sync[p] THEN disk[p] ELSE told[<<q, c>>]
      /\ \A q \in Paths, c \in Callbacks : q # p /\ <<q, c>> \in skipped => <<q, c>> \in skipped'
  BY DEF Notice, Tell
<1>3. Registered' /\ Adopted' /\ Watched' /\ \A l \in Lists : In(l)' = In(l)
  BY <1>1 DEF WatcherInv, Registered, Adopted, Watched, In
<1>4. \A l \in Lists : In(l) \subseteq Callbacks /\ sync[l] \subseteq In(l)
  BY InCallbacks DEF WatcherInv, In
<1>5. Reported'
  <2>1. \A c \in sync[p] : told'[<<p, c>>] = disk[p]
    BY <1>2, <1>4 DEF Lists
  <2>2. \A i \in DOMAIN async[p] : i > 0
    <3>1. async[p] \in Seq(Callbacks)
      BY DEF WatcherInv, Registered, Lists
    <3>2. QED
      BY <3>1
  <2>3. Told(p)'
    BY <1>1, <2>1, <2>2 DEF Told, Knows
  <2>4. QED
    BY <1>1, <2>3 DEF Reported
<1>6. NothingMissed'
  <2> SUFFICES ASSUME NEW q \in Paths, NEW c, c \in In(q) \cup In(AnyPath),
                      hash[q] = disk[q], <<q, c>> \notin skipped',
                      q \in forced => c \in sync[q] \cup sync[AnyPath]
               PROVE  told'[<<q, c>>] = disk[q]
    BY <1>1, <1>3 DEF NothingMissed, Lists
  <2>1. q # p /\ c \in Callbacks /\ <<q, c>> \notin skipped
    BY <1>1, <1>2, <1>4 DEF Lists
  <2>2. QED
    BY <1>2, <2>1 DEF WatcherInv, NothingMissed
<1>7. QED
  BY <1>3, <1>5, <1>6 DEF WatcherInv

\* Telling somebody of the path being handled misses nobody.
LEMMA TellKept ==
    ASSUME WatcherInv, Handling, NEW cs, Tell(current[1], cs),
           UNCHANGED <<disk, hash, sync, async, current, skipped, forced>>, walked' \in Nat
    PROVE  /\ Registered' /\ Adopted' /\ Watched' /\ NothingMissed'
           /\ \A q \in Paths, c \in Callbacks :
                 /\ (Knows(q, c) => Knows(q, c)') /\ (Heard(q, c) => Heard(q, c)')
                 /\ q = current[1] /\ c \in cs => Knows(q, c)'
<1>1. \A q \in Paths, c \in Callbacks :
         told'[<<q, c>>] = IF q = current[1] /\ c \in cs THEN disk[q] ELSE told[<<q, c>>]
  BY DEF Tell
<1>2. /\ \A l \in Lists : In(l)' = In(l) /\ In(l) \subseteq Callbacks
      /\ AnyPath \in Lists /\ Paths \subseteq Lists
  BY InCallbacks DEF WatcherInv, In, Lists
<1>3. Registered' /\ Adopted' /\ Watched'
  BY <1>2 DEF WatcherInv, Registered, Adopted, Watched
<1>4. NothingMissed'
  BY <1>1, <1>2 DEF WatcherInv, NothingMissed
<1>5. QED
  BY <1>1, <1>3, <1>4 DEF Knows, Heard

LEMMA CallNextKept ==
    ASSUME WatcherInv, CallNext
    PROVE  WatcherInv'
<1>1. PICK p \in Paths : p = current[1] /\ current \in Paths \X (0..MaxEdits)
  BY DEF CallNext, WatcherInv, Reported
<1>2. /\ Handling /\ UNCHANGED <<disk, hash, sync, async, current, walking, skipped, forced>>
      /\ walked \in Nat /\ walked' = walked + 1 /\ walking \in Lists
      /\ walking \in {p, AnyPath, Nowhere} /\ current[2] <= disk[p]
      /\ current[2] = disk[p] => Told(p)
      /\ Tell(p, {async[walking][walked + 1]})
  BY <1>1 DEF CallNext, Exhausted, WatcherInv, Registered, Reported
<1>3. /\ Registered' /\ Adopted' /\ Watched' /\ NothingMissed'
      /\ \A c \in Callbacks :
            /\ (Knows(p, c) => Knows(p, c)') /\ (Heard(p, c) => Heard(p, c)')
            /\ c = async[walking][walked + 1] => Knows(p, c)'
  BY <1>1, <1>2, TellKept
<1>4. ASSUME Told(p) PROVE Told(p)'
  <2>1. /\ \A l \in Lists : /\ sync[l] \subseteq Callbacks
                            /\ \A i \in DOMAIN async[l] : i \in Nat /\ async[l][i] \in Callbacks
        /\ p \in Lists /\ AnyPath \in Lists /\ p # AnyPath
    BY WatcherConstants DEF WatcherInv, Registered, Lists
  <2>2. /\ \A c \in sync'[p] : Knows(p, c)'
        /\ walking' = AnyPath => \A c \in sync'[AnyPath] : Knows(p, c)'
    BY <1>2, <1>3, <1>4, <2>1 DEF Told
  <2>3. ASSUME NEW l \in {p, AnyPath}, l = p \/ walking = AnyPath,
               NEW i \in DOMAIN async[l], ~(walking = l /\ i > walked + 1),
               NEW c, c = async[l][i]
        PROVE  Heard(p, c)'
    <3>1. i \in Nat /\ c \in Callbacks
      BY <2>1, <2>3
    <3>2. CASE walking = l /\ i = walked + 1
      BY <1>3, <2>3, <3>1, <3>2 DEF Heard
    <3>3. CASE ~(walking = l /\ i > walked)
      <4>1. Heard(p, c)
        BY <1>4, <2>1, <2>3, <3>3 DEF Told
      <4>2. QED
        BY <1>3, <3>1, <4>1
    <3>4. QED
      BY <1>2, <2>3, <3>1, <3>2, <3>3
  <2>4. QED
    BY <1>2, <2>2, <2>3 DEF Told
<1>5. Reported'
  BY <1>1, <1>2, <1>4 DEF Reported
<1>6. QED
  BY <1>3, <1>5 DEF WatcherInv

LEMMA ToGlobalsKept ==
    ASSUME WatcherInv, ToGlobals
    PROVE  WatcherInv'
<1>1. PICK p \in Paths : p = current[1] /\ current \in Paths \X (0..MaxEdits)
  BY DEF ToGlobals, WatcherInv, Reported
<1>2. /\ Handling /\ UNCHANGED <<disk, hash, sync, async, current, skipped, forced>>
      /\ walked \in Nat /\ walked' = 0 /\ walking' = AnyPath /\ walking # AnyPath
      /\ walking \in Lists => walked >= Len(async[walking])
      /\ walking \in {p, AnyPath, Nowhere} /\ current[2] <= disk[p]
      /\ current[2] = disk[p] => Told(p)
      /\ Tell(p, sync[AnyPath])
  BY <1>1 DEF ToGlobals, Exhausted, WatcherInv, Registered, Reported
<1>3. /\ Registered' /\ Adopted' /\ Watched' /\ NothingMissed'
      /\ \A c \in Callbacks :
            /\ (Knows(p, c) => Knows(p, c)') /\ (Heard(p, c) => Heard(p, c)')
            /\ c \in sync[AnyPath] => Knows(p, c)'
  BY <1>1, <1>2, TellKept
<1>4. ASSUME Told(p) PROVE Told(p)'
  <2>1. /\ \A l \in Lists : /\ sync[l] \subseteq Callbacks
                            /\ \A i \in DOMAIN async[l] :
                                  /\ i \in Nat /\ 0 < i /\ i <= Len(async[l])
                                  /\ async[l][i] \in Callbacks
                            /\ Len(async[l]) \in Nat
        /\ p \in Lists /\ AnyPath \in Lists /\ p # AnyPath
    BY WatcherConstants DEF WatcherInv, Registered, Lists
  <2>2. ASSUME NEW i \in DOMAIN async[p], NEW c, c = async[p][i] PROVE Heard(p, c)'
    <3>1. ~(walking = p /\ i > walked)
      BY <1>2, <2>1, <2>2
    <3>2. Heard(p, c)
      BY <1>4, <2>2, <3>1 DEF Told
    <3>3. QED
      BY <1>3, <2>1, <2>2, <3>2
  <2>3. \A i \in DOMAIN async[AnyPath] : i > 0
    BY <2>1
  <2>4. (\A c \in sync[p] : Knows(p, c)') /\ (\A c \in sync[AnyPath] : Knows(p, c)')
    BY <1>3, <1>4, <2>1 DEF Told
  <2>5. QED
    BY <1>2, <2>2, <2>3, <2>4 DEF Told
<1>5. Reported'
  BY <1>1, <1>2, <1>4 DEF Reported
<1>6. QED
  BY <1>3, <1>5 DEF WatcherInv

LEMMA HandledKept ==
    ASSUME WatcherInv, Handled
    PROVE  WatcherInv'
<1>1. PICK p \in Paths, v \in 0..MaxEdits :
         p = current[1] /\ v = current[2] /\ v <= disk[p] /\ (v = disk[p] => Told(p))
  BY DEF Handled, WatcherInv, Reported
<1>2. /\ UNCHANGED <<disk, sync, async, told, skipped>> /\ forced' = forced \ {p}
      /\ walking = AnyPath /\ walked >= Len(async[AnyPath]) /\ walked' = 0
      /\ ~Handling' /\ p # AnyPath /\ p \in Lists /\ AnyPath \in Lists
  BY <1>1, WatcherConstants DEF Handled, Handling, Exhausted, Lists
<1>3. /\ hash' \in [Paths -> 0..MaxEdits \cup {Unwatched}]
      /\ hash'[p] = v /\ v # Unwatched
      /\ \A q \in Paths : q # p => hash'[q] = hash[q]
  BY <1>1, WatcherConstants DEF Handled, WatcherInv, Adopted
<1>4. Registered' /\ \A l \in Lists : In(l)' = In(l)
  BY <1>2 DEF WatcherInv, Registered, In
<1>5. Adopted'
  BY <1>1, <1>2, <1>3 DEF WatcherInv, Adopted
<1>6. Watched'
  BY <1>3, <1>4 DEF WatcherInv, Watched, Lists
<1>7. Reported'
  BY <1>2 DEF Reported
<1>8. NothingMissed'
  <2> SUFFICES ASSUME NEW q \in Paths, NEW c, c \in In(q) \cup In(AnyPath),
                      hash'[q] = disk[q], <<q, c>> \notin skipped,
                      q \in forced \ {p} => c \in sync[q] \cup sync[AnyPath]
               PROVE  told[<<q, c>>] = disk[q]
    BY <1>2, <1>4 DEF NothingMissed, Lists
  <2>1. CASE q = p
    <3>1. Told(p)
      BY <1>1, <1>3, <2>1
    <3>2. \A i \in DOMAIN async[AnyPath] : ~(i > walked)
      <4>1. async[AnyPath] \in Seq(Callbacks) /\ walked \in Nat
        BY <1>2 DEF WatcherInv, Registered
      <4>2. QED
        BY <1>2, <4>1
    <3>3. \A i \in DOMAIN async[AnyPath] : Heard(p, async[AnyPath][i])
      BY <1>2, <3>1, <3>2 DEF Told
    <3>4. \A i \in DOMAIN async[p] : Heard(p, async[p][i])
      BY <1>2, <3>1 DEF Told
    <3>5. Heard(p, c)
      <4>1. CASE c \in sync[p] \cup sync[AnyPath]
        BY <1>2, <3>1, <4>1 DEF Told, Heard
      <4>2. CASE c \in ToSet(async[p]) \cup ToSet(async[AnyPath])
        BY <3>3, <3>4, <4>2 DEF ToSet
      <4>3. QED
        BY <2>1, <4>1, <4>2 DEF In
    <3>6. QED
      BY <2>1, <3>5 DEF Heard, Knows
  <2>2. CASE q # p
    BY <1>3, <2>2 DEF WatcherInv, NothingMissed
  <2>3. QED
    BY <2>1, <2>2
<1>9. QED
  BY <1>4, <1>5, <1>6, <1>7, <1>8 DEF WatcherInv

LEMMA EditKept ==
    ASSUME WatcherInv, NEW p \in Paths, Edit(p)
    PROVE  WatcherInv'
<1>1. UNCHANGED <<hash, sync, async, loop, current, walking, walked, told, skipped, forced>>
  BY DEF Edit
<1>2. /\ disk' \in [Paths -> 0..MaxEdits]
      /\ disk'[p] = disk[p] + 1
      /\ \A q \in Paths : q # p => disk'[q] = disk[q]
      /\ disk[p] \in 0..MaxEdits
  BY WatcherConstants DEF Edit, WatcherInv, Adopted
<1>3. hash[p] # disk'[p]
  BY <1>2, WatcherConstants DEF WatcherInv, Adopted
<1>4. Registered' /\ \A l \in Lists : In(l)' = In(l)
  BY <1>1 DEF WatcherInv, Registered, In
<1>5. Adopted'
  BY <1>1, <1>2, WatcherConstants DEF WatcherInv, Adopted
<1>6. Watched'
  BY <1>1, <1>4 DEF WatcherInv, Watched, Lists
<1>7. Reported'
  <2> SUFFICES ASSUME Handling PROVE Reported'
    BY <1>1 DEF Reported, Handling
  <2>1. PICK q \in Paths : /\ q = current[1] /\ current \in Paths \X (0..MaxEdits)
                           /\ current[2] <= disk[q] /\ (current[2] = disk[q] => Told(q))
                           /\ walking \in {q, AnyPath, Nowhere}
    BY DEF WatcherInv, Reported
  <2>2. CASE q = p
    BY <1>1, <1>2, <2>1, <2>2 DEF Reported
  <2>3. CASE q # p
    <3>1. Told(q) => Told(q)'
      BY <1>1, <1>2, <2>3 DEF Told, Knows, Heard
    <3>2. QED
      BY <1>1, <1>2, <2>1, <2>3, <3>1 DEF Reported
  <2>4. QED
    BY <2>2, <2>3
<1>8. NothingMissed'
  BY <1>1, <1>2, <1>3, <1>4 DEF WatcherInv, NothingMissed, Lists
<1>9. QED
  BY <1>4, <1>5, <1>6, <1>7, <1>8 DEF WatcherInv

LEMMA WatcherKeeps == WatcherInv /\ [WatcherNext]_watcherVars => WatcherInv'
<1> SUFFICES ASSUME WatcherInv, [WatcherNext]_watcherVars PROVE WatcherInv'
  OBVIOUS
<1>0. walked \in Nat /\ 0 \in Nat
  BY DEF WatcherInv, Registered
<1>1. ASSUME NEW p \in Paths, PassOver(p) PROVE WatcherInv'
  BY <1>0, <1>1, OnlyThese DEF PassOver, invVars, Handling
<1>2. CASE start
  BY <1>0, <1>2, OnlyThese DEF start, invVars, Handling
<1>3. CASE stop
  BY <1>0, <1>3, OnlyThese DEF stop, invVars, Handling
<1>4. CASE Round
  BY <1>0, <1>4, OnlyThese DEF Round, invVars, Handling
<1>5. CASE RoundFails
  BY <1>0, <1>5, OnlyThese DEF RoundFails, invVars, Handling
<1>6. CASE EndRound
  BY <1>0, <1>6, OnlyThese DEF EndRound, invVars, Handling
<1>7. CASE WatcherTick
  BY <1>0, <1>7, OnlyThese DEF WatcherTick, invVars, Handling
<1>8. CASE UNCHANGED watcherVars
  BY <1>0, <1>8, OnlyThese DEF watcherVars, invVars, Handling
<1>9. QED
  BY <1>1, <1>2, <1>3, <1>4, <1>5, <1>6, <1>7, <1>8, WatchKept, UnwatchKept, AnyChangeKept,
     UnregisterKept, ForceKept, NoticeKept, CallNextKept, ToGlobalsKept, HandledKept,
     EditKept DEF WatcherNext

\* Whatever counts as seen has been told to every callback registered, but for
\* those that a removal in the walk passed by and those a forced reload leaves
\* out, for any files, lists of callbacks, edits and callers.
THEOREM NothingIsMissed == WatcherSpec => []NothingMissed
<1>1. WatcherInv => NothingMissed
  BY DEF WatcherInv
<1>2. QED
  BY <1>1, WatcherStarts, WatcherKeeps, PTL DEF WatcherSpec

-----------------------------------------------------------------------------
(* The configuration in force.  The property looks at the file, which may    *)
(* change and change back; what keeps itself is the same of the content      *)
(* that the watcher adopted last.                                            *)

InForce(c) ==
    unread = "no" /\ Reloadable(c) =>
        /\ settings = Startup(c)
        /\ loggers = NotSet /\ c.level \in Levels => root = AtStart(c.level)

ReloadInv == /\ file \in Contents \cup {Missing}
             /\ adopted \in Contents \cup {Missing}
             /\ read \in Contents \cup {Missing, NoRead}
             /\ InForce(Loaded(adopted))

LEMMA LoadedIsConfiguration ==
    ASSUME NEW f \in Contents \cup {Missing}
    PROVE  Loaded(f) \in Configurations
BY ReloadConstants DEF Loaded

\* Of a level that has a name, the start and a reload make the same.
LEMMA KnownLevels ==
    ASSUME NEW l \in Levels
    PROVE  AtStart(l) = l
BY ReloadConstants DEF AtStart

\* A reload with a file that leaves the enabled services as they are gives what
\* the start would.
LEMMA ReloadAgrees ==
    ASSUME NEW c \in Configurations, NEW s, Starts(c), c.rules # NoRules,
           c.limiting = (Reload(s, c).limits # Off), c.alerting = (Reload(s, c).alerts # Off)
    PROVE  Reload(s, c) = Startup(c)
<1>1. c.valid /\ (c.alerting => c.severities)
  BY DEF Starts
<1>2. /\ Reload(s, c).limits = IF s.limits # Off /\ c.limiting THEN c.limits ELSE s.limits
      /\ Reload(s, c).alerts = IF s.alerts # Off /\ c.alerting /\ c.severities
                               THEN c.alerts ELSE s.alerts
      /\ Reload(s, c).rules = c.rules
      /\ Reload(s, c) = [rules |-> Reload(s, c).rules, limits |-> Reload(s, c).limits,
                         alerts |-> Reload(s, c).alerts]
  BY <1>1 DEF Reload
<1>3. Reload(s, c).limits = IF c.limiting THEN c.limits ELSE Off
  BY <1>2
<1>4. Reload(s, c).alerts = IF c.alerting THEN c.alerts ELSE Off
  BY <1>1, <1>2
<1>5. QED
  BY <1>2, <1>3, <1>4 DEF Startup

LEMMA ReloadStarts == ReloadInit => ReloadInv
<1> SUFFICES ASSUME ReloadInit PROVE ReloadInv
  OBVIOUS
<1>1. /\ file \in Contents \cup {Missing} /\ adopted = file /\ read = NoRead
      /\ unread = "no" => settings = Startup(Loaded(file)) /\ root = AtStart(Loaded(file).level)
  BY DEF ReloadInit
<1>2. QED
  BY <1>1 DEF ReloadInv, InForce

\* The callback applies what it reads, and what it does not read is "edited".
LEMMA ApplyKept ==
    ASSUME ReloadInv, PollApply
    PROVE  ReloadInv'
<1>1. PICK c \in Configurations : c = Loaded(file)
  BY LoadedIsConfiguration DEF ReloadInv
<1>2. /\ file' = file /\ adopted' = read /\ read' = NoRead /\ loggers' = loggers
      /\ unread' = "no" => read = file
      /\ settings' = Reload(settings, c)
      /\ c.valid /\ c.level \in Levels => root' = c.level
  BY <1>1 DEF PollApply
<1>3. /\ file' \in Contents \cup {Missing} /\ adopted' \in Contents \cup {Missing}
      /\ read' \in Contents \cup {Missing, NoRead}
  BY <1>2 DEF ReloadInv, PollApply
<1>4. ASSUME unread' = "no", Reloadable(c)'
      PROVE  /\ settings' = Startup(c)
             /\ c.level \in Levels => root' = AtStart(c.level)
  <2>1. /\ Starts(c) /\ c.rules # NoRules
        /\ c.limiting = (Reload(settings, c).limits # Off)
        /\ c.alerting = (Reload(settings, c).alerts # Off)
    BY <1>2, <1>4 DEF Reloadable
  <2>2. settings' = Startup(c)
    BY <1>2, <2>1, ReloadAgrees
  <2>3. QED
    BY <1>2, <2>1, <2>2, KnownLevels DEF Starts
<1>5. unread' = "no" => Loaded(adopted)' = c
  BY <1>1, <1>2 DEF Loaded
<1>6. InForce(Loaded(adopted))'
  BY <1>4, <1>5 DEF InForce
<1>7. QED
  BY <1>3, <1>6 DEF ReloadInv

LEMMA ReloadKeeps == ReloadInv /\ [ReloadNext]_reloadVars => ReloadInv'
<1> SUFFICES ASSUME ReloadInv, [ReloadNext]_reloadVars PROVE ReloadInv'
  OBVIOUS
<1> USE DEF ReloadInv, InForce, Reloadable, Loaded
<1>1. CASE EditFile
  BY <1>1 DEF EditFile
<1>2. CASE PollNotice
  BY <1>2 DEF PollNotice
<1>3. CASE PutConfig
  BY <1>3 DEF PutConfig
<1>4. CASE PutLevel
  BY <1>4, ReloadConstants DEF PutLevel
<1>5. CASE UNCHANGED reloadVars
  BY <1>5 DEF reloadVars
<1>6. CASE PollRead
  BY <1>6 DEF PollRead
<1>7. QED
  BY <1>1, <1>2, <1>3, <1>4, <1>5, <1>6, ApplyKept DEF ReloadNext

\* Once the watcher has nothing left to notice, and if the server has read the
\* content adopted, its settings are those of a restart, and so is a level that
\* the file names, for any configurations.
THEOREM ReloadActsAsRestart == ReloadSpec => []ReloadIsRestart
<1>1. ReloadInv => ReloadIsRestart
  BY DEF ReloadInv, InForce, ReloadIsRestart
<1>2. QED
  BY <1>1, ReloadStarts, ReloadKeeps, PTL DEF ReloadSpec

-----------------------------------------------------------------------------
(* Start and shutdown.  What a request needs is built step by step and taken *)
(* down step by step, so the invariant says what there is at each step.      *)

Serving == {"serving", "tasks", "running", "stopping", "stop server"}

Provided ==
    /\ phase \in {"start", "assembled", "loaded", "initialized", "stop worker", "unload",
                  "exited"} \cup Serving
    /\ phase \in {"assembled", "loaded", "initialized"} \cup Serving => dbOpen
    /\ phase \in {"loaded", "initialized"} \cup Serving => loaded
    /\ phase \in {"initialized"} \cup Serving => worker
    /\ phase \in Serving => grpc # "none" /\ Building["grpc_server"] \subseteq DOMAIN services
    /\ grpc = "serving" /\ phase # "exited" => phase \in Serving

Requests == served \in Nat /\ (served > 0 => phase \in Serving)

LifeInv == Provided /\ Requests

LEMMA LifeStarts == LifeInit => LifeInv
BY DEF LifeInit, LifeInv, Provided, Requests, Serving

\* What is built stays.
LEMMA GetAdds ==
    ASSUME NEW n
    PROVE  /\ DOMAIN services \subseteq DOMAIN get({n})
           /\ Building[n] \subseteq DOMAIN get({n})
BY DEF get

LEMMA ProvidedKept == Provided /\ [LifeNext]_lifeVars => Provided'
<1> SUFFICES ASSUME Provided, [LifeNext]_lifeVars PROVE Provided'
  OBVIOUS
<1> USE DEF Provided, Serving
<1>1. CASE Assemble
  BY <1>1 DEF Assemble
<1>2. CASE LoadModel
  BY <1>2 DEF LoadModel
<1>3. CASE StartWorker
  BY <1>3 DEF StartWorker
<1>4. CASE StartServer
  BY <1>4, GetAdds DEF StartServer
<1>5. CASE StartTasks
  BY <1>5, GetAdds DEF StartTasks
<1>6. CASE Embed
  BY <1>6 DEF Embed, get
<1>7. CASE Die
  BY <1>7 DEF Die, Starting
<1>8. CASE signal_handler
  BY <1>8 DEF signal_handler
<1>9. CASE BeginShutdown
  BY <1>9 DEF BeginShutdown
<1>10. CASE StopTasks
  BY <1>10 DEF StopTasks
<1>11. CASE StopAccepting
  BY <1>11 DEF StopAccepting
<1>12. CASE Stopped
  BY <1>12 DEF Stopped
<1>13. CASE StopWorker
  BY <1>13 DEF StopWorker
<1>14. CASE UnloadAndClose
  BY <1>14 DEF UnloadAndClose
<1>15. CASE GlobalTimeout
  BY <1>15 DEF GlobalTimeout
<1>16. CASE BeginRequest
  BY <1>16 DEF BeginRequest
<1>17. CASE EndRequest
  BY <1>17 DEF EndRequest
<1>18. CASE UNCHANGED lifeVars
  BY <1>18 DEF lifeVars
<1>19. QED
  BY <1>1, <1>2, <1>3, <1>4, <1>5, <1>6, <1>7, <1>8, <1>9, <1>10, <1>11, <1>12, <1>13,
     <1>14, <1>15, <1>16, <1>17, <1>18
     DEF LifeNext

LEMMA NoneServed == served' = 0 => Requests'
BY DEF Requests

LEMMA OneMoreServed ==
    Requests /\ served' = served + 1 /\ phase' = phase /\ phase \in Serving => Requests'
BY DEF Requests

LEMMA OneLessServed ==
    Requests /\ served > 0 /\ served' = served - 1 /\ phase' = phase => Requests'
BY DEF Requests

LEMMA RequestsKept == Provided /\ Requests /\ [LifeNext]_lifeVars => Requests'
<1> SUFFICES ASSUME Provided, Requests, [LifeNext]_lifeVars PROVE Requests'
  OBVIOUS
<1> USE DEF Requests, Serving
<1>1. CASE Assemble
  BY <1>1 DEF Assemble
<1>2. CASE LoadModel
  BY <1>2 DEF LoadModel
<1>3. CASE StartWorker
  BY <1>3 DEF StartWorker
<1>4. CASE StartServer
  BY <1>4 DEF StartServer
<1>5. CASE StartTasks
  BY <1>5 DEF StartTasks
<1>6. CASE Embed
  BY <1>6 DEF Embed
<1>7. CASE Die
  <2>1. served' = 0
    BY <1>7 DEF Die
  <2>2. QED
    BY <2>1, NoneServed
<1>8. CASE signal_handler
  BY <1>8 DEF signal_handler
<1>9. CASE BeginShutdown
  BY <1>9 DEF BeginShutdown
<1>10. CASE StopTasks
  BY <1>10 DEF StopTasks
<1>11. CASE StopAccepting
  BY <1>11 DEF StopAccepting
<1>12. CASE Stopped
  <2>1. served' = 0
    BY <1>12 DEF Stopped
  <2>2. QED
    BY <2>1, NoneServed
<1>13. CASE StopWorker
  BY <1>13 DEF StopWorker
<1>14. CASE UnloadAndClose
  BY <1>14 DEF UnloadAndClose
<1>15. CASE GlobalTimeout
  <2>1. served' = 0
    BY <1>15 DEF GlobalTimeout
  <2>2. QED
    BY <2>1, NoneServed
<1>16. CASE BeginRequest
  <2>1. served' = served + 1 /\ phase' = phase /\ phase # "exited" /\ grpc = "serving"
    BY <1>16 DEF BeginRequest
  <2>2. phase \in Serving
    BY <2>1 DEF Provided
  <2>3. QED
    BY <2>1, <2>2, OneMoreServed
<1>17. CASE EndRequest
  <2>1. served > 0 /\ served' = served - 1 /\ phase' = phase
    BY <1>17 DEF EndRequest
  <2>2. QED
    BY <2>1, OneLessServed
<1>18. CASE UNCHANGED lifeVars
  BY <1>18 DEF lifeVars
<1>19. QED
  BY <1>1, <1>2, <1>3, <1>4, <1>5, <1>6, <1>7, <1>8, <1>9, <1>10, <1>11, <1>12, <1>13,
     <1>14, <1>15, <1>16, <1>17, <1>18
     DEF LifeNext

\* While a request is served the store is open, the model loaded, the worker
\* running and every service built, for any services turned off and any load.
THEOREM ServingHasAll == LifeSpec => []ServingNeedsAll
<1>1. LifeInv => ServingNeedsAll
  BY DEF LifeInv, Provided, Requests, Serving, ServingNeedsAll, readiness
<1>2. LifeInv /\ [LifeNext]_lifeVars => LifeInv'
  BY ProvidedKept, RequestsKept DEF LifeInv
<1>3. QED
  BY <1>1, <1>2, LifeStarts, PTL DEF LifeSpec

-----------------------------------------------------------------------------
(* The plugins.  While they are initialised, each is ready, failed without   *)
(* being critical, late, or still to come.                                   *)

InOrder(q, s) == /\ q \in [1..Cardinality(s) -> s]
                 /\ ToSet(q) = s
                 /\ \A i, j \in DOMAIN q : i < j => Priority[q[i]] <= Priority[q[j]]

\* Any plugins can be put in order: the first one, then the others in order.
LEMMA OneMoreInOrder ==
    ASSUME NEW s, s \subseteq Plugins, IsFiniteSet(s), s # {},
           \A m \in s : \E q : InOrder(q, s \ {m})
    PROVE  \E q : InOrder(q, s)
<1> DEFINE P == {Priority[m] : m \in s}
<1>1. PICK m \in s : \A n \in s : Priority[m] <= Priority[n]
  <2>1. P \subseteq Nat /\ P # {}
    BY PluginConstants
  <2>2. PICK p \in P : \A r \in P : p <= r
    <3> HIDE DEF P
    <3>1. QED
      BY <2>1, LeastNumber
  <2>3. QED
    BY <2>2
<1> HIDE DEF P
<1>2. PICK q : InOrder(q, s \ {m})
  <2>1. \E q : InOrder(q, s \ {m})
    <3> HIDE DEF InOrder
    <3>1. QED
      BY Zenon
  <2>2. QED
    BY <2>1
<1> DEFINE n == Cardinality(s \ {m})
           r == [i \in 1..(n + 1) |-> IF i = 1 THEN m ELSE q[i - 1]]
<1>3. n \in Nat /\ Cardinality(s) = n + 1
  <2>1. IsFiniteSet(s \ {m}) /\ n = Cardinality(s) - 1
    BY FS_RemoveElement
  <2>2. n \in Nat /\ Cardinality(s) \in Nat
    BY <2>1, FS_CardinalityType
  <2>3. QED
    BY <2>1, <2>2
<1> HIDE DEF n
<1>4. /\ q \in [1..n -> s \ {m}] /\ {q[i] : i \in 1..n} = s \ {m}
      /\ \A i, j \in 1..n : i < j => Priority[q[i]] <= Priority[q[j]]
  BY <1>2 DEF InOrder, ToSet, n
<1>5. \A i \in 1..(n + 1) : /\ i = 1 => r[i] = m
                            /\ i # 1 => i - 1 \in 1..n /\ r[i] = q[i - 1]
  BY <1>3
<1>6. DOMAIN r = 1..(n + 1) /\ r \in [1..(n + 1) -> s]
  BY <1>3, <1>4, <1>5
<1> HIDE DEF r
<1>7. ToSet(r) = s
  <2>1. ASSUME NEW x \in s PROVE \E i \in 1..(n + 1) : r[i] = x
    <3>1. CASE x = m
      <4>1. 1 \in 1..(n + 1)
        BY <1>3
      <4>2. QED
        BY <1>5, <3>1, <4>1
    <3>2. CASE x # m
      <4>1. PICK i \in 1..n : q[i] = x
        BY <1>4, <3>2
      <4>2. i + 1 \in 1..(n + 1) /\ i + 1 # 1 /\ (i + 1) - 1 = i
        BY <1>3
      <4>3. r[i + 1] = x
        BY <1>5, <4>1, <4>2
      <4>4. QED
        BY <4>2, <4>3
    <3>3. QED
      BY <3>1, <3>2
  <2>2. QED
    BY <1>6, <2>1 DEF ToSet
<1>8. ASSUME NEW i \in 1..(n + 1), NEW j \in 1..(n + 1), i < j
      PROVE  Priority[r[i]] <= Priority[r[j]]
  <2>1. j # 1 /\ r[j] \in s /\ j - 1 \in 1..n /\ r[j] = q[j - 1]
    BY <1>3, <1>5, <1>6, <1>8
  <2>2. CASE i = 1
    BY <1>1, <1>5, <2>1, <2>2
  <2>3. CASE i # 1
    <3>1. i - 1 \in 1..n /\ r[i] = q[i - 1] /\ i - 1 < j - 1
      BY <1>3, <1>5, <1>8, <2>3
    <3>2. QED
      BY <1>4, <2>1, <3>1
  <2>4. QED
    BY <2>2, <2>3
<1>9. InOrder(r, s)
  BY <1>3, <1>6, <1>7, <1>8 DEF InOrder
<1>10. QED
  BY <1>9

LEMMA OrderExists ==
    ASSUME NEW s, s \subseteq Plugins, IsFiniteSet(s)
    PROVE  \E q : InOrder(q, s)
<1> DEFINE T == {n \in Nat : \A S \in SUBSET Plugins :
                    IsFiniteSet(S) /\ Cardinality(S) = n => \E q : InOrder(q, S)}
<1>1. 0 \in T
  <2>1. SUFFICES ASSUME NEW S \in SUBSET Plugins, IsFiniteSet(S), Cardinality(S) = 0
                 PROVE  \E q : InOrder(q, S)
    OBVIOUS
  <2>2. S = {}
    BY <2>1, FS_EmptySet
  <2>3. InOrder([i \in 1..0 |-> 0], S)
    BY <2>1, <2>2 DEF InOrder, ToSet
  <2>4. QED
    BY <2>3
<1>2. ASSUME NEW n \in Nat, n \in T PROVE n + 1 \in T
  <2>1. SUFFICES ASSUME NEW S \in SUBSET Plugins, IsFiniteSet(S), Cardinality(S) = n + 1
                 PROVE  \E q : InOrder(q, S)
    OBVIOUS
  <2>2. S # {}
    BY <2>1, FS_EmptySet
  <2>3. ASSUME NEW m \in S PROVE \E q : InOrder(q, S \ {m})
    <3>1. IsFiniteSet(S \ {m}) /\ Cardinality(S \ {m}) = n
      <4>1. IsFiniteSet(S \ {m}) /\ Cardinality(S \ {m}) = Cardinality(S) - 1
        BY <2>1, FS_RemoveElement
      <4>2. QED
        BY <2>1, <4>1
    <3>2. \A R \in SUBSET Plugins :
              IsFiniteSet(R) /\ Cardinality(R) = n => \E q : InOrder(q, R)
      BY <1>2
    <3>3. S \ {m} \in SUBSET Plugins
      OBVIOUS
    <3>4. QED
      BY <3>1, <3>2, <3>3, Zenon
  <2> HIDE DEF T
  <2>4. QED
    BY <2>1, <2>2, <2>3, OneMoreInOrder
<1>3. Nat \subseteq T
  <2> HIDE DEF T
  <2>1. QED
    BY <1>1, <1>2, NatSetInduction
<1>4. Cardinality(s) \in T
  BY <1>3, FS_CardinalityType
<1>5. QED
  BY <1>4

LEMMA ByPriorityIs ==
    ASSUME NEW s, s \subseteq Plugins, IsFiniteSet(s)
    PROVE  ByPriority(s) \in Seq(Plugins) /\ ToSet(ByPriority(s)) = s
<1>1. \E q : InOrder(q, s)
  BY OrderExists
<1>2. InOrder(ByPriority(s), s)
  BY <1>1 DEF ByPriority, InOrder
<1>3. Cardinality(s) \in Nat
  BY FS_CardinalityType
<1>4. ByPriority(s) \in Seq(s)
  BY <1>2, <1>3, SeqDef DEF InOrder
<1>5. QED
  BY <1>2, <1>4, SeqMonotonic DEF InOrder

Settled(n) == state[n] = "ready" \/ (state[n] = "failed" /\ Priority[n] >= Critical)

PluginInv ==
    /\ present \subseteq Plugins /\ IsFiniteSet(present) /\ DOMAIN state = Plugins
    /\ work = "initializing" => /\ ~initialized /\ left \in Seq(Plugins)
                                /\ \A n \in (present \cap Enabled) \ late :
                                      Settled(n) \/ n \in ToSet(left)
    /\ initialized /\ work = "idle" => \A n \in (present \cap Enabled) \ late : Settled(n)

LEMMA PluginStarts == PluginInit => PluginInv
BY FS_EmptySet DEF PluginInit, PluginInv

LEMMA NextInitialized ==
    ASSUME PluginInv, InitializeNext
    PROVE  PluginInv'
<1> DEFINE h == Head(left)
<1>1. /\ work = "initializing" /\ ~initialized /\ left \in Seq(Plugins) /\ left # <<>>
      /\ UNCHANGED <<present, initialized, late>>
  BY DEF InitializeNext, PluginInv
<1>2. /\ h \in Plugins /\ Tail(left) \in Seq(Plugins)
      /\ \A n \in ToSet(left) : n = h \/ n \in ToSet(Tail(left))
  <2>1. /\ h \in Plugins /\ Tail(left) \in Seq(Plugins) /\ Len(Tail(left)) = Len(left) - 1
        /\ \A i \in 1..Len(Tail(left)) : Tail(left)[i] = left[i + 1]
        /\ h = left[1]
    BY <1>1, HeadTailProperties
  <2>2. DOMAIN left = 1..Len(left) /\ DOMAIN Tail(left) = 1..Len(Tail(left)) /\ Len(left) \in Nat
    BY <1>1, <2>1, LenProperties
  <2>3. ASSUME NEW i \in 1..Len(left), i # 1 PROVE left[i] \in ToSet(Tail(left))
    <3>1. i - 1 \in 1..Len(Tail(left)) /\ (i - 1) + 1 = i
      BY <2>1, <2>2, <2>3
    <3>2. Tail(left)[i - 1] = left[i]
      BY <2>1, <3>1
    <3>3. QED
      BY <2>2, <3>1, <3>2 DEF ToSet
  <2>4. QED
    BY <2>1, <2>2, <2>3 DEF ToSet
<1>3. \/ h \notin Enabled /\ left' = Tail(left) /\ state' = state /\ work' = work
      \/ state' = [state EXCEPT ![h] = "ready"] /\ left' = Tail(left) /\ work' = work
      \/ /\ state' = [state EXCEPT ![h] = "failed"] /\ Priority[h] >= Critical
         /\ left' = Tail(left) /\ work' = work
      \/ state' = [state EXCEPT ![h] = "failed"] /\ work' = "idle"
  <2>1. Priority[h] \in Nat /\ Critical \in Nat
    BY <1>2, PluginConstants
  <2>2. CASE h \notin Enabled /\ left' = Tail(left) /\ UNCHANGED <<state, work>>
    BY <2>2
  <2>3. CASE state' = [state EXCEPT ![h] = "ready"] /\ left' = Tail(left) /\ UNCHANGED work
    BY <2>3
  <2>4. CASE /\ state' = [state EXCEPT ![h] = "failed"]
             /\ left' = IF Priority[h] < Critical THEN <<>> ELSE Tail(left)
             /\ work' = IF Priority[h] < Critical THEN "idle" ELSE work
    BY <2>1, <2>4
  <2>5. QED
    BY <2>2, <2>3, <2>4 DEF InitializeNext
<1> HIDE DEF h
<1>4. CASE h \notin Enabled /\ left' = Tail(left) /\ state' = state /\ work' = work
  BY <1>1, <1>2, <1>4 DEF PluginInv, Settled
<1>5. CASE state' = [state EXCEPT ![h] = "ready"] /\ left' = Tail(left) /\ work' = work
  BY <1>1, <1>2, <1>5 DEF PluginInv, Settled
<1>6. CASE /\ state' = [state EXCEPT ![h] = "failed"] /\ Priority[h] >= Critical
           /\ left' = Tail(left) /\ work' = work
  BY <1>1, <1>2, <1>6 DEF PluginInv, Settled
<1>7. CASE state' = [state EXCEPT ![h] = "failed"] /\ work' = "idle"
  BY <1>1, <1>2, <1>7 DEF PluginInv, Settled
<1>8. QED
  BY <1>3, <1>4, <1>5, <1>6, <1>7

LEMMA PluginKeeps == PluginInv /\ [PluginNext]_pluginVars => PluginInv'
<1> SUFFICES ASSUME PluginInv, [PluginNext]_pluginVars PROVE PluginInv'
  OBVIOUS
<1>1. ASSUME NEW n \in Plugins, RegisterPlugin(n) PROVE PluginInv'
  BY <1>1, FS_AddElement DEF RegisterPlugin, PluginInv, Settled
<1>2. ASSUME NEW n \in Plugins, UnregisterPlugin(n) PROVE PluginInv'
  BY <1>2, FS_RemoveElement DEF UnregisterPlugin, PluginInv, Settled
<1>3. CASE initialize_all
  <2>1. left' \in Seq(Plugins) /\ ToSet(left') = present
    BY <1>3, ByPriorityIs DEF initialize_all, PluginInv
  <2>2. /\ work' = "initializing" /\ late' = {}
        /\ UNCHANGED <<present, initialized, state>> /\ ~initialized
    BY <1>3 DEF initialize_all
  <2>3. QED
    BY <2>1, <2>2 DEF PluginInv
<1>4. CASE shutdown_all \/ ShutdownNext
  BY <1>4 DEF shutdown_all, ShutdownNext, PluginInv
<1>5. CASE ManagerDone
  <2>1. CASE work = "initializing"
    <3>1. /\ work' = "idle" /\ left' = left /\ UNCHANGED <<present, state, late>>
          /\ ToSet(left) = {}
      BY <1>5, <2>1 DEF ManagerDone, ToSet
    <3>2. \A n \in (present \cap Enabled) \ late : Settled(n)
      BY <2>1, <3>1 DEF PluginInv
    <3>3. QED
      BY <3>1, <3>2 DEF PluginInv, Settled
  <2>2. CASE work # "initializing"
    <3>1. /\ work' = "idle" /\ UNCHANGED <<present, state, late>>
          /\ initialized' = (work = "initializing")
      BY <1>5 DEF ManagerDone
    <3>2. ~initialized'
      BY <2>2, <3>1
    <3>3. QED
      BY <3>1, <3>2 DEF PluginInv
  <2>3. QED
    BY <2>1, <2>2
<1>6. CASE ProcessBegin \/ ProcessNext \/ UNCHANGED pluginVars
  BY <1>6 DEF ProcessBegin, ProcessNext, pluginVars, PluginInv, Settled
<1>7. QED
  BY <1>1, <1>2, <1>3, <1>4, <1>5, <1>6, NextInitialized DEF PluginNext

\* Once plugins count as initialised, every enabled one from before is ready, or
\* failed and not critical, for any plugins and priorities.
THEOREM InitializedReady == PluginSpec => []InitializedAreReady
<1>1. PluginInv => InitializedAreReady
  BY DEF PluginInv, Settled, InitializedAreReady
<1>2. QED
  BY <1>1, PluginStarts, PluginKeeps, PTL DEF PluginSpec

-----------------------------------------------------------------------------
(* The typed events.  While nobody leaves, nor joins the wildcard, the list  *)
(* only grows at its end, so a publication has called the first handlers of  *)
(* it, and those of the set whose size it took.                              *)

LEMMA AppendAdds ==
    ASSUME NEW S, NEW s \in Seq(S), NEW e \in S
    PROVE  /\ Append(s, e) \in Seq(S) /\ Len(Append(s, e)) = Len(s) + 1
           /\ \A i \in 1..Len(s) : Append(s, e)[i] = s[i]
           /\ Append(s, e)[Len(s) + 1] = e
           /\ ToSet(Append(s, e)) = ToSet(s) \cup {e}
           /\ IsInjective(s) /\ e \notin ToSet(s) => IsInjective(Append(s, e))
<1>1. /\ Append(s, e) \in Seq(S) /\ Len(Append(s, e)) = Len(s) + 1 /\ Len(s) \in Nat
      /\ \A i \in 1..Len(s) : Append(s, e)[i] = s[i]
      /\ Append(s, e)[Len(s) + 1] = e
  BY AppendProperties, LenProperties
<1>2. DOMAIN s = 1..Len(s) /\ DOMAIN Append(s, e) = 1..(Len(s) + 1)
  BY <1>1, LenProperties
<1> DEFINE a == Append(s, e)
           n == Len(s)
<1> HIDE DEF a, n
<1>3. /\ n \in Nat /\ DOMAIN s = 1..n /\ DOMAIN a = 1..(n + 1) /\ a[n + 1] = e
      /\ \A i \in 1..n : a[i] = s[i]
  BY <1>1, <1>2 DEF a, n
<1>4. ToSet(a) = ToSet(s) \cup {e}
  <2>1. ASSUME NEW x \in ToSet(s) \cup {e} PROVE x \in ToSet(a)
    <3>1. CASE x = e
      <4>1. n + 1 \in 1..(n + 1)
        BY <1>3
      <4>2. QED
        BY <1>3, <3>1, <4>1 DEF ToSet
    <3>2. CASE x # e
      <4>1. PICK i \in 1..n : s[i] = x
        BY <1>3, <2>1, <3>2 DEF ToSet
      <4>2. i \in 1..(n + 1) /\ a[i] = x
        BY <1>3, <4>1
      <4>3. QED
        BY <1>3, <4>2 DEF ToSet
    <3>3. QED
      BY <3>1, <3>2
  <2>2. ASSUME NEW i \in 1..(n + 1) PROVE a[i] \in ToSet(s) \cup {e}
    <3>1. CASE i = n + 1
      BY <1>3, <3>1
    <3>2. CASE i \in 1..n
      BY <1>3, <3>2 DEF ToSet
    <3>3. QED
      BY <1>3, <3>1, <3>2
  <2>3. QED
    BY <1>3, <2>1, <2>2 DEF ToSet
<1>5. ASSUME IsInjective(s), e \notin ToSet(s) PROVE IsInjective(a)
  <2>1. ASSUME NEW i \in 1..(n + 1), NEW j \in 1..(n + 1), a[i] = a[j] PROVE i = j
    <3>1. CASE i \in 1..n /\ j \in 1..n
      BY <1>3, <1>5, <2>1, <3>1 DEF IsInjective
    <3>2. CASE i = n + 1 /\ j \in 1..n
      BY <1>3, <1>5, <2>1, <3>2 DEF ToSet
    <3>3. CASE i \in 1..n /\ j = n + 1
      BY <1>3, <1>5, <2>1, <3>3 DEF ToSet
    <3>4. QED
      BY <1>3, <3>1, <3>2, <3>3
  <2>2. QED
    BY <1>3, <2>1 DEF IsInjective
<1>6. QED
  BY <1>1, <1>4, <1>5 DEF a, n

\* Leaving the list leaves the others, each still once.
LEMMA RemoveLeaves ==
    ASSUME NEW S, NEW s \in Seq(S), IsInjective(s), NEW k \in DOMAIN s
    PROVE  /\ RemoveAt(s, k) \in Seq(S) /\ IsInjective(RemoveAt(s, k))
           /\ ToSet(RemoveAt(s, k)) \subseteq ToSet(s)
<1> DEFINE r == RemoveAt(s, k)
           n == Len(s)
<1>1. n \in Nat /\ DOMAIN s = 1..n /\ k \in 1..n
  BY LenProperties
<1>2. /\ r \in Seq(S) /\ Len(r) = n - 1
      /\ \A i \in 1..(n - 1) : r[i] = IF i < k THEN s[i] ELSE s[i + 1]
  BY RemoveAtIs
<1>3. DOMAIN r = 1..(n - 1)
  BY <1>2, LenProperties
<1> HIDE DEF r, n
<1> DEFINE at(i) == IF i < k THEN i ELSE i + 1
<1>4. \A i \in 1..(n - 1) : at(i) \in 1..n /\ r[i] = s[at(i)]
  BY <1>1, <1>2
<1>5. ASSUME NEW i \in 1..(n - 1), NEW j \in 1..(n - 1), r[i] = r[j] PROVE i = j
  <2>1. at(i) = at(j)
    BY <1>1, <1>4, <1>5 DEF IsInjective
  <2>2. QED
    BY <1>1, <2>1
<1> HIDE DEF at
<1>6. ToSet(r) \subseteq ToSet(s)
  BY <1>1, <1>3, <1>4 DEF ToSet
<1>7. IsInjective(r)
  BY <1>3, <1>5 DEF IsInjective
<1>8. QED
  BY <1>2, <1>6, <1>7 DEF r

Calls == [state : {"running", "done"}, at : Nat \ {0}, size : Int, called : Seq(Handlers),
          present : SUBSET Handlers, disturbed : BOOLEAN]

\* How far an undisturbed publication c is through the list hs and the set w.
Through(c, hs, w) ==
    /\ c.state = "running" =>
          /\ c.present \subseteq ToSet(hs) \cup w
          /\ c.size = -1 => /\ c.at \in 1..(Len(hs) + 1)
                            /\ ToSet(c.called) = {hs[i] : i \in 1..(c.at - 1)}
          /\ c.size # -1 => c.size = Cardinality(w) /\ c.present \ w \subseteq ToSet(c.called)
    /\ c.state = "done" => c.present \subseteq ToSet(c.called)

Follows(c, hs, w) ==
    c \in Calls /\ c.disturbed = FALSE => IsInjective(c.called) /\ Through(c, hs, w)

Subscribed(hs, w) == /\ hs \in Seq(Handlers) /\ IsInjective(hs)
                     /\ w \subseteq Handlers /\ IsFiniteSet(w) /\ ToSet(hs) \cap w = {}

LEMMA ListGrows ==
    ASSUME NEW c, NEW hs \in Seq(Handlers), NEW w, NEW h \in Handlers, Follows(c, hs, w)
    PROVE  Follows(c, Append(hs, h), w)
<1> SUFFICES ASSUME c \in Calls, c.disturbed = FALSE, IsInjective(c.called), Through(c, hs, w)
             PROVE  Through(c, Append(hs, h), w)
  BY DEF Follows
<1>1. /\ Len(hs) \in Nat /\ Len(Append(hs, h)) = Len(hs) + 1 /\ c.at \in Nat
      /\ \A i \in 1..Len(hs) : Append(hs, h)[i] = hs[i]
      /\ ToSet(Append(hs, h)) = ToSet(hs) \cup {h}
  BY AppendAdds, LenProperties DEF Calls
<1> DEFINE g == Append(hs, h)
           n == Len(hs)
<1> HIDE DEF g, n
<1>2. CASE c.state = "running" /\ c.size = -1
  <2>1. c.at \in 1..(n + 1) /\ ToSet(c.called) = {hs[i] : i \in 1..(c.at - 1)}
    BY <1>2 DEF Through, n
  <2>2. c.at \in 1..(Len(g) + 1) /\ \A i \in 1..(c.at - 1) : g[i] = hs[i]
    BY <1>1, <2>1 DEF g, n
  <2>3. {hs[i] : i \in 1..(c.at - 1)} = {g[i] : i \in 1..(c.at - 1)}
    BY <2>2
  <2>4. QED
    BY <1>1, <1>2, <2>1, <2>2, <2>3 DEF Through, g
<1>3. CASE c.state = "running" /\ c.size # -1
  BY <1>1, <1>3 DEF Through, g
<1>4. CASE c.state = "done"
  BY <1>4 DEF Through
<1>5. QED
  BY <1>2, <1>3, <1>4 DEF Calls, g

LEMMA ListedCalled ==
    ASSUME NEW c \in Calls, NEW hs, NEW w, Subscribed(hs, w), Follows(c, hs, w),
           c.state = "running", c.size = -1, c.at <= Len(hs), NEW d,
           d = [c EXCEPT !.called = Append(c.called, hs[c.at]), !.at = c.at + 1]
    PROVE  d \in Calls /\ Follows(d, hs, w)
<1>1. /\ c.called \in Seq(Handlers) /\ c.at \in Nat /\ Len(hs) \in Nat /\ DOMAIN hs = 1..Len(hs)
      /\ c.state \in {"running", "done"} /\ c.present \subseteq Handlers
      /\ c.disturbed \in BOOLEAN
  BY LenProperties DEF Calls, Subscribed
<1>2. /\ d.called = Append(c.called, hs[c.at]) /\ d.at = c.at + 1 /\ d.state = c.state
      /\ d.size = -1 /\ d.present = c.present /\ d.disturbed = c.disturbed
  BY DEF Calls
<1>3. /\ hs[c.at] \in Handlers /\ c.at \in 1..Len(hs)
      /\ d.called \in Seq(Handlers) /\ ToSet(d.called) = ToSet(c.called) \cup {hs[c.at]}
      /\ IsInjective(c.called) /\ hs[c.at] \notin ToSet(c.called) => IsInjective(d.called)
  <2>1. c.at \in 1..Len(hs)
    BY <1>1 DEF Calls
  <2>2. hs[c.at] \in Handlers
    BY <1>1, <2>1, ElementOfSeq DEF Subscribed
  <2>3. QED
    BY <1>1, <1>2, <2>1, <2>2, AppendAdds
<1>4. d \in Calls
  <2>1. d = [state |-> "running", at |-> c.at + 1, size |-> -1,
             called |-> Append(c.called, hs[c.at]), present |-> c.present,
             disturbed |-> c.disturbed]
    BY DEF Calls
  <2>2. c.at + 1 \in Nat \ {0} /\ Append(c.called, hs[c.at]) \in Seq(Handlers)
    BY <1>1, <1>2, <1>3
  <2>3. QED
    BY <1>1, <2>1, <2>2 DEF Calls
<1>5. ASSUME d.disturbed = FALSE PROVE IsInjective(d.called) /\ Through(d, hs, w)
  <2>1. /\ IsInjective(c.called) /\ c.present \subseteq ToSet(hs) \cup w
        /\ ToSet(c.called) = {hs[i] : i \in 1..(c.at - 1)}
    BY <1>2, <1>5 DEF Follows, Through
  <2>2. hs[c.at] \notin ToSet(c.called)
    BY <1>1, <1>3, <2>1 DEF Subscribed, IsInjective
  <2>3. ToSet(d.called) = {hs[i] : i \in 1..(d.at - 1)}
    <3>1. \A i : i \in 1..c.at <=> i \in 1..(c.at - 1) \/ i = c.at
      BY <1>1, <1>3
    <3>2. d.at - 1 = c.at
      BY <1>1, <1>2
    <3>3. QED
      BY <1>3, <2>1, <3>1, <3>2
  <2>4. d.at \in 1..(Len(hs) + 1)
    BY <1>1, <1>2, <1>3
  <2>5. QED
    BY <1>2, <1>3, <2>1, <2>2, <2>3, <2>4 DEF Through
<1>6. QED
  BY <1>4, <1>5 DEF Follows

LEMMA WildcardCalled ==
    ASSUME NEW c \in Calls, NEW hs, NEW w, Subscribed(hs, w), Follows(c, hs, w),
           c.state = "running", c.size # -1 \/ c.at > Len(hs),
           c.size \in {-1, Cardinality(w)}, NEW h \in w \ ToSet(c.called), NEW d,
           d = [c EXCEPT !.called = Append(c.called, h), !.at = c.at + 1,
                         !.size = Cardinality(w)]
    PROVE  d \in Calls /\ Follows(d, hs, w)
<1>1. /\ c.called \in Seq(Handlers) /\ c.at \in Nat /\ Len(hs) \in Nat /\ DOMAIN hs = 1..Len(hs)
      /\ c.at + 1 \in Nat \ {0} /\ c.present \subseteq Handlers /\ c.disturbed \in BOOLEAN
      /\ h \in Handlers
  BY LenProperties DEF Calls, Subscribed
<1>2. /\ d.called = Append(c.called, h) /\ d.at = c.at + 1 /\ d.state = c.state
      /\ d.size = Cardinality(w) /\ d.present = c.present /\ d.disturbed = c.disturbed
  BY DEF Calls
<1>3. Cardinality(w) \in Nat
  BY FS_CardinalityType DEF Subscribed
<1>4. /\ d.called \in Seq(Handlers) /\ ToSet(d.called) = ToSet(c.called) \cup {h}
      /\ IsInjective(c.called) => IsInjective(d.called)
  BY <1>1, <1>2, AppendAdds
<1>5. d \in Calls
  <2>1. d = [state |-> "running", at |-> c.at + 1, size |-> Cardinality(w),
             called |-> Append(c.called, h), present |-> c.present,
             disturbed |-> c.disturbed]
    BY DEF Calls
  <2>2. Append(c.called, h) \in Seq(Handlers)
    BY <1>2, <1>4
  <2>3. QED
    BY <1>1, <1>3, <2>1, <2>2 DEF Calls
<1>6. ASSUME d.disturbed = FALSE PROVE IsInjective(d.called) /\ Through(d, hs, w)
  <2>1. IsInjective(c.called) /\ Through(c, hs, w)
    BY <1>2, <1>6 DEF Follows
  <2>2. c.present \ w \subseteq ToSet(c.called)
    <3>1. CASE c.size # -1
      BY <2>1, <3>1 DEF Through
    <3>2. CASE c.size = -1
      <4>1. /\ c.at = Len(hs) + 1 /\ c.present \subseteq ToSet(hs) \cup w
            /\ ToSet(c.called) = {hs[i] : i \in 1..(c.at - 1)}
        BY <1>1, <2>1, <3>2 DEF Through
      <4>2. c.at - 1 = Len(hs)
        BY <1>1, <4>1
      <4>3. QED
        BY <1>1, <4>1, <4>2 DEF ToSet
    <3>3. QED
      BY <3>1, <3>2
  <2>3. c.present \subseteq ToSet(hs) \cup w
    BY <2>1 DEF Through
  <2>4. QED
    BY <1>2, <1>3, <1>4, <2>1, <2>2, <2>3 DEF Through
<1>7. QED
  BY <1>5, <1>6 DEF Follows

LEMMA PublicationEnds ==
    ASSUME NEW c \in Calls, NEW hs, NEW w, Subscribed(hs, w), Follows(c, hs, w),
           c.state = "running", c.size # -1 \/ c.at > Len(hs),
           \/ c.size \notin {-1, Cardinality(w)}
           \/ w \cap c.present \subseteq ToSet(c.called),
           NEW d, d = [c EXCEPT !.state = "done"]
    PROVE  d \in Calls /\ Follows(d, hs, w)
<1>1. /\ d.called = c.called /\ d.at = c.at /\ d.state = "done"
      /\ d.size = c.size /\ d.present = c.present /\ d.disturbed = c.disturbed /\ d \in Calls
  BY DEF Calls
<1>2. ASSUME d.disturbed = FALSE PROVE IsInjective(d.called) /\ Through(d, hs, w)
  <2>1. IsInjective(c.called) /\ Through(c, hs, w)
    BY <1>1, <1>2 DEF Follows
  <2>2. w \cap c.present \subseteq ToSet(c.called)
    BY <2>1 DEF Through
  <2>3. c.present \ w \subseteq ToSet(c.called)
    <3>1. CASE c.size # -1
      BY <2>1, <3>1 DEF Through
    <3>2. CASE c.size = -1
      <4>1. /\ c.at = Len(hs) + 1 /\ c.present \subseteq ToSet(hs) \cup w
            /\ ToSet(c.called) = {hs[i] : i \in 1..(c.at - 1)}
            /\ Len(hs) \in Nat /\ DOMAIN hs = 1..Len(hs)
        BY <2>1, <3>2, LenProperties DEF Through, Calls, Subscribed
      <4>2. c.at - 1 = Len(hs)
        BY <4>1
      <4>3. QED
        BY <4>1, <4>2 DEF ToSet
    <3>3. QED
      BY <3>1, <3>2
  <2>4. QED
    BY <1>1, <2>1, <2>2, <2>3 DEF Through
<1>3. QED
  BY <1>1, <1>2 DEF Follows

\* The state of the bus, and that its publications follow the list and the set.
Following == /\ Subscribed(handlers, wildcard)
             /\ call \in [Publishers -> {Idle} \cup Calls]
             /\ \A p \in Publishers : Follows(call[p], handlers, wildcard)

LEMMA IdleIsNoCall == Idle \notin Calls
BY DEF Idle, Calls

\* Whoever joins the wildcard or leaves disturbs all publications under way.
LEMMA DisturbedFollow ==
    ASSUME Following, call' = Disturb(call), Subscribed(handlers, wildcard)'
    PROVE  Following'
<1>1. ASSUME NEW p \in Publishers
      PROVE  /\ call'[p] \in {Idle} \cup Calls
             /\ Follows(call'[p], handlers', wildcard')
  <2>1. CASE call[p] = Idle
    <3>1. call'[p] = Idle
      BY <2>1 DEF Disturb, Idle
    <3>2. QED
      BY <3>1, IdleIsNoCall DEF Follows
  <2>2. CASE call[p] # Idle
    <3>1. PICK c \in Calls : c = call[p]
      BY <2>2 DEF Following
    <3>2. PICK d : d = [c EXCEPT !.disturbed = TRUE]
      OBVIOUS
    <3>3. d \in Calls /\ d.disturbed = TRUE
      BY <3>2 DEF Calls
    <3>4. call'[p] = d
      BY <3>1, <3>2 DEF Disturb, Calls
    <3>5. QED
      BY <3>3, <3>4 DEF Follows
  <2>3. QED
    BY <2>1, <2>2
<1>2. call' = [p \in Publishers |-> call'[p]]
  BY DEF Disturb
<1>3. QED
  BY <1>1, <1>2 DEF Following

LEMMA OneFollows ==
    ASSUME Following, UNCHANGED <<handlers, wildcard>>, NEW p \in Publishers, NEW d \in Calls,
           call' = [call EXCEPT ![p] = d], Follows(d, handlers, wildcard)
    PROVE  Following'
BY DEF Following, Subscribed

LEMMA BusFollows ==
    ASSUME Following, [BusNext]_busVars
    PROVE  Following'
<1>1. ASSUME NEW h \in Handlers, subscribe_async(h) PROVE Following'
  <2>1. h \notin ToSet(handlers) /\ h \notin wildcard
    BY <1>1 DEF subscribe_async
  <2>2. CASE handlers' = Append(handlers, h) /\ UNCHANGED <<wildcard, call>>
    <3>1. Subscribed(handlers', wildcard')
      BY <2>1, <2>2, AppendAdds DEF Following, Subscribed
    <3>2. \A p \in Publishers : Follows(call[p], Append(handlers, h), wildcard)
      BY ListGrows DEF Following, Subscribed
    <3>3. QED
      BY <2>2, <3>1, <3>2 DEF Following
  <2>3. CASE wildcard' = wildcard \cup {h} /\ call' = Disturb(call) /\ UNCHANGED handlers
    <3>1. Subscribed(handlers, wildcard')
      BY <2>1, <2>3, FS_AddElement DEF Following, Subscribed
    <3>2. QED
      BY <2>3, <3>1, DisturbedFollow
  <2>4. QED
    BY <1>1, <2>2, <2>3 DEF subscribe_async
<1>2. ASSUME NEW h \in Handlers, UnsubscribeAsync(h) PROVE Following'
  <2>1. ASSUME NEW i \in DOMAIN handlers, handlers' = RemoveAt(handlers, i),
               UNCHANGED wildcard
        PROVE  Subscribed(handlers, wildcard)'
    BY <2>1, RemoveLeaves DEF Following, Subscribed
  <2>2. ASSUME wildcard' = wildcard \ {h}, UNCHANGED handlers
        PROVE  Subscribed(handlers, wildcard)'
    <3>1. IsFiniteSet(wildcard \ {h})
      BY FS_RemoveElement DEF Following, Subscribed
    <3>2. QED
      BY <2>2, <3>1 DEF Following, Subscribed
  <2>3. call' = Disturb(call)
    BY <1>2 DEF UnsubscribeAsync
  <2>4. QED
    BY <1>2, <2>1, <2>2, <2>3, DisturbedFollow DEF UnsubscribeAsync
<1>3. ASSUME NEW p \in Publishers, publish_async(p) PROVE Following'
  <2>1. PICK d : d = [state |-> "running", at |-> 1, size |-> -1, called |-> <<>>,
                      present |-> ToSet(handlers) \cup wildcard, disturbed |-> FALSE]
    OBVIOUS
  <2>2. d \in Calls
    BY <2>1 DEF Calls, Following, Subscribed, ToSet
  <2>3. ToSet(d.called) = {} /\ IsInjective(d.called)
    BY <2>1 DEF ToSet, IsInjective
  <2>4. Len(handlers) \in Nat
    BY LenProperties DEF Following, Subscribed
  <2>5. Follows(d, handlers, wildcard)
    BY <2>1, <2>3, <2>4 DEF Follows, Through
  <2>6. QED
    BY <1>3, <2>1, <2>2, <2>5, OneFollows DEF publish_async
<1>4. ASSUME NEW p \in Publishers, CallListed(p) PROVE Following'
  <2>1. PICK c \in Calls : c = call[p]
    BY <1>4 DEF CallListed, Running, Following, Idle
  <2>2. PICK d : d = [c EXCEPT !.called = Append(c.called, handlers[c.at]), !.at = c.at + 1]
    OBVIOUS
  <2>3. d \in Calls /\ Follows(d, handlers, wildcard)
    BY <1>4, <2>1, <2>2, ListedCalled DEF CallListed, Running, Following
  <2>4. call' = [call EXCEPT ![p] = d]
    BY <1>4, <2>1, <2>2 DEF CallListed, Called
  <2>5. QED
    BY <1>4, <2>3, <2>4, OneFollows DEF CallListed
<1>5. ASSUME NEW p \in Publishers, CallWildcard(p) PROVE Following'
  <2>1. PICK c \in Calls : c = call[p]
    BY <1>5 DEF CallWildcard, InWildcard, Running, Following, Idle
  <2>2. PICK h \in wildcard \ ToSet(c.called) :
            call' = [call EXCEPT ![p] = [Called(p, h) EXCEPT !.size = Cardinality(wildcard)]]
    BY <1>5, <2>1 DEF CallWildcard
  <2>3. PICK d : d = [c EXCEPT !.called = Append(c.called, h), !.at = c.at + 1,
                               !.size = Cardinality(wildcard)]
    OBVIOUS
  <2>4. d = [Called(p, h) EXCEPT !.size = Cardinality(wildcard)]
    BY <2>1, <2>3 DEF Called, Calls
  <2>5. d \in Calls /\ Follows(d, handlers, wildcard)
    BY <1>5, <2>1, <2>2, <2>3, WildcardCalled
       DEF CallWildcard, InWildcard, SizeKept, Running, Following
  <2>6. QED
    BY <1>5, <2>2, <2>4, <2>5, OneFollows DEF CallWildcard
<1>6. ASSUME NEW p \in Publishers, EndPublish(p) PROVE Following'
  <2>1. PICK c \in Calls : c = call[p]
    BY <1>6 DEF EndPublish, InWildcard, Running, Following, Idle
  <2>2. PICK d : d = [c EXCEPT !.state = "done"]
    OBVIOUS
  <2>3. d \in Calls /\ Follows(d, handlers, wildcard)
    BY <1>6, <2>1, <2>2, PublicationEnds
       DEF EndPublish, InWildcard, SizeKept, Running, Following
  <2>4. call' = [call EXCEPT ![p] = d]
    BY <1>6, <2>1, <2>2 DEF EndPublish
  <2>5. QED
    BY <1>6, <2>3, <2>4, OneFollows DEF EndPublish
<1>7. CASE PublishTasks \/ RunTask \/ UNCHANGED busVars
  <2>1. UNCHANGED <<handlers, wildcard, call>>
    BY <1>7 DEF PublishTasks, RunTask, busVars
  <2>2. QED
    BY <2>1 DEF Following, Subscribed
<1>8. QED
  BY <1>1, <1>2, <1>3, <1>4, <1>5, <1>6, <1>7 DEF BusNext

\* The tasks t still to start, what was run, r, and the number e of events.
Ordered(t, r, e) ==
    /\ t \in Seq(Handlers \X Nat) /\ r \in [Handlers -> Seq(Nat)] /\ e \in Nat
    /\ \A i \in 1..Len(t) : t[i][2] <= e
    /\ \A i, j \in 1..Len(t) : i < j /\ t[i][1] = t[j][1] => t[i][2] < t[j][2]
    /\ \A h \in Handlers : \A i \in 1..Len(r[h]) :
          /\ r[h][i] <= e
          /\ \A j \in 1..Len(t) : t[j][1] = h => r[h][i] < t[j][2]
    /\ \A h \in Handlers : \A i, j \in 1..Len(r[h]) : i < j => r[h][i] < r[h][j]

LEMMA MoreEvents ==
    ASSUME NEW t, NEW r, NEW e, Ordered(t, r, e)
    PROVE  Ordered(t, r, e + 1)
<1>1. e \in Nat /\ e + 1 \in Nat /\ \A n \in Nat : n <= e => n <= e + 1
  BY DEF Ordered
<1>2. \A i \in 1..Len(t) : t[i] \in Handlers \X Nat
  BY ElementOfSeq DEF Ordered
<1>3. \A h \in Handlers : \A i \in 1..Len(r[h]) : r[h][i] \in Nat
  BY ElementOfSeq DEF Ordered
<1>4. (\A i \in 1..Len(t) : t[i][2] <= e + 1)
  BY <1>1, <1>2 DEF Ordered
<1>5. \A h \in Handlers : \A i \in 1..Len(r[h]) : r[h][i] <= e + 1
  BY <1>1, <1>3 DEF Ordered
<1>6. QED
  BY <1>1, <1>4, <1>5 DEF Ordered

\* An event is scheduled once for every handler, after all events before it.
LEMMA Scheduled ==
    ASSUME NEW t, NEW r, NEW e, Ordered(t, r, e), NEW l \in Seq(Handlers), IsInjective(l)
    PROVE  Ordered(t \o [i \in 1..Len(l) |-> <<l[i], e + 1>>], r, e + 1)
<1> DEFINE m == Len(t)
           n == Len(l)
           b == [i \in 1..n |-> <<l[i], e + 1>>]
           u == t \o b
<1>1. /\ m \in Nat /\ n \in Nat /\ e \in Nat /\ e + 1 \in Nat /\ DOMAIN l = 1..n
      /\ t \in Seq(Handlers \X Nat) /\ r \in [Handlers -> Seq(Nat)]
      /\ \A i \in 1..m : t[i] \in Handlers \X Nat /\ t[i][2] <= e
      /\ \A i \in 1..n : l[i] \in Handlers
      /\ \A h \in Handlers : \A i \in 1..Len(r[h]) : r[h][i] \in Nat /\ r[h][i] <= e
  BY LenProperties, ElementOfSeq DEF Ordered
<1>2. b \in Seq(Handlers \X Nat) /\ Len(b) = n /\ \A i \in 1..n : b[i] = <<l[i], e + 1>>
  <2>1. b \in [1..n -> Handlers \X Nat]
    BY <1>1
  <2>2. b \in Seq(Handlers \X Nat)
    BY <1>1, <2>1, SeqDef
  <2>3. Len(b) = n
    BY <1>1, <2>1, <2>2, LenProperties
  <2>4. QED
    BY <2>2, <2>3
<1>3. /\ u \in Seq(Handlers \X Nat) /\ Len(u) = m + n
      /\ \A i \in 1..(m + n) : u[i] = IF i <= m THEN t[i] ELSE b[i - m]
  BY <1>1, <1>2, ConcatProperties
<1>4. /\ \A i, j \in 1..n : l[i] = l[j] => i = j
      /\ \A i, j \in 1..m : i < j /\ t[i][1] = t[j][1] => t[i][2] < t[j][2]
      /\ \A h \in Handlers : \A i \in 1..Len(r[h]) :
            \A j \in 1..m : t[j][1] = h => r[h][i] < t[j][2]
      /\ \A h \in Handlers : \A i, j \in 1..Len(r[h]) : i < j => r[h][i] < r[h][j]
  BY <1>1 DEF Ordered, IsInjective
<1> HIDE DEF m, n, b, u
<1>5. ASSUME NEW i \in 1..(m + n)
      PROVE  \/ i \in 1..m /\ u[i] = t[i] /\ u[i][2] \in Nat /\ u[i][2] <= e
             \/ /\ i \notin 1..m /\ i - m \in 1..n
                /\ u[i][1] = l[i - m] /\ u[i][2] = e + 1
  <2>1. CASE i <= m
    <3>1. i \in 1..m /\ u[i] = t[i]
      BY <1>1, <1>3, <2>1
    <3>2. QED
      BY <1>1, <3>1
  <2>2. CASE ~(i <= m)
    <3>1. i - m \in 1..n /\ i \notin 1..m
      BY <1>1, <2>2
    <3>2. u[i] = b[i - m]
      BY <1>3, <2>2
    <3>3. u[i] = <<l[i - m], e + 1>>
      BY <1>2, <3>1, <3>2
    <3>4. QED
      BY <3>1, <3>3
  <2>3. QED
    BY <2>1, <2>2
<1>6. ASSUME NEW i \in 1..(m + n) PROVE u[i][2] <= e + 1
  <2>1. CASE i \in 1..m
    <3>1. u[i][2] \in Nat /\ u[i][2] <= e
      BY <1>5, <2>1
    <3>2. QED
      BY <1>1, <3>1
  <2>2. CASE i \notin 1..m
    <3>1. u[i][2] = e + 1
      BY <1>5, <2>2
    <3>2. QED
      BY <1>1, <3>1
  <2>3. QED
    BY <2>1, <2>2
<1>7. ASSUME NEW i \in 1..(m + n), NEW j \in 1..(m + n), i < j, u[i][1] = u[j][1]
      PROVE  u[i][2] < u[j][2]
  <2>1. CASE i \in 1..m /\ j \in 1..m
    BY <1>4, <1>5, <1>7, <2>1
  <2>2. CASE i \in 1..m /\ j \notin 1..m
    BY <1>1, <1>5, <2>2
  <2>3. CASE i \notin 1..m /\ j \notin 1..m
    <3>1. i - m = j - m
      BY <1>4, <1>5, <1>7, <2>3
    <3>2. QED
      BY <1>1, <1>7, <3>1
  <2>4. CASE i \notin 1..m /\ j \in 1..m
    BY <1>1, <1>7, <2>4
  <2>5. QED
    BY <2>1, <2>2, <2>3, <2>4
<1>8. ASSUME NEW h \in Handlers, NEW i \in 1..Len(r[h])
      PROVE  /\ r[h][i] <= e + 1
             /\ \A j \in 1..(m + n) : u[j][1] = h => r[h][i] < u[j][2]
  <2>1. r[h][i] \in Nat /\ r[h][i] <= e
    BY <1>1
  <2>2. ASSUME NEW j \in 1..(m + n), u[j][1] = h PROVE r[h][i] < u[j][2]
    <3>1. CASE j \in 1..m
      BY <1>4, <1>5, <2>2, <3>1
    <3>2. CASE j \notin 1..m
      <4>1. u[j][2] = e + 1
        BY <1>5, <3>2
      <4>2. QED
        BY <1>1, <2>1, <4>1
    <3>3. QED
      BY <3>1, <3>2
  <2>3. QED
    BY <1>1, <2>1, <2>2
<1>9. Ordered(u, r, e + 1)
  BY <1>1, <1>3, <1>4, <1>6, <1>7, <1>8 DEF Ordered
<1>10. QED
  BY <1>9 DEF u, b, n

\* The task that starts is older than every other one of its handler.
LEMMA Started ==
    ASSUME NEW t, NEW r, NEW e, Ordered(t, r, e), t # <<>>
    PROVE  Ordered(Tail(t), [r EXCEPT ![Head(t)[1]] = Append(r[Head(t)[1]], Head(t)[2])], e)
<1> DEFINE m == Len(t)
           u == Tail(t)
           g == t[1][1]
           x == t[1][2]
           q == [r EXCEPT ![g] = Append(r[g], x)]
<1>1. /\ m \in Nat /\ e \in Nat /\ r \in [Handlers -> Seq(Nat)]
      /\ \A i \in 1..m : t[i] \in Handlers \X Nat /\ t[i][2] <= e
      /\ \A h \in Handlers : Len(r[h]) \in Nat
      /\ \A h \in Handlers : \A i \in 1..Len(r[h]) : r[h][i] \in Nat /\ r[h][i] <= e
  BY LenProperties, ElementOfSeq DEF Ordered
<1>2. /\ Head(t) = t[1] /\ u \in Seq(Handlers \X Nat) /\ Len(u) = m - 1 /\ 1 \in 1..m
      /\ \A i \in 1..(m - 1) : u[i] = t[i + 1]
  BY HeadTailProperties, <1>1, EmptySeq DEF Ordered
<1>3. /\ \A i, j \in 1..m : i < j /\ t[i][1] = t[j][1] => t[i][2] < t[j][2]
      /\ \A h \in Handlers : \A i \in 1..Len(r[h]) :
            \A j \in 1..m : t[j][1] = h => r[h][i] < t[j][2]
      /\ \A h \in Handlers : \A i, j \in 1..Len(r[h]) : i < j => r[h][i] < r[h][j]
  BY DEF Ordered
<1>4. /\ g \in Handlers /\ x \in Nat /\ x <= e
      /\ \A i \in 1..Len(r[g]) : r[g][i] < x
      /\ \A j \in 1..m : 1 < j /\ t[j][1] = g => x < t[j][2]
  BY <1>1, <1>2, <1>3
<1>5. /\ q \in [Handlers -> Seq(Nat)] /\ \A h \in Handlers : h # g => q[h] = r[h]
      /\ Len(q[g]) = Len(r[g]) + 1 /\ q[g][Len(r[g]) + 1] = x
      /\ \A i \in 1..Len(r[g]) : q[g][i] = r[g][i]
  <2>1. q[g] = Append(r[g], x) /\ r[g] \in Seq(Nat)
    BY <1>1, <1>4
  <2>2. QED
    BY <1>1, <1>4, <2>1, AppendAdds
<1> HIDE DEF m, u, g, x, q
<1>6. \A i \in 1..(m - 1) : i + 1 \in 1..m /\ 1 < i + 1 /\ u[i] = t[i + 1]
  BY <1>1, <1>2
<1>7. ASSUME NEW i \in 1..(m - 1), NEW j \in 1..(m - 1), i < j, u[i][1] = u[j][1]
      PROVE  u[i][2] < u[j][2]
  <2>1. i + 1 < j + 1
    BY <1>1, <1>7
  <2>2. QED
    BY <1>3, <1>6, <1>7, <2>1
<1>8. ASSUME NEW i \in 1..Len(q[g]), i # Len(r[g]) + 1
      PROVE  i \in 1..Len(r[g]) /\ q[g][i] = r[g][i]
  <2>1. Len(r[g]) \in Nat
    BY <1>1, <1>4
  <2>2. i \in 1..Len(r[g])
    BY <1>5, <1>8, <2>1
  <2>3. QED
    BY <1>5, <2>2
<1>9. ASSUME NEW h \in Handlers, NEW i \in 1..Len(q[h])
      PROVE  q[h][i] <= e /\ \A j \in 1..(m - 1) : u[j][1] = h => q[h][i] < u[j][2]
  <2>1. CASE h # g
    <3>1. q[h] = r[h] /\ i \in 1..Len(r[h])
      BY <1>5, <1>9, <2>1
    <3>2. r[h][i] <= e
      BY <1>1, <3>1
    <3>3. \A j \in 1..(m - 1) : t[j + 1][1] = h => r[h][i] < t[j + 1][2]
      BY <1>3, <1>6, <3>1
    <3>4. QED
      BY <1>6, <3>1, <3>2, <3>3
  <2>2. CASE h = g /\ i = Len(r[g]) + 1
    <3>1. q[h][i] = x
      BY <1>5, <2>2
    <3>2. \A j \in 1..(m - 1) : t[j + 1][1] = g => x < t[j + 1][2]
      BY <1>4, <1>6
    <3>3. QED
      BY <1>4, <1>6, <2>2, <3>1, <3>2
  <2>3. CASE h = g /\ i # Len(r[g]) + 1
    <3>1. i \in 1..Len(r[g]) /\ q[h][i] = r[g][i]
      BY <1>8, <1>9, <2>3
    <3>2. r[g][i] <= e
      BY <1>1, <1>4, <3>1
    <3>3. \A j \in 1..(m - 1) : t[j + 1][1] = g => r[g][i] < t[j + 1][2]
      BY <1>3, <1>4, <1>6, <3>1
    <3>4. QED
      BY <1>6, <2>3, <3>1, <3>2, <3>3
  <2>4. QED
    BY <2>1, <2>2, <2>3
<1>10. ASSUME NEW h \in Handlers, NEW i \in 1..Len(q[h]), NEW j \in 1..Len(q[h]), i < j
       PROVE  q[h][i] < q[h][j]
  <2>1. CASE h # g
    BY <1>3, <1>5, <1>10, <2>1
  <2>2. CASE h = g
    <3>1. Len(r[g]) \in Nat
      BY <1>1, <1>4
    <3>2. i # Len(r[g]) + 1
      BY <1>5, <1>10, <2>2, <3>1
    <3>3. CASE j = Len(r[g]) + 1
      BY <1>4, <1>5, <1>8, <2>2, <3>2, <3>3
    <3>4. CASE j # Len(r[g]) + 1
      BY <1>3, <1>4, <1>8, <1>10, <2>2, <3>2, <3>4
    <3>5. QED
      BY <3>3, <3>4
  <2>3. QED
    BY <2>1, <2>2
<1>11. \A i \in 1..(m - 1) : u[i][2] <= e
  BY <1>1, <1>6
<1>12. Ordered(u, q, e)
  BY <1>1, <1>2, <1>5, <1>7, <1>9, <1>10, <1>11 DEF Ordered
<1>13. QED
  BY <1>2, <1>12 DEF u, q, g, x

BusInv == Following /\ Ordered(tasks, ran, events)

LEMMA BusStarts == BusInit => BusInv
<1> SUFFICES ASSUME BusInit PROVE BusInv
  OBVIOUS
<1>1. ToSet(<<>>) = {} /\ IsInjective(<<>>)
  BY DEF ToSet, IsInjective
<1>2. Following
  <2>1. \A p \in Publishers : call[p] = Idle
    BY DEF BusInit
  <2>2. \A p \in Publishers : Follows(call[p], handlers, wildcard)
    BY <2>1, IdleIsNoCall DEF Follows
  <2>3. Subscribed(handlers, wildcard)
    BY <1>1, FS_EmptySet DEF BusInit, Subscribed
  <2>4. QED
    BY <2>2, <2>3 DEF BusInit, Following
<1>3. Ordered(tasks, ran, events)
  BY DEF BusInit, Ordered
<1>4. QED
  BY <1>2, <1>3 DEF BusInv

\* The handlers of the list and those of the wildcard, one after the other.
LEMMA AllSubscribed ==
    ASSUME NEW hs, NEW w, Subscribed(hs, w), NEW q \in SetToSeqs(w)
    PROVE  hs \o q \in Seq(Handlers) /\ IsInjective(hs \o q)
<1> DEFINE m == Len(hs)
           n == Cardinality(w)
           a == hs \o q
<1>1. /\ m \in Nat /\ n \in Nat /\ DOMAIN hs = 1..m /\ hs \in Seq(Handlers)
      /\ \A i, j \in 1..m : hs[i] = hs[j] => i = j
      /\ \A i \in 1..m : hs[i] \notin w
  BY LenProperties, FS_CardinalityType DEF Subscribed, IsInjective, ToSet
<1>2. q \in [1..n -> w] /\ \A i, j \in 1..n : i # j => q[i] # q[j]
  BY DEF SetToSeqs
<1>3. q \in Seq(Handlers) /\ Len(q) = n
  <2>1. q \in [1..n -> Handlers]
    BY <1>2 DEF Subscribed
  <2>2. q \in Seq(Handlers)
    BY <1>1, <2>1, SeqDef
  <2>3. QED
    BY <1>1, <2>1, <2>2, LenProperties
<1>4. /\ a \in Seq(Handlers) /\ Len(a) = m + n
      /\ \A i \in 1..(m + n) : a[i] = IF i <= m THEN hs[i] ELSE q[i - m]
  <2>1. hs \in Seq(Handlers) /\ q \in Seq(Handlers)
    BY <1>1, <1>3
  <2>2. /\ hs \o q \in Seq(Handlers) /\ Len(hs \o q) = Len(hs) + Len(q)
        /\ \A i \in 1..(Len(hs) + Len(q)) :
              (hs \o q)[i] = IF i <= Len(hs) THEN hs[i] ELSE q[i - Len(hs)]
    BY ONLY <2>1, ConcatProperties
  <2> HIDE DEF a, n
  <2>3. QED
    BY <1>3, <2>2 DEF a
<1>5. DOMAIN a = 1..(m + n)
  BY <1>4, LenProperties
<1> HIDE DEF m, n, a
<1>6. ASSUME NEW i \in 1..(m + n)
      PROVE  \/ i \in 1..m /\ a[i] = hs[i] /\ a[i] \notin w
             \/ i \notin 1..m /\ i - m \in 1..n /\ a[i] = q[i - m] /\ a[i] \in w
  <2>1. CASE i <= m
    <3>1. i \in 1..m /\ a[i] = hs[i]
      BY <1>1, <1>4, <2>1
    <3>2. QED
      BY <1>1, <3>1
  <2>2. CASE ~(i <= m)
    <3>1. i \notin 1..m /\ i - m \in 1..n /\ a[i] = q[i - m]
      BY <1>1, <1>4, <2>2
    <3>2. QED
      BY <1>2, <3>1
  <2>3. QED
    BY <2>1, <2>2
<1>7. ASSUME NEW i \in 1..(m + n), NEW j \in 1..(m + n), a[i] = a[j] PROVE i = j
  <2>1. CASE i \in 1..m /\ j \in 1..m
    BY <1>1, <1>6, <1>7, <2>1
  <2>2. CASE i \notin 1..m /\ j \notin 1..m
    <3>1. i - m = j - m
      BY <1>2, <1>6, <1>7, <2>2
    <3>2. QED
      BY <1>1, <3>1
  <2>3. QED
    BY <1>6, <1>7, <2>1, <2>2
<1>8. QED
  BY <1>4, <1>5, <1>7 DEF IsInjective, a

LEMMA BusKeeps ==
    ASSUME BusInv, [BusNext]_busVars
    PROVE  BusInv'
<1>1. Following'
  BY BusFollows DEF BusInv
<1>2. Ordered(tasks, ran, events + 1)
  BY MoreEvents DEF BusInv
<1>3. CASE PublishTasks
  <2>1. PICK w \in SetToSeqs(wildcard) :
            tasks' = tasks \o [i \in 1..Len(handlers \o w) |-> <<(handlers \o w)[i], events + 1>>]
    BY <1>3 DEF PublishTasks
  <2>2. PICK l : l = handlers \o w
    OBVIOUS
  <2>3. l \in Seq(Handlers) /\ IsInjective(l)
    BY <2>1, <2>2, AllSubscribed DEF BusInv, Following
  <2>4. tasks' = tasks \o [i \in 1..Len(l) |-> <<l[i], events + 1>>]
    BY <2>1, <2>2
  <2>5. events' = events + 1 /\ ran' = ran
    BY <1>3 DEF PublishTasks, NewEvent
  <2>6. Ordered(tasks', ran', events')
    BY <2>3, <2>4, <2>5, Scheduled DEF BusInv
  <2>7. QED
    BY <1>1, <2>6 DEF BusInv
<1>4. CASE RunTask
  <2>1. /\ tasks # <<>> /\ tasks' = Tail(tasks) /\ events' = events
        /\ ran' = [ran EXCEPT ![Head(tasks)[1]] = Append(ran[Head(tasks)[1]], Head(tasks)[2])]
    BY <1>4 DEF RunTask
  <2>2. Ordered(tasks', ran', events')
    BY <2>1, Started DEF BusInv
  <2>3. QED
    BY <1>1, <2>2 DEF BusInv
<1>5. CASE \E p \in Publishers : publish_async(p)
  <2>1. tasks' = tasks /\ ran' = ran /\ events' = events + 1
    BY <1>5 DEF publish_async, NewEvent
  <2>2. QED
    BY <1>1, <1>2, <2>1 DEF BusInv
<1>6. CASE \/ \E h \in Handlers : subscribe_async(h) \/ UnsubscribeAsync(h)
           \/ \E p \in Publishers : CallListed(p) \/ CallWildcard(p) \/ EndPublish(p)
           \/ UNCHANGED busVars
  <2>1. tasks' = tasks /\ ran' = ran /\ events' = events
    BY <1>6 DEF subscribe_async, UnsubscribeAsync, CallListed, CallWildcard, EndPublish, busVars
  <2>2. QED
    BY <1>1, <2>1 DEF BusInv
<1>7. QED
  BY <1>3, <1>4, <1>5, <1>6 DEF BusNext

\* A publication that nobody disturbed has called each handler there was once,
\* and tasks run in the order of the events, for any handlers and publishers.
THEOREM OnceForEveryHandler == BusSpec => []EveryHandlerOnce
<1>1. BusInv => EveryHandlerOnce
  <2> SUFFICES ASSUME BusInv PROVE EveryHandlerOnce
    OBVIOUS
  <2>1. ASSUME NEW p \in Publishers, call[p].state = "done", ~call[p].disturbed
        PROVE  call[p].present \subseteq ToSet(call[p].called) /\ IsInjective(call[p].called)
    <3>1. PICK c \in Calls : c = call[p]
      BY <2>1 DEF BusInv, Following, Idle
    <3>2. c.disturbed \in BOOLEAN
      BY DEF Calls
    <3>3. c.disturbed = FALSE
      BY <2>1, <3>1, <3>2, Zenon
    <3>4. QED
      BY <2>1, <3>1, <3>3 DEF BusInv, Following, Follows, Through
  <2>2. \A h \in Handlers : \A i, j \in 1..Len(ran[h]) : i < j => ran[h][i] < ran[h][j]
    BY DEF BusInv, Ordered
  <2>3. QED
    BY <2>1, <2>2 DEF EveryHandlerOnce
<1>2. BusInv /\ [BusNext]_busVars => BusInv'
  BY BusKeeps
<1>3. QED
  BY <1>1, <1>2, BusStarts, PTL DEF BusSpec

=============================================================================
