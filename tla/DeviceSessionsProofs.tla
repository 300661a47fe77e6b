------------------------ MODULE DeviceSessionsProofs ------------------------
(***************************************************************************)
(* Theorems about DeviceSessions for every set of devices, every limit and *)
(* every choice of the intervals.                                          *)
(*                                                                         *)
(* Everything that touches the session table is one of three operators on  *)
(* it: register, Beat and unregister, or the cleanup.  The lemmas say what *)
(* each does to the domain and to the ages; the theorems follow from an    *)
(* invariant that ties the ages to the phase of the cleanup loop.  KeepInv *)
(* compares the age of a session with the silence of its only stream.      *)
(***************************************************************************)
EXTENDS DeviceSessions, FiniteSetTheorems, TLAPS

\* A table of sessions none of which is older than Expiry + late.
Table(f, late) ==
    /\ f = [d \in DOMAIN f |-> f[d]]
    /\ DOMAIN f \subseteq Devices
    /\ \A d \in DOMAIN f : f[d] \in Session /\ f[d].age <= Expiry + late

IInv == TypeOK /\ Table(sessions, sinceCleanup) /\ SessionLimit

-----------------------------------------------------------------------------
(* The operators on the table. *)

LEMMA SessionRecord ==
    /\ \A s \in Session : s.age \in Nat /\ s.frames \in Nat
    /\ \A a, n \in Nat, k \in {"connected", "stale"} :
          [age |-> a, frames |-> n, status |-> k] \in Session
BY DEF Session

LEMMA SessionSeen ==
    ASSUME NEW s \in Session
    PROVE  /\ [s EXCEPT !.age = 0, !.status = "connected"] \in Session
           /\ [s EXCEPT !.age = 0, !.status = "connected"].age = 0
BY DEF Session

LEMMA SessionAged ==
    ASSUME NEW s \in Session
    PROVE  [s EXCEPT !.age = @ + 1] \in Session /\ [s EXCEPT !.age = @ + 1].age = s.age + 1
BY DEF Session

LEMMA SessionStale ==
    ASSUME NEW s \in Session
    PROVE  [s EXCEPT !.status = "stale"] \in Session /\ [s EXCEPT !.status = "stale"].age = s.age
BY DEF Session

LEMMA WithTable ==
    ASSUME NEW f, NEW late \in Nat, Table(f, late),
           NEW d \in Devices, NEW s \in Session, s.age = 0
    PROVE  Table(With(f, d, s), late) /\ DOMAIN With(f, d, s) = DOMAIN f \cup {d}
<1> DEFINE g == With(f, d, s)
<1>1. /\ DOMAIN g = DOMAIN f \cup {d} /\ g[d] = s
      /\ \A e \in DOMAIN f : e # d => g[e] = f[e]
      /\ g = [e \in DOMAIN g |-> g[e]]
  BY DEF With
<1> HIDE DEF g
<1>2. Expiry \in Nat /\ 0 <= Expiry + late
  BY SessionConstants
<1>3. \A e \in DOMAIN g : g[e] \in Session /\ g[e].age <= Expiry + late
  BY <1>1, <1>2 DEF Table
<1>4. QED
  BY <1>1, <1>3 DEF Table, g

LEMMA RegisterTable ==
    ASSUME IInv, NEW d \in Devices
    PROVE  /\ Table(register(d), sinceCleanup)
           /\ DOMAIN sessions \subseteq DOMAIN register(d)
           /\ Cardinality(DOMAIN register(d)) <= MaxDevices
<1>1. /\ Table(sessions, sinceCleanup) /\ sinceCleanup \in Nat /\ MaxDevices \in Nat
      /\ Cardinality(DOMAIN sessions) <= MaxDevices
  BY SessionConstants DEF IInv, SessionLimit, TypeOK
<1>2. IsFiniteSet(DOMAIN sessions) /\ Cardinality(DOMAIN sessions) \in Nat
  BY <1>1, SessionConstants, FS_Subset, FS_CardinalityType DEF Table
<1>3. CASE Registered(d)
  <2> DEFINE s == [sessions[d] EXCEPT !.age = 0, !.status = "connected"]
  <2>1. s \in Session /\ s.age = 0
    BY <1>1, <1>3, SessionSeen DEF Table, Registered
  <2>2. register(d) = With(sessions, d, s)
    BY <1>3 DEF register
  <2> HIDE DEF s
  <2>3. /\ Table(With(sessions, d, s), sinceCleanup)
        /\ DOMAIN With(sessions, d, s) = DOMAIN sessions \cup {d}
    BY <1>1, <2>1, WithTable
  <2>4. DOMAIN sessions \cup {d} = DOMAIN sessions
    BY <1>3 DEF Registered
  <2>5. QED
    BY <1>1, <2>2, <2>3, <2>4
<1>4. CASE ~Registered(d) /\ Cardinality(DOMAIN sessions) < MaxDevices
  <2> DEFINE s == [age |-> 0, frames |-> 0, status |-> "connected"]
  <2>1. s \in Session /\ s.age = 0
    BY SessionRecord
  <2>2. register(d) = With(sessions, d, s)
    BY <1>4 DEF register
  <2> HIDE DEF s
  <2>3. /\ Table(register(d), sinceCleanup)
        /\ DOMAIN register(d) = DOMAIN sessions \cup {d}
    BY <1>1, <2>1, <2>2, WithTable
  <2>4. Cardinality(DOMAIN register(d)) = Cardinality(DOMAIN sessions) + 1
    BY <1>2, <1>4, <2>3, FS_AddElement DEF Registered
  <2>5. QED
    BY <1>1, <1>2, <1>4, <2>3, <2>4
<1>5. CASE ~Registered(d) /\ ~(Cardinality(DOMAIN sessions) < MaxDevices)
  BY <1>1, <1>5 DEF register
<1>6. QED
  BY <1>3, <1>4, <1>5

LEMMA BeatTable ==
    ASSUME NEW f, NEW late \in Nat, Table(f, late), NEW d \in Devices
    PROVE  Table(Beat(f, d), late) /\ DOMAIN Beat(f, d) = DOMAIN f
<1>1. CASE d \in DOMAIN f
  <2> DEFINE s == [age |-> 0, frames |-> f[d].frames + 1, status |-> "connected"]
  <2>1. f[d].frames + 1 \in Nat
    <3>1. f[d] \in Session
      BY <1>1 DEF Table
    <3>2. f[d].frames \in Nat
      BY <3>1, SessionRecord
    <3>3. QED
      BY <3>2
  <2>2. s \in Session /\ s.age = 0
    BY <2>1, SessionRecord
  <2>3. Beat(f, d) = With(f, d, s)
    BY <1>1 DEF Beat
  <2> HIDE DEF s
  <2>4. Table(With(f, d, s), late) /\ DOMAIN With(f, d, s) = DOMAIN f \cup {d}
    BY <2>2, WithTable
  <2>5. DOMAIN f \cup {d} = DOMAIN f
    BY <1>1
  <2>6. QED
    BY <2>3, <2>4, <2>5
<1>2. CASE d \notin DOMAIN f
  BY <1>2 DEF Beat
<1>3. QED
  BY <1>1, <1>2

LEMMA UnregisterTable ==
    ASSUME NEW f, NEW late \in Nat, Table(f, late), NEW d \in Devices
    PROVE  Table(unregister(f, d), late) /\ DOMAIN unregister(f, d) \subseteq DOMAIN f
BY DEF unregister, Restrict, Table

LEMMA Smaller ==
    ASSUME NEW S, NEW T, IsFiniteSet(T), S \subseteq T, Cardinality(T) <= MaxDevices
    PROVE  Cardinality(S) <= MaxDevices
<1>1. /\ Cardinality(S) \in Nat /\ Cardinality(T) \in Nat /\ MaxDevices \in Nat
      /\ Cardinality(S) <= Cardinality(T)
  BY SessionConstants, FS_Subset, FS_CardinalityType
<1>2. QED
  BY <1>1

-----------------------------------------------------------------------------
(* The callers. *)

LEMMA StreamDevice == \A s \in Streams : s[1] \in Devices
BY DEF Streams

\* The history of a stream, and where it is.
Rest == /\ stream \in [Streams -> {"new", "open", "registered", "ended"}]
        /\ sinceCleanup \in 0..CleanupInterval
        /\ accepted \in [Streams -> BOOLEAN] /\ processed \in [Streams -> Nat]
        /\ silent \in [Streams -> 0..(Expiry + 1)]

LEMMA TypeParts ==
    ASSUME Rest, Table(sessions, sinceCleanup)
    PROVE  TypeOK
BY DEF Rest, Table, TypeOK

LEMMA IInvParts ==
    ASSUME IInv
    PROVE  /\ Rest /\ Table(sessions, sinceCleanup) /\ SessionLimit
           /\ sinceCleanup \in Nat
           /\ IsFiniteSet(DOMAIN sessions)
           /\ Cardinality(DOMAIN sessions) <= MaxDevices
<1>1. Rest /\ Table(sessions, sinceCleanup) /\ SessionLimit
  BY DEF IInv, TypeOK, Rest
<1>2. IsFiniteSet(DOMAIN sessions)
  BY <1>1, SessionConstants, FS_Subset DEF Table
<1>3. sinceCleanup \in Nat
  <2>1. CleanupInterval \in Nat
    BY SessionConstants
  <2>2. QED
    BY <1>1, <2>1 DEF Rest
<1>4. QED
  BY <1>1, <1>2, <1>3 DEF SessionLimit

\* A step that leaves the time alone, and the table within its limits.
LEMMA SameTime ==
    ASSUME IInv, Rest', UNCHANGED sinceCleanup, NEW f, sessions' = f,
           Table(f, sinceCleanup), Cardinality(DOMAIN f) <= MaxDevices
    PROVE  IInv'
<1>1. Table(sessions, sinceCleanup)' /\ SessionLimit'
  BY DEF SessionLimit, Table
<1>2. QED
  BY <1>1, TypeParts DEF IInv, TypeOK, Rest, Table

\* The table once the first message has named the device.
LEMMA SeenTable ==
    ASSUME IInv, NEW s \in Streams
    PROVE  /\ Table(Seen(s), sinceCleanup)
           /\ IsFiniteSet(DOMAIN Seen(s)) /\ Cardinality(DOMAIN Seen(s)) <= MaxDevices
<1>1. /\ Table(Seen(s), sinceCleanup) /\ Cardinality(DOMAIN Seen(s)) <= MaxDevices
  BY StreamDevice, RegisterTable, IInvParts DEF Seen
<1>2. QED
  BY <1>1, SessionConstants, FS_Subset DEF Table

LEMMA ForgetRest ==
    ASSUME Rest, NEW s \in Streams, Forget(s), UNCHANGED sinceCleanup,
           stream' = [stream EXCEPT ![s] = "ended"]
    PROVE  Rest'
<1>1. Expiry \in Nat /\ 0 \in 0..(Expiry + 1)
  BY SessionConstants
<1>2. QED
  BY <1>1 DEF Rest, Forget

LEMMA KeepMessages ==
    ASSUME IInv, NEW s \in Streams, ValidMessage(s) \/ InvalidMessage(s) \/ LimitedMessage(s)
    PROVE  IInv'
<1> DEFINE g == Seen(s)
<1>1. /\ Table(g, sinceCleanup) /\ IsFiniteSet(DOMAIN g) /\ Cardinality(DOMAIN g) <= MaxDevices
      /\ Rest /\ sinceCleanup \in Nat /\ s[1] \in Devices
  BY SeenTable, IInvParts, StreamDevice
<1> HIDE DEF g
<1>3. CASE ValidMessage(s)
  <2>1. /\ sessions' = Beat(g, s[1]) /\ UNCHANGED sinceCleanup
    BY <1>3 DEF ValidMessage, g
  <2>2. accepted' \in [Streams -> BOOLEAN]
    BY <1>1, <1>3 DEF ValidMessage, SeenFirst, Rest
  <2>3. /\ stream' \in [Streams -> {"new", "open", "registered", "ended"}]
        /\ processed' \in [Streams -> Nat]
    BY <1>1, <1>3 DEF ValidMessage, Rest
  <2>4. silent' \in [Streams -> 0..(Expiry + 1)]
    <3>1. Expiry \in Nat /\ 0 \in 0..(Expiry + 1)
      BY SessionConstants
    <3>2. QED
      BY <1>1, <1>3, <3>1 DEF ValidMessage, Rest
  <2>5. Rest'
    BY <1>1, <2>1, <2>2, <2>3, <2>4 DEF Rest
  <2>6. /\ Table(Beat(g, s[1]), sinceCleanup) /\ DOMAIN Beat(g, s[1]) = DOMAIN g
    BY <1>1, BeatTable
  <2>7. Cardinality(DOMAIN Beat(g, s[1])) <= MaxDevices
    BY <1>1, <2>6
  <2>8. QED
    BY <2>1, <2>5, <2>6, <2>7, SameTime
<1>4. CASE InvalidMessage(s)
  <2>1. sessions' = g /\ UNCHANGED sinceCleanup
    BY <1>4 DEF InvalidMessage, g
  <2>2. accepted' \in [Streams -> BOOLEAN]
    BY <1>1, <1>4 DEF InvalidMessage, SeenFirst, Rest
  <2>3. Rest'
    BY <1>1, <1>4, <2>2 DEF InvalidMessage, Rest
  <2>4. QED
    BY <1>1, <2>1, <2>3, SameTime
<1>5. CASE LimitedMessage(s)
  <2>1. /\ sessions' = unregister(g, s[1]) /\ UNCHANGED sinceCleanup
        /\ Rest'
    BY <1>1, <1>5, ForgetRest DEF LimitedMessage, g
  <2>2. /\ Table(unregister(g, s[1]), sinceCleanup)
        /\ DOMAIN unregister(g, s[1]) \subseteq DOMAIN g
    BY <1>1, UnregisterTable
  <2>3. Cardinality(DOMAIN unregister(g, s[1])) <= MaxDevices
    BY <1>1, <2>2, Smaller
  <2>4. QED
    BY <2>1, <2>2, <2>3, SameTime
<1>6. QED
  BY <1>3, <1>4, <1>5

LEMMA KeepStreams ==
    ASSUME IInv, NEW s \in Streams, OpenStream(s) \/ EndStream(s)
    PROVE  IInv'
<1>1. /\ Rest /\ Table(sessions, sinceCleanup) /\ sinceCleanup \in Nat /\ s[1] \in Devices
      /\ IsFiniteSet(DOMAIN sessions) /\ Cardinality(DOMAIN sessions) <= MaxDevices
  BY IInvParts, StreamDevice
<1>2. CASE OpenStream(s)
  <2>1. Rest' /\ sessions' = sessions /\ UNCHANGED sinceCleanup
    BY <1>1, <1>2 DEF OpenStream, Rest
  <2>2. QED
    BY <1>1, <2>1, SameTime
<1>3. CASE EndStream(s)
  <2>1. Rest' /\ UNCHANGED sinceCleanup
    BY <1>1, <1>3, ForgetRest DEF EndStream
  <2>2. /\ Table(unregister(sessions, s[1]), sinceCleanup)
        /\ DOMAIN unregister(sessions, s[1]) \subseteq DOMAIN sessions
    BY <1>1, UnregisterTable
  <2>3. Cardinality(DOMAIN unregister(sessions, s[1])) <= MaxDevices
    BY <1>1, <2>2, Smaller
  <2>4. sessions' = unregister(sessions, s[1]) \/ sessions' = sessions
    BY <1>3 DEF EndStream
  <2>5. QED
    BY <1>1, <2>1, <2>2, <2>3, <2>4, SameTime
<1>4. QED
  BY <1>2, <1>3

LEMMA KeepRegisterDevice ==
    ASSUME IInv, NEW d \in Devices, RegisterDevice(d)
    PROVE  IInv'
<1>1. sessions' = register(d) /\ UNCHANGED <<stream, sinceCleanup, accepted, processed, silent>>
  BY DEF RegisterDevice
<1>2. Rest'
  BY <1>1, IInvParts DEF Rest
<1>3. QED
  BY <1>1, <1>2, RegisterTable, SameTime

\* A tick makes every session one older, and the next cleanup one nearer.
LEMMA KeepTick ==
    ASSUME IInv, Tick
    PROVE  IInv'
<1>1. /\ Rest /\ Table(sessions, sinceCleanup) /\ sinceCleanup \in Nat
      /\ Cardinality(DOMAIN sessions) <= MaxDevices
      /\ Expiry \in Nat /\ CleanupInterval \in Nat
  BY IInvParts, SessionConstants
<1>2. /\ sinceCleanup' = sinceCleanup + 1 /\ sinceCleanup < CleanupInterval
      /\ sessions' = [d \in DOMAIN sessions |-> [sessions[d] EXCEPT !.age = @ + 1]]
      /\ UNCHANGED <<stream, accepted, processed>>
  BY DEF Tick
<1>3. silent' \in [Streams -> 0..(Expiry + 1)]
  <2>1. \A n \in 0..(Expiry + 1) : n <= Expiry => n + 1 \in 0..(Expiry + 1)
    BY <1>1
  <2>2. QED
    BY <1>1, <2>1 DEF Tick, Rest
<1>4. Rest'
  BY <1>1, <1>2, <1>3 DEF Rest
<1>5. ASSUME NEW d \in DOMAIN sessions
      PROVE  sessions'[d] \in Session /\ sessions'[d].age <= Expiry + sinceCleanup'
  <2>1. sessions[d] \in Session /\ sessions[d].age <= Expiry + sinceCleanup
    BY <1>1 DEF Table
  <2>2. sessions'[d] \in Session /\ sessions'[d].age = sessions[d].age + 1
    BY <1>2, <2>1, SessionAged
  <2>3. sessions[d].age \in Nat
    BY <2>1, SessionRecord
  <2>4. QED
    BY <1>1, <1>2, <2>1, <2>2, <2>3
<1>6. DOMAIN sessions' = DOMAIN sessions /\ sessions' = [d \in DOMAIN sessions' |-> sessions'[d]]
  BY <1>2
<1>7. Table(sessions', sinceCleanup')
  BY <1>1, <1>5, <1>6 DEF Table
<1>8. QED
  BY <1>1, <1>4, <1>6, <1>7 DEF IInv, SessionLimit, TypeOK, Rest, Table

\* The cleanup leaves no session that is older than Expiry.
LEMMA KeepCleanup ==
    ASSUME IInv, Cleanup
    PROVE  IInv'
<1>1. /\ Rest /\ Table(sessions, sinceCleanup) /\ sinceCleanup \in Nat
      /\ IsFiniteSet(DOMAIN sessions)
      /\ Cardinality(DOMAIN sessions) <= MaxDevices
      /\ Expiry \in Nat /\ CleanupInterval \in Nat
  BY IInvParts, SessionConstants
<1>2. /\ sinceCleanup' = 0 /\ sessions' = cleanup_expired
      /\ UNCHANGED <<stream, accepted, processed, silent>>
  BY DEF Cleanup
<1>3. Rest'
  BY <1>1, <1>2 DEF Rest
<1>4. DOMAIN sessions' \subseteq DOMAIN sessions
      /\ sessions' = [d \in DOMAIN sessions' |-> sessions'[d]]
  BY <1>2 DEF cleanup_expired
<1>5. ASSUME NEW d \in DOMAIN sessions'
      PROVE  sessions'[d] \in Session /\ sessions'[d].age <= Expiry + 0
  <2>1. d \in DOMAIN sessions /\ sessions[d].age <= Expiry
    BY <1>2 DEF cleanup_expired
  <2>2. sessions[d] \in Session
    BY <1>1, <2>1 DEF Table
  <2>3. sessions'[d] = [sessions[d] EXCEPT !.status = "stale"] \/ sessions'[d] = sessions[d]
    BY <1>2 DEF cleanup_expired
  <2>4. sessions'[d] \in Session /\ sessions'[d].age = sessions[d].age
    BY <2>2, <2>3, SessionStale
  <2>5. sessions[d].age \in Nat
    BY <2>2, SessionRecord
  <2>6. QED
    BY <1>1, <2>1, <2>4, <2>5
<1>6. Table(sessions', sinceCleanup')
  BY <1>1, <1>2, <1>4, <1>5 DEF Table
<1>7. Cardinality(DOMAIN sessions') <= MaxDevices
  BY <1>1, <1>4, Smaller
<1>8. QED
  BY <1>3, <1>6, <1>7 DEF IInv, SessionLimit, TypeOK, Rest, Table

-----------------------------------------------------------------------------
LEMMA InitIInv == Init => IInv
<1> SUFFICES ASSUME Init PROVE IInv
  OBVIOUS
<1>1. DOMAIN sessions = {} /\ sessions = [d \in DOMAIN sessions |-> sessions[d]]
  BY DEF Init
<1>2. Cardinality(DOMAIN sessions) <= MaxDevices
  BY <1>1, FS_EmptySet, SessionConstants
<1>3. Rest
  <2>1. 0 \in 0..CleanupInterval /\ 0 \in 0..(Expiry + 1)
    BY SessionConstants
  <2>2. QED
    BY <2>1 DEF Init, Rest
<1>4. Table(sessions, sinceCleanup)
  BY <1>1 DEF Table
<1>5. QED
  BY <1>2, <1>3, <1>4, TypeParts DEF IInv, SessionLimit

LEMMA NextIInv == IInv /\ [Next]_vars => IInv'
<1> SUFFICES ASSUME IInv, [Next]_vars PROVE IInv'
  OBVIOUS
<1>1. CASE UNCHANGED vars
  BY <1>1 DEF vars, IInv, TypeOK, Table, SessionLimit
<1>2. QED
  BY <1>1, KeepStreams, KeepMessages, KeepRegisterDevice, KeepTick, KeepCleanup DEF Next

\* The session table keeps to its type, for any number of devices.
THEOREM TypeCorrect == Spec => []TypeOK
<1>1. IInv => TypeOK
  BY DEF IInv
<1>2. QED
  BY <1>1, InitIInv, NextIInv, PTL DEF Spec

\* register never lets the table grow beyond max_devices, and no other call
\* makes a session.
THEOREM Limited == Spec => []SessionLimit
<1>1. IInv => SessionLimit
  BY DEF IInv
<1>2. QED
  BY <1>1, InitIInv, NextIInv, PTL DEF Spec

\* The cleanup loop removes a session at most one interval after it expired.
THEOREM SilentExpire == Spec => []SilentSessionsExpire
<1>1. IInv => SilentSessionsExpire
  <2> SUFFICES ASSUME IInv, NEW d \in DOMAIN sessions
               PROVE  sessions[d].age <= Expiry + CleanupInterval
    BY DEF SilentSessionsExpire
  <2>1. /\ sessions[d] \in Session /\ sessions[d].age <= Expiry + sinceCleanup
        /\ sinceCleanup \in 0..CleanupInterval
    BY IInvParts DEF Table, Rest
  <2>2. sessions[d].age \in Nat /\ Expiry \in Nat /\ CleanupInterval \in Nat
    BY <2>1, SessionRecord, SessionConstants
  <2>3. QED
    BY <2>1, <2>2
<1>2. QED
  BY <1>1, InitIInv, NextIInv, PTL DEF Spec
-----------------------------------------------------------------------------
(* The session of a device with one stream. *)

\* No other stream of the device has been opened.
Sole(s) == \A n \in 1..MaxStreams[s[1]] : n # s[2] => stream[<<s[1], n>>] = "new"

\* Before its first message the device has no session that counted a frame;
\* then the session is never older than the silence of the stream.
Fresh(s) == processed[s] = 0 /\ (Registered(s[1]) => sessions[s[1]].frames = 0)
Kept(s) ==
    /\ Registered(s[1]) /\ sessions[s[1]].frames = processed[s]
    /\ sessions[s[1]].age <= silent[s]

KeepInv ==
    \A s \in Streams : Sole(s) =>
       /\ stream[s] \in {"new", "open"} => Fresh(s)
       /\ stream[s] = "registered" /\ accepted[s] /\ silent[s] <= Expiry => Kept(s)

SameEntry(f, g, d) == (d \in DOMAIN f <=> d \in DOMAIN g) /\ (d \in DOMAIN f => g[d] = f[d])

LEMMA OtherEntry ==
    ASSUME NEW f, NEW d, NEW e, d # e
    PROVE  /\ SameEntry(f, Beat(f, e), d) /\ SameEntry(f, unregister(f, e), d)
           /\ SameEntry(sessions, register(e), d)
<1>1. SameEntry(f, Beat(f, e), d)
  BY DEF SameEntry, Beat, With
<1>2. SameEntry(f, unregister(f, e), d)
  BY DEF SameEntry, unregister, Restrict
<1>3. SameEntry(sessions, register(e), d)
  BY DEF SameEntry, register, With, Registered
<1>4. QED
  BY <1>1, <1>2, <1>3

LEMMA RegisterEntry ==
    ASSUME IInv, NEW d
    PROVE  /\ Registered(d) => d \in DOMAIN register(d)
           /\ d \in DOMAIN register(d) =>
                 /\ register(d)[d].age = 0
                 /\ register(d)[d].frames = (IF Registered(d) THEN sessions[d].frames ELSE 0)
<1>1. CASE Registered(d)
  <2>1. sessions[d] \in Session
    BY <1>1 DEF IInv, TypeOK, Registered
  <2>2. register(d) = With(sessions, d, [sessions[d] EXCEPT !.age = 0, !.status = "connected"])
    BY <1>1 DEF register
  <2>3. /\ d \in DOMAIN register(d)
        /\ register(d)[d] = [sessions[d] EXCEPT !.age = 0, !.status = "connected"]
    BY <2>2 DEF With
  <2>4. QED
    BY <1>1, <2>1, <2>3 DEF Session
<1>2. CASE ~Registered(d)
  BY <1>2 DEF register, With, Registered
<1>3. QED
  BY <1>1, <1>2

LEMMA BeatEntry ==
    ASSUME NEW f, NEW d, d \in DOMAIN f
    PROVE  /\ d \in DOMAIN Beat(f, d)
           /\ Beat(f, d)[d].age = 0 /\ Beat(f, d)[d].frames = f[d].frames + 1
BY DEF Beat, With

\* Streams are opened, and never new again.
LEMMA StaysSole ==
    ASSUME IInv, [Next]_vars, NEW s \in Streams, Sole(s)'
    PROVE  Sole(s)
<1>1. \A t \in Streams : stream'[t] = "new" => stream[t] = "new"
  <2>1. stream \in [Streams -> {"new", "open", "registered", "ended"}]
    BY DEF IInv, TypeOK
  <2>2. CASE UNCHANGED vars
    BY <2>2 DEF vars
  <2>3. ASSUME NEW t \in Streams,
               OpenStream(t) \/ EndStream(t) \/ ValidMessage(t) \/ InvalidMessage(t)
               \/ LimitedMessage(t)
        PROVE  \A u \in Streams : stream'[u] = "new" => stream[u] = "new"
    BY <2>1, <2>3 DEF OpenStream, EndStream, ValidMessage, InvalidMessage, LimitedMessage
  <2>4. CASE Tick \/ Cleanup \/ \E d \in Devices : RegisterDevice(d)
    BY <2>4 DEF Tick, Cleanup, RegisterDevice
  <2>5. QED
    BY <2>2, <2>3, <2>4 DEF Next
<1>2. \A n \in 1..MaxStreams[s[1]] : <<s[1], n>> \in Streams
  BY DEF Streams
<1>3. QED
  BY <1>1, <1>2 DEF Sole

LEMMA SoleStream ==
    ASSUME NEW s \in Streams, NEW t \in Streams, Sole(s), t # s, t[1] = s[1]
    PROVE  stream[t] = "new"
<1>1. /\ t = <<t[1], t[2]>> /\ t[2] \in 1..MaxStreams[t[1]]
      /\ s = <<s[1], s[2]>>
  BY DEF Streams
<1>2. QED
  BY <1>1 DEF Sole

\* What the invariant says of one stream.
KeepOf(s) ==
    /\ stream[s] \in {"new", "open"} => Fresh(s)
    /\ stream[s] = "registered" /\ accepted[s] /\ silent[s] <= Expiry => Kept(s)

\* A step on another device.
LEMMA OtherDevice ==
    ASSUME NEW s \in Streams, KeepOf(s), SameEntry(sessions, sessions', s[1]),
           stream'[s] = stream[s], accepted'[s] = accepted[s], silent'[s] = silent[s],
           processed'[s] = processed[s]
    PROVE  KeepOf(s)'
BY DEF KeepOf, Fresh, Kept, SameEntry, Registered

LEMMA StreamTypes ==
    ASSUME IInv, NEW s \in Streams
    PROVE  /\ stream[s] \in {"new", "open", "registered", "ended"}
           /\ processed[s] \in Nat /\ silent[s] \in Nat /\ Expiry \in Nat
           /\ DOMAIN stream = Streams /\ DOMAIN accepted = Streams
           /\ DOMAIN processed = Streams /\ DOMAIN silent = Streams
BY SessionConstants DEF IInv, TypeOK

\* A step of the stream itself.
LEMMA OwnStream ==
    ASSUME IInv, NEW s \in Streams, KeepOf(s),
           OpenStream(s) \/ EndStream(s) \/ ValidMessage(s) \/ InvalidMessage(s)
           \/ LimitedMessage(s)
    PROVE  KeepOf(s)'
<1>1. /\ stream[s] \in {"new", "open", "registered", "ended"}
      /\ processed[s] \in Nat /\ silent[s] \in Nat /\ Expiry \in Nat
      /\ DOMAIN stream = Streams /\ DOMAIN accepted = Streams
      /\ DOMAIN processed = Streams /\ DOMAIN silent = Streams
  BY StreamTypes
<1>2. CASE OpenStream(s)
  <2>1. /\ stream[s] = "new" /\ stream'[s] = "open"
        /\ UNCHANGED <<sessions, processed>>
    BY <1>1, <1>2 DEF OpenStream
  <2>2. QED
    BY <2>1 DEF KeepOf, Fresh, Registered
<1>3. CASE EndStream(s) \/ LimitedMessage(s)
  <2>1. stream'[s] = "ended"
    BY <1>1, <1>3 DEF EndStream, LimitedMessage
  <2>2. QED
    BY <2>1 DEF KeepOf
<1>4. CASE ValidMessage(s) \/ InvalidMessage(s)
  <2> DEFINE g == Seen(s)
  <2>1. /\ stream[s] \in {"open", "registered"} /\ stream'[s] = "registered"
        /\ silent'[s] \in Nat
        /\ silent'[s] <= Expiry => silent[s] <= Expiry
        /\ SeenFirst(s)
    BY <1>1, <1>4 DEF ValidMessage, InvalidMessage, Live
  <2>2. ASSUME accepted'[s], silent[s] <= Expiry
        PROVE  /\ s[1] \in DOMAIN g /\ g[s[1]].frames = processed[s]
               /\ g[s[1]].age <= silent[s]
    <3>1. CASE stream[s] = "open"
      <4>1. g = register(s[1]) /\ s[1] \in DOMAIN register(s[1]) /\ Fresh(s)
        BY <1>1, <2>1, <2>2, <3>1 DEF Seen, SeenFirst, KeepOf
      <4>2. QED
        BY <1>1, <4>1, RegisterEntry DEF Fresh
    <3>2. CASE stream[s] = "registered"
      <4>1. g = sessions /\ Kept(s)
        BY <2>1, <2>2, <3>2 DEF Seen, SeenFirst, KeepOf
      <4>2. QED
        BY <4>1 DEF Kept, Registered
    <3>3. QED
      BY <2>1, <3>1, <3>2
  <2> HIDE DEF g
  <2>3. CASE ValidMessage(s)
    <3>1. /\ sessions' = Beat(g, s[1]) /\ processed'[s] = processed[s] + 1
      BY <1>1, <2>3 DEF ValidMessage, g
    <3>2. ASSUME accepted'[s], silent'[s] <= Expiry PROVE Kept(s)'
      <4>1. s[1] \in DOMAIN g /\ g[s[1]].frames = processed[s]
        BY <2>1, <2>2, <3>2
      <4>2. /\ s[1] \in DOMAIN sessions' /\ sessions'[s[1]].age = 0
            /\ sessions'[s[1]].frames = g[s[1]].frames + 1
        BY <3>1, <4>1, BeatEntry
      <4>3. QED
        BY <2>1, <3>1, <4>1, <4>2 DEF Kept, Registered
    <3>3. QED
      BY <2>1, <3>2 DEF KeepOf
  <2>4. CASE InvalidMessage(s)
    <3>1. sessions' = g /\ processed' = processed /\ silent' = silent
      BY <2>4 DEF InvalidMessage, g
    <3>2. ASSUME accepted'[s], silent'[s] <= Expiry PROVE Kept(s)'
      BY <2>2, <3>1, <3>2 DEF Kept, Registered
    <3>3. QED
      BY <2>1, <3>2 DEF KeepOf
  <2>5. QED
    BY <1>4, <2>3, <2>4
<1>5. QED
  BY <1>2, <1>3, <1>4

\* A step of another stream, of another device where this one is alone.
LEMMA OtherStream ==
    ASSUME IInv, NEW s \in Streams, KeepOf(s), NEW t \in Streams, t # s, Sole(s), Sole(s)',
           OpenStream(t) \/ EndStream(t) \/ ValidMessage(t) \/ InvalidMessage(t)
           \/ LimitedMessage(t)
    PROVE  KeepOf(s)'
<1>1. /\ DOMAIN stream = Streams /\ DOMAIN accepted = Streams
      /\ DOMAIN processed = Streams /\ DOMAIN silent = Streams
  BY StreamTypes
<1>2. t[1] # s[1]
  <2>1. SUFFICES ASSUME t[1] = s[1] PROVE FALSE
    OBVIOUS
  <2>2. stream[t] = "new"
    BY <2>1, SoleStream
  <2>3. stream'[t] = "new"
    <3>1. /\ t = <<t[1], t[2]>> /\ t[2] \in 1..MaxStreams[t[1]] /\ s = <<s[1], s[2]>>
      BY DEF Streams
    <3>2. QED
      BY <2>1, <3>1 DEF Sole
  <2>4. CASE OpenStream(t)
    BY <1>1, <2>3, <2>4 DEF OpenStream
  <2>5. CASE EndStream(t) \/ ValidMessage(t) \/ InvalidMessage(t) \/ LimitedMessage(t)
    BY <2>2, <2>5 DEF EndStream, ValidMessage, InvalidMessage, LimitedMessage, Live
  <2>6. QED
    BY <2>4, <2>5
<1>3. /\ stream'[s] = stream[s] /\ accepted'[s] = accepted[s]
      /\ silent'[s] = silent[s] /\ processed'[s] = processed[s]
  BY <1>1 DEF OpenStream, EndStream, ValidMessage, InvalidMessage, LimitedMessage,
              SeenFirst, Forget
<1>4. SameEntry(sessions, Seen(t), s[1]) /\ SameEntry(sessions, sessions, s[1])
  BY <1>2, OtherEntry DEF Seen, SameEntry
<1>5. /\ SameEntry(Seen(t), Beat(Seen(t), t[1]), s[1])
      /\ SameEntry(Seen(t), unregister(Seen(t), t[1]), s[1])
      /\ SameEntry(sessions, unregister(sessions, t[1]), s[1])
  BY <1>2, OtherEntry
<1>6. \/ sessions' = sessions \/ sessions' = Seen(t) \/ sessions' = Beat(Seen(t), t[1])
      \/ sessions' = unregister(Seen(t), t[1]) \/ sessions' = unregister(sessions, t[1])
  BY DEF OpenStream, EndStream, ValidMessage, InvalidMessage, LimitedMessage
<1>7. SameEntry(sessions, sessions', s[1])
  BY <1>4, <1>5, <1>6 DEF SameEntry
<1>8. QED
  BY <1>3, <1>7, OtherDevice

LEMMA RegisterKeeps ==
    ASSUME IInv, NEW s \in Streams, KeepOf(s), NEW d \in Devices, RegisterDevice(d)
    PROVE  KeepOf(s)'
<1>1. sessions' = register(d) /\ UNCHANGED <<stream, accepted, processed, silent>>
  BY DEF RegisterDevice
<1>2. CASE d # s[1]
  BY <1>1, <1>2, OtherEntry, OtherDevice
<1>3. CASE d = s[1]
  <2>1. silent[s] \in Nat
    BY StreamTypes
  <2>2. /\ Registered(d) => d \in DOMAIN sessions'
        /\ d \in DOMAIN sessions' =>
              /\ sessions'[d].age = 0
              /\ sessions'[d].frames = (IF Registered(d) THEN sessions[d].frames ELSE 0)
    BY <1>1, RegisterEntry
  <2>3. Fresh(s) => Fresh(s)'
    BY <1>1, <1>3, <2>2 DEF Fresh, Registered
  <2>4. Kept(s) => Kept(s)'
    BY <1>1, <1>3, <2>1, <2>2 DEF Kept, Registered
  <2>5. QED
    BY <1>1, <2>3, <2>4 DEF KeepOf
<1>4. QED
  BY <1>2, <1>3

\* Silence and session age together.
LEMMA TickKeeps ==
    ASSUME IInv, NEW s \in Streams, KeepOf(s), Tick
    PROVE  KeepOf(s)'
<1>1. /\ sessions' = [d \in DOMAIN sessions |-> [sessions[d] EXCEPT !.age = @ + 1]]
      /\ UNCHANGED <<stream, accepted, processed>>
      /\ silent'[s] = (IF stream[s] = "registered" /\ silent[s] <= Expiry
                       THEN silent[s] + 1 ELSE silent[s])
  BY DEF Tick
<1>2. silent[s] \in Nat /\ Expiry \in Nat
  BY StreamTypes
<1>3. DOMAIN sessions' = DOMAIN sessions
  BY <1>1
<1>4. ASSUME Registered(s[1])
      PROVE  /\ sessions'[s[1]].age = sessions[s[1]].age + 1 /\ sessions[s[1]].age \in Nat
             /\ sessions'[s[1]].frames = sessions[s[1]].frames
  <2>1. sessions[s[1]] \in Session
    BY <1>4 DEF IInv, TypeOK, Registered
  <2>2. sessions'[s[1]] = [sessions[s[1]] EXCEPT !.age = @ + 1]
    BY <1>1, <1>4 DEF Registered
  <2>3. QED
    BY <2>1, <2>2 DEF Session
<1>5. Fresh(s) => Fresh(s)'
  BY <1>1, <1>3, <1>4 DEF Fresh, Registered
<1>6. ASSUME stream[s] = "registered", accepted[s], silent'[s] <= Expiry PROVE Kept(s)'
  <2>1. silent[s] <= Expiry /\ silent'[s] = silent[s] + 1
    BY <1>1, <1>2, <1>6
  <2>2. Kept(s)
    BY <1>6, <2>1 DEF KeepOf
  <2>3. /\ Registered(s[1]) /\ sessions[s[1]].frames = processed[s]
        /\ sessions[s[1]].age <= silent[s]
    BY <2>2 DEF Kept
  <2>4. /\ sessions'[s[1]].age <= silent'[s]
        /\ sessions'[s[1]].frames = processed'[s]
    BY <1>1, <1>2, <1>4, <2>1, <2>3
  <2>5. QED
    BY <1>3, <2>3, <2>4 DEF Kept, Registered
<1>7. QED
  BY <1>1, <1>5, <1>6 DEF KeepOf

\* The cleanup removes a session only if its stream has been silent too.
LEMMA CleanupKeeps ==
    ASSUME IInv, NEW s \in Streams, KeepOf(s), Cleanup
    PROVE  KeepOf(s)'
<1>1. sessions' = cleanup_expired /\ UNCHANGED <<stream, accepted, processed, silent>>
  BY DEF Cleanup
<1>2. silent[s] \in Nat /\ Expiry \in Nat
  BY StreamTypes
<1>3. /\ s[1] \in DOMAIN sessions' => Registered(s[1])
      /\ Registered(s[1]) /\ sessions[s[1]].age <= Expiry => s[1] \in DOMAIN sessions'
  BY <1>1 DEF cleanup_expired, Registered
<1>4. ASSUME s[1] \in DOMAIN sessions'
      PROVE  /\ sessions'[s[1]].frames = sessions[s[1]].frames
             /\ sessions'[s[1]].age = sessions[s[1]].age
  <2>1. sessions[s[1]] \in Session
    BY <1>3, <1>4 DEF IInv, TypeOK, Registered
  <2>2. \/ sessions'[s[1]] = sessions[s[1]]
        \/ sessions'[s[1]] = [sessions[s[1]] EXCEPT !.status = "stale"]
    BY <1>1, <1>4 DEF cleanup_expired
  <2>3. QED
    BY <2>1, <2>2 DEF Session
<1>5. Fresh(s) => Fresh(s)'
  BY <1>1, <1>3, <1>4 DEF Fresh, Registered
<1>6. ASSUME silent[s] <= Expiry, Kept(s) PROVE Kept(s)'
  <2>1. Registered(s[1]) /\ sessions[s[1]] \in Session
    BY <1>6 DEF Kept, IInv, TypeOK, Registered
  <2>2. sessions[s[1]].age <= Expiry
    BY <1>2, <1>6, <2>1, SessionRecord DEF Kept
  <2>3. QED
    BY <1>1, <1>3, <1>4, <1>6, <2>1, <2>2 DEF Kept, Registered
<1>7. QED
  BY <1>1, <1>5, <1>6 DEF KeepOf

LEMMA NextKeep == IInv /\ KeepInv /\ [Next]_vars => KeepInv'
<1> SUFFICES ASSUME IInv, KeepInv, [Next]_vars, NEW s \in Streams, Sole(s)'
             PROVE  KeepOf(s)'
  BY DEF KeepInv, KeepOf
<1>1. Sole(s) /\ KeepOf(s)
  BY StaysSole DEF KeepInv, KeepOf
<1>2. CASE UNCHANGED vars
  BY <1>1, <1>2 DEF vars, KeepOf, Fresh, Kept, Registered
<1>3. ASSUME NEW t \in Streams,
             OpenStream(t) \/ EndStream(t) \/ ValidMessage(t) \/ InvalidMessage(t)
             \/ LimitedMessage(t)
      PROVE  KeepOf(s)'
  <2>1. CASE t = s
    BY <1>1, <1>3, <2>1, OwnStream
  <2>2. CASE t # s
    BY <1>1, <1>3, <2>2, OtherStream
  <2>3. QED
    BY <2>1, <2>2
<1>4. QED
  BY <1>1, <1>2, <1>3, RegisterKeeps, TickKeeps, CleanupKeeps DEF Next

\* A device whose only stream was accepted keeps its session, with all its
\* frames counted, as long as it is not silent for longer than the expiry.
THEOREM SessionKept == Spec => []StreamKeepsSession
<1>1. Init => KeepInv
  BY DEF Init, KeepInv, Fresh, Registered
<1>2. KeepInv => StreamKeepsSession
  BY DEF KeepInv, Kept, Sole, StreamKeepsSession
<1>3. QED
  BY <1>1, <1>2, InitIInv, NextIInv, NextKeep, PTL DEF Spec
=============================================================================
