--------------------------- MODULE DeviceSessions ---------------------------
(***************************************************************************)
(* The sessions of the edge devices on the central server:                 *)
(* DeviceSessionManager (mac-central/src/communication/device_session.py), *)
(* its callers StreamDetectionResults and RegisterDevice (grpc_server.py), *)
(* and the cleanup loop of main.py.                                        *)
(*                                                                         *)
(* A stream is <<d, n>>, the n-th detection stream of device d: a device   *)
(* that reconnects opens its next stream while the handler of the previous *)
(* one may not have noticed yet that the connection is gone.  A handler    *)
(* deals with a message without awaiting anything, hence in one action.    *)
(* Time is counted in ticks; whether the rate limiter lets a message pass  *)
(* is left open.                                                           *)
(***************************************************************************)
EXTENDS Integers, FiniteSets, Functions

CONSTANTS Devices,
          MaxDevices,        \* max_devices
          Expiry,            \* expiry_timeout, in ticks
          Stale,             \* twice heartbeat_interval, in ticks
          CleanupInterval,   \* interval of _session_cleanup_loop, in ticks
          MaxStreams,        \* bound: streams of each device
          MaxFrames          \* bound: valid messages of a stream

ASSUME SessionConstants ==
    /\ IsFiniteSet(Devices)
    /\ MaxDevices \in Nat \ {0}
    /\ Expiry \in Nat \ {0} /\ Stale \in Nat \ {0} /\ CleanupInterval \in Nat \ {0}
    /\ MaxStreams \in [Devices -> Nat] /\ MaxFrames \in Nat

VARIABLES
    sessions,   \* _sessions, a function on the devices that have one
    stream,     \* per stream: "new", "open", "registered" (device_id is set), "ended"
    sinceCleanup,
    \* history, of the streams that have not ended
    accepted,   \* what register answered to each stream
    processed,  \* per stream: valid messages processed
    silent      \* per stream: ticks without a valid message since it registered,
                \* up to Expiry + 1, where it stays

vars == <<sessions, stream, sinceCleanup, accepted, processed, silent>>

Streams == UNION {{d} \X (1..MaxStreams[d]) : d \in Devices}
Session == [age : Nat,      \* ticks since last_heartbeat
            frames : Nat,   \* frames_received
            status : {"connected", "stale"}]

Init ==
    /\ sessions = <<>>
    /\ stream = [s \in Streams |-> "new"]
    /\ sinceCleanup = 0
    /\ accepted = [s \in Streams |-> FALSE]
    /\ processed = [s \in Streams |-> 0]
    /\ silent = [s \in Streams |-> 0]

Registered(d) == d \in DOMAIN sessions
With(f, d, session) == [e \in DOMAIN f \cup {d} |-> IF e = d THEN session ELSE f[e]]

-----------------------------------------------------------------------------
(* DeviceSessionManager, as operators on _sessions. *)

\* Fault: the limit is off by one.
RegisterOneMore(d) ==
    CASE Registered(d) ->
            With(sessions, d, [sessions[d] EXCEPT !.age = 0, !.status = "connected"])
      [] ~Registered(d) /\ Cardinality(DOMAIN sessions) <= MaxDevices ->
            With(sessions, d, [age |-> 0, frames |-> 0, status |-> "connected"])
      [] OTHER -> sessions

register(d) ==
    CASE Registered(d) ->
            With(sessions, d, [sessions[d] EXCEPT !.age = 0, !.status = "connected"])
      [] ~Registered(d) /\ Cardinality(DOMAIN sessions) < MaxDevices ->
            With(sessions, d, [age |-> 0, frames |-> 0, status |-> "connected"])
      [] OTHER -> sessions

\* Faults: the heartbeat makes a session, or leaves the time as it is.
BeatCreates(f, d) ==
    IF d \in DOMAIN f
    THEN With(f, d, [age |-> 0, frames |-> f[d].frames + 1, status |-> "connected"])
    ELSE With(f, d, [age |-> 0, status |-> "connected"])
BeatNoTime(f, d) ==
    IF d \in DOMAIN f
    THEN With(f, d, [f[d] EXCEPT !.frames = @ + 1, !.status = "connected"])
    ELSE f

\* heartbeat and increment_frames, which are called together.
Beat(f, d) ==
    IF d \in DOMAIN f
    THEN With(f, d, [age |-> 0, frames |-> f[d].frames + 1, status |-> "connected"])
    ELSE f

unregister(f, d) == Restrict(f, DOMAIN f \ {d})

\* Fault: what has expired is marked and kept.
CleanupMarks ==
    [d \in DOMAIN sessions |->
        IF sessions[d].age > Stale THEN [sessions[d] EXCEPT !.status = "stale"]
                                   ELSE sessions[d]]

cleanup_expired ==
    [d \in {e \in DOMAIN sessions : sessions[e].age <= Expiry} |->
        IF sessions[d].age > Stale THEN [sessions[d] EXCEPT !.status = "stale"]
                                   ELSE sessions[d]]

-----------------------------------------------------------------------------
(* The callers. *)

\* The device opens its streams one after the other; the server may still be
\* serving the previous one.
OpenStream(s) ==
    /\ stream[s] = "new"
    /\ \A n \in 1..(s[2] - 1) : stream[<<s[1], n>>] # "new"
    /\ stream' = [stream EXCEPT ![s] = "open"]
    /\ UNCHANGED <<sessions, sinceCleanup, accepted, processed, silent>>

Forget(s) ==
    /\ accepted' = [accepted EXCEPT ![s] = FALSE]
    /\ processed' = [processed EXCEPT ![s] = 0]
    /\ silent' = [silent EXCEPT ![s] = 0]

Live(s) == stream[s] \in {"open", "registered"}

\* The sessions once a message of the stream has named its device: the first
\* one registers it, and the answer of register is not looked at.
Seen(s) == IF stream[s] = "open" THEN register(s[1]) ELSE sessions
SeenFirst(s) ==
    accepted' = IF stream[s] = "open"
                THEN [accepted EXCEPT ![s] = s[1] \in DOMAIN register(s[1])] ELSE accepted

\* A message that passes the rate limiter and the validation ...
ValidMessage(s) ==
    /\ Live(s) /\ processed[s] < MaxFrames
    /\ SeenFirst(s)
    /\ sessions' = Beat(Seen(s), s[1])
    /\ stream' = [stream EXCEPT ![s] = "registered"]
    /\ processed' = [processed EXCEPT ![s] = @ + 1]
    /\ silent' = [silent EXCEPT ![s] = IF @ <= Expiry THEN 0 ELSE @]
    /\ UNCHANGED sinceCleanup

\* ... one that is not valid (but names its device), and is skipped ...
InvalidMessage(s) ==
    /\ Live(s)
    /\ SeenFirst(s)
    /\ sessions' = Seen(s)
    /\ stream' = [stream EXCEPT ![s] = "registered"]
    /\ UNCHANGED <<sinceCleanup, processed, silent>>

\* ... and one over the rate limit, which aborts the stream.
LimitedMessage(s) ==
    /\ Live(s)
    /\ sessions' = unregister(Seen(s), s[1])
    /\ stream' = [stream EXCEPT ![s] = "ended"]
    /\ Forget(s)
    /\ UNCHANGED sinceCleanup

\* The device closes the stream, or the server notices that it is broken.
EndStream(s) ==
    /\ Live(s)
    /\ sessions' = IF stream[s] = "registered" THEN unregister(sessions, s[1]) ELSE sessions
    /\ stream' = [stream EXCEPT ![s] = "ended"]
    /\ Forget(s)
    /\ UNCHANGED sinceCleanup

RegisterDevice(d) ==
    /\ sessions' = register(d)
    /\ UNCHANGED <<stream, sinceCleanup, accepted, processed, silent>>

-----------------------------------------------------------------------------
(* Time, and the cleanup loop, which runs when it is due. *)

Tick ==
    /\ sinceCleanup < CleanupInterval
    /\ sinceCleanup' = sinceCleanup + 1
    /\ sessions' = [d \in DOMAIN sessions |-> [sessions[d] EXCEPT !.age = @ + 1]]
    /\ silent' = [s \in Streams |->
                     IF stream[s] = "registered" /\ silent[s] <= Expiry
                     THEN silent[s] + 1 ELSE silent[s]]
    /\ UNCHANGED <<stream, accepted, processed>>

Cleanup ==
    /\ sinceCleanup = CleanupInterval
    /\ sinceCleanup' = 0
    /\ sessions' = cleanup_expired
    /\ UNCHANGED <<stream, accepted, processed, silent>>

Next ==
    \/ \E s \in Streams : \/ OpenStream(s) \/ EndStream(s)
                          \/ ValidMessage(s) \/ InvalidMessage(s) \/ LimitedMessage(s)
    \/ \E d \in Devices : RegisterDevice(d)
    \/ Tick \/ Cleanup

Spec == Init /\ [][Next]_vars

-----------------------------------------------------------------------------
TypeOK ==
    /\ DOMAIN sessions \subseteq Devices
    /\ \A d \in DOMAIN sessions : sessions[d] \in Session
    /\ stream \in [Streams -> {"new", "open", "registered", "ended"}]
    /\ sinceCleanup \in 0..CleanupInterval
    /\ accepted \in [Streams -> BOOLEAN] /\ processed \in [Streams -> Nat]
    /\ silent \in [Streams -> 0..(Expiry + 1)]

\* There are never more sessions than max_devices, whoever registers.
SessionLimit == Cardinality(DOMAIN sessions) <= MaxDevices

\* The session of a device that has fallen silent is gone soon after it
\* expires, whatever the phase of the cleanup loop.
SilentSessionsExpire ==
    \A d \in DOMAIN sessions : sessions[d].age <= Expiry + CleanupInterval

\* A device that has opened one stream only, was accepted, and has not been
\* silent for longer than Expiry, has a session that counts its frames.
StreamKeepsSession ==
    \A s \in Streams :
       /\ stream[s] = "registered" /\ accepted[s] /\ silent[s] <= Expiry
       /\ \A n \in 1..MaxStreams[s[1]] : n # s[2] => stream[<<s[1], n>>] = "new"
       => Registered(s[1]) /\ sessions[s[1]].frames = processed[s]

\* "List all active device sessions." (device_session.py:118): a device whose
\* stream was accepted and has not fallen silent is among them.
ActiveDevicesListed ==
    \A s \in Streams :
       stream[s] = "registered" /\ accepted[s] /\ silent[s] <= Expiry => Registered(s[1])
=============================================================================
