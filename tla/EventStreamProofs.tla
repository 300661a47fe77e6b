-------------------------- MODULE EventStreamProofs --------------------------
(***************************************************************************)
(* The event stream and the end of an edge process, for any devices and    *)
(* any number of commands.                                                 *)
(*                                                                         *)
(* That the stream outlives its reader is not inductive: destroying it     *)
(* depends on the join two steps before, and on there being no reader yet  *)
(* where a process starts.  Fits says so for one process.  The order of    *)
(* the commands executed depends on that of all on their way: OrderInv.    *)
(***************************************************************************)
EXTENDS EventStream, SequenceTheorems, TLAPS

Running == {"check", "read", "handle", "leave"}

Fits(e) ==
    /\ e.pipeline = "start" => e.reader = "none"
    /\ e.pipeline \in {"reset", "stopped"} => e.reader \in {"none", "exited"}
    /\ e.reader \in Running => e.stream # "none"
    /\ e.reader = "handle" => e.command \in Commands

Handling == [serving : BOOLEAN, taken : Commands \cup {NoCommand}]

IInv == StreamTypeOK /\ \A d \in Devices : Fits(edge[d])

-----------------------------------------------------------------------------
LEMMA Process ==
    ASSUME IInv, NEW d \in Devices
    PROVE  edge[d] \in Edge /\ Fits(edge[d])
BY DEF IInv, StreamTypeOK, Handling

LEMMA Handlers ==
    ASSUME NEW h \in Handling
    PROVE  /\ \A b \in BOOLEAN : [h EXCEPT !.serving = b] \in Handling
           /\ \A c \in Commands \cup {NoCommand} : [h EXCEPT !.taken = c] \in Handling
           /\ [serving |-> FALSE, taken |-> NoCommand] \in Handling
           /\ h.taken # NoCommand => h.taken \in Commands
BY DEF Handling

\* Steps of the main and the pipeline thread that only change the process.
LEMMA ThreadSteps ==
    ASSUME IInv, NEW d \in Devices,
           \/ Signal(d) \/ Main(d) \/ SourceFails(d) \/ LoseConnection(d)
           \/ LeaveLoop(d) \/ Deactivate(d) \/ WritesDone(d) \/ Join(d)
    PROVE  IInv'
<1>1. edge[d] \in Edge /\ Fits(edge[d]) /\ edge \in [Devices -> Edge]
  BY Process DEF IInv, StreamTypeOK, Handling
<1>2. edge' \in [Devices -> Edge] /\ \A x \in Devices : Fits(edge'[x])
  <2>1. CASE Signal(d)
    BY <1>1, <2>1 DEF Signal, Edge, Fits, IInv
  <2>2. CASE MainStop(d)
    BY <1>1, <2>2 DEF MainStop, Edge, Fits, IInv
  <2>3. CASE MainExit(d)
    BY <1>1, <2>3 DEF MainExit, Edge, Fits, IInv
  <2>4. CASE SourceFails(d)
    BY <1>1, <2>4 DEF SourceFails, Edge, Fits, IInv
  <2>5. CASE LoseConnection(d)
    BY <1>1, <2>5 DEF LoseConnection, Edge, Fits, IInv
  <2>6. CASE LeaveLoop(d)
    BY <1>1, <2>6 DEF LeaveLoop, Edge, Fits, IInv
  <2>7. CASE Deactivate(d)
    BY <1>1, <2>7 DEF Deactivate, Edge, Fits, IInv
  <2>8. CASE WritesDone(d)
    BY <1>1, <2>8 DEF WritesDone, Edge, Fits, IInv
  <2>9. CASE Join(d)
    BY <1>1, <2>9 DEF Join, Edge, Fits, IInv
  <2>10. QED
    BY <2>1, <2>2, <2>3, <2>4, <2>5, <2>6, <2>7, <2>8, <2>9 DEF Main
<1>3. UNCHANGED <<serverUp, handler, pending, down, sent, executed>>
  BY DEF Signal, Main, MainStop, MainExit, SourceFails, LoseConnection, LeaveLoop,
         Deactivate, WritesDone, Join, central, history
<1>4. QED
  BY <1>2, <1>3 DEF IInv, StreamTypeOK, Handling

\* The event stream is opened, and its reader started with it.
LEMMA Opening ==
    ASSUME IInv, NEW d \in Devices, StartEventStream(d)
    PROVE  IInv'
<1>1. edge[d] \in Edge /\ Fits(edge[d]) /\ edge \in [Devices -> Edge]
  BY Process DEF IInv, StreamTypeOK, Handling
<1>2. edge' \in [Devices -> Edge] /\ \A x \in Devices : Fits(edge'[x])
  <2>1. CASE ~edge[d].connected
    BY <1>1, <2>1 DEF StartEventStream, Edge, Fits, IInv
  <2>2. CASE edge[d].connected
    BY <1>1, <2>2 DEF StartEventStream, Edge, Fits, Running, IInv
  <2>3. QED
    BY <2>1, <2>2
<1>3. handler' \in [Devices -> Handling]
  <2>1. handler \in [Devices -> Handling] /\ serverUp \in BOOLEAN
    BY DEF IInv, StreamTypeOK, Handling
  <2>2. [handler[d] EXCEPT !.serving = serverUp] \in Handling
    BY <2>1, Handlers
  <2>3. QED
    BY <2>1, <2>2 DEF StartEventStream
<1>4. UNCHANGED <<serverUp, pending, down, sent, executed>>
  BY DEF StartEventStream, history
<1>5. QED
  BY <1>2, <1>3, <1>4 DEF IInv, StreamTypeOK, Handling

\* The stream is destroyed, after the join.
LEMMA Destroying ==
    ASSUME IInv, NEW d \in Devices, Reset(d)
    PROVE  IInv'
<1>1. edge[d] \in Edge /\ Fits(edge[d]) /\ edge \in [Devices -> Edge]
  BY Process DEF IInv, StreamTypeOK, Handling
<1>2. edge' \in [Devices -> Edge] /\ \A x \in Devices : Fits(edge'[x])
  BY <1>1 DEF Reset, Edge, Fits, Running, IInv
<1>3. down' \in [Devices -> Seq(Commands)]
  BY DEF Reset, IInv, StreamTypeOK, Handling
<1>4. UNCHANGED <<serverUp, handler, pending, sent, executed>>
  BY DEF Reset, central, history
<1>5. QED
  BY <1>2, <1>3, <1>4 DEF IInv, StreamTypeOK, Handling

LEMMA ReaderSteps ==
    ASSUME IInv, NEW d \in Devices, Reader(d)
    PROVE  IInv'
<1>1. edge[d] \in Edge /\ Fits(edge[d]) /\ edge \in [Devices -> Edge]
  BY Process DEF IInv, StreamTypeOK, Handling
<1>2. /\ down \in [Devices -> Seq(Commands)] /\ down[d] \in Seq(Commands)
      /\ executed \in [Devices -> Seq(Commands)] /\ executed[d] \in Seq(Commands)
  BY DEF IInv, StreamTypeOK, Handling
<1>3. down[d] # <<>> => Head(down[d]) \in Commands /\ Tail(down[d]) \in Seq(Commands)
  BY <1>2, HeadTailProperties
<1>4. edge' \in [Devices -> Edge] /\ \A x \in Devices : Fits(edge'[x])
  <2>1. CASE ReaderCheck(d)
    BY <1>1, <2>1 DEF ReaderCheck, Edge, Fits, Running, IInv
  <2>2. CASE Read(d)
    BY <1>1, <1>3, <2>2 DEF Read, Edge, Fits, Running, IInv
  <2>3. CASE HandleCommand(d)
    BY <1>1, <2>3 DEF HandleCommand, Edge, Fits, Running, IInv
  <2>4. CASE ReaderLeave(d)
    BY <1>1, <2>4 DEF ReaderLeave, Edge, Fits, Running, IInv
  <2>5. QED
    BY <2>1, <2>2, <2>3, <2>4 DEF Reader
<1>5. down' \in [Devices -> Seq(Commands)]
  BY <1>2, <1>3 DEF Reader, ReaderCheck, Read, HandleCommand, ReaderLeave
<1>6. executed' \in [Devices -> Seq(Commands)]
  <2>1. CASE HandleCommand(d)
    <3>1. edge[d].command \in Commands
      BY <1>1, <2>1 DEF HandleCommand, Fits
    <3>2. Append(executed[d], edge[d].command) \in Seq(Commands)
      BY <1>2, <3>1, AppendProperties
    <3>3. QED
      BY <1>2, <2>1, <3>2 DEF HandleCommand
  <2>2. CASE ~HandleCommand(d)
    BY <1>2, <2>2 DEF Reader, ReaderCheck, Read, ReaderLeave, history
  <2>3. QED
    BY <2>1, <2>2
<1>7. UNCHANGED <<serverUp, handler, pending, sent>>
  BY DEF Reader, ReaderCheck, Read, HandleCommand, ReaderLeave, central, history
<1>8. QED
  BY <1>4, <1>5, <1>6, <1>7 DEF IInv, StreamTypeOK, Handling

LEMMA HandlerSteps ==
    ASSUME IInv, NEW d \in Devices, Take(d) \/ Yield(d) \/ Cancelled(d)
    PROVE  IInv'
<1>1. /\ handler \in [Devices -> Handling]
      /\ pending \in Seq(Commands) /\ down \in [Devices -> Seq(Commands)]
  BY DEF IInv, StreamTypeOK, Handling
<1>2. pending # <<>> => Head(pending) \in Commands /\ Tail(pending) \in Seq(Commands)
  BY <1>1, HeadTailProperties
<1>3. handler[d].taken # NoCommand
        => Append(down[d], handler[d].taken) \in Seq(Commands)
  BY <1>1, Handlers, AppendProperties
<1>4. handler' \in [Devices -> Handling]
  <2>1. /\ pending # <<>> => [handler[d] EXCEPT !.taken = Head(pending)] \in Handling
        /\ [handler[d] EXCEPT !.taken = NoCommand] \in Handling
        /\ [serving |-> FALSE, taken |-> NoCommand] \in Handling
    BY <1>1, <1>2, Handlers
  <2>2. QED
    BY <1>1, <2>1 DEF Take, Yield, Cancelled
<1>5. pending' \in Seq(Commands)
  BY <1>1, <1>2 DEF Take, Yield, Cancelled
<1>6. down' \in [Devices -> Seq(Commands)]
  BY <1>1, <1>3 DEF Take, Yield, Cancelled
<1>7. UNCHANGED <<edge, serverUp, sent, executed>>
  BY DEF Take, Yield, Cancelled, history
<1>8. QED
  BY <1>4, <1>5, <1>6, <1>7 DEF IInv, StreamTypeOK, Handling

\* A cut leaves the streams where they are, broken.
LEMMA Cuts ==
    ASSUME IInv, NEW D, Cut(D)
    PROVE  /\ edge' \in [Devices -> Edge] /\ \A x \in Devices : Fits(edge'[x])
           /\ down' \in [Devices -> Seq(Commands)]
<1>1. ASSUME NEW x \in Devices PROVE edge'[x] \in Edge /\ Fits(edge'[x])
  <2>1. edge[x] \in Edge /\ Fits(edge[x])
    BY Process
  <2>2. CASE edge'[x] = edge[x]
    BY <2>1, <2>2
  <2>3. CASE edge'[x] = [edge[x] EXCEPT !.stream = "broken"]
    BY <2>1, <2>3 DEF Edge, Fits, Running
  <2>4. QED
    BY <2>2, <2>3 DEF Cut
<1>2. edge' \in [Devices -> Edge]
  BY <1>1 DEF Cut
<1>3. down' \in [Devices -> Seq(Commands)]
  BY DEF Cut, IInv, StreamTypeOK, Handling
<1>4. QED
  BY <1>1, <1>2, <1>3

LEMMA OutsideSteps ==
    ASSUME IInv,
           \/ \E d \in Devices : BreakStream(d)
           \/ \E kind \in {"SHUTDOWN", "other"} : send_command(kind)
           \/ ServerStop
    PROVE  IInv'
<1>1. CASE \E d \in Devices : BreakStream(d)
  BY <1>1, Cuts DEF BreakStream, central, history, IInv, StreamTypeOK, Handling
<1>2. ASSUME NEW kind \in {"SHUTDOWN", "other"}, send_command(kind) PROVE IInv'
  <2>1. [id |-> sent + 1, kind |-> kind] \in Commands /\ sent' \in Nat
    BY <1>2, EventStreamConstants DEF send_command, Commands, IInv, StreamTypeOK, Handling
  <2>2. pending' \in Seq(Commands)
    BY <1>2, <2>1, AppendProperties DEF send_command, IInv, StreamTypeOK, Handling
  <2>3. UNCHANGED <<edge, serverUp, handler, down, executed>>
    BY <1>2 DEF send_command
  <2>4. QED
    BY <2>1, <2>2, <2>3 DEF IInv, StreamTypeOK, Handling
<1>3. CASE ServerStop
  <2>1. /\ edge' \in [Devices -> Edge] /\ \A x \in Devices : Fits(edge'[x])
        /\ down' \in [Devices -> Seq(Commands)]
    BY <1>3, Cuts DEF ServerStop
  <2>2. handler' \in [Devices -> Handling]
    <3>1. [serving |-> FALSE, taken |-> NoCommand] \in Handling
      BY DEF Handling
    <3>2. QED
      BY <1>3, <3>1 DEF ServerStop
  <2>3. sent' \in Nat /\ executed' \in [Devices -> Seq(Commands)]
    BY <1>3 DEF ServerStop, history, IInv, StreamTypeOK
  <2>4. pending' \in Seq(Commands) /\ serverUp' \in BOOLEAN
    <3>1. pending' = <<>> /\ serverUp' = FALSE
      BY <1>3 DEF ServerStop
    <3>2. QED
      BY <3>1, EmptySeq
  <2>5. QED
    BY <2>1, <2>2, <2>3, <2>4 DEF IInv, StreamTypeOK, Handling
<1>4. QED
  BY <1>1, <1>2, <1>3

-----------------------------------------------------------------------------
LEMMA Starting == StreamInit => IInv
<1>1. ASSUME StreamInit PROVE IInv
  <2>1. \A d \in Devices : edge[d] \in Edge /\ Fits(edge[d])
    <3>1. ASSUME NEW d \in Devices PROVE edge[d] \in Edge /\ Fits(edge[d])
      <4>1. PICK c \in BOOLEAN :
              edge[d] = [signalled |-> FALSE, main |-> "waiting", running |-> TRUE,
                         pipeline |-> "start", connected |-> c, active |-> FALSE,
                         stream |-> "none", reader |-> "none", command |-> NoCommand]
        BY <1>1 DEF StreamInit
      <4>2. edge[d] \in Edge
        BY <4>1 DEF Edge
      <4>3. Fits(edge[d])
        BY <4>1 DEF Fits, Running
      <4>4. QED
        BY <4>2, <4>3
    <3>2. QED
      BY <3>1
  <2>2. edge \in [Devices -> Edge]
    BY <1>1, <2>1 DEF StreamInit
  <2>3. StreamTypeOK
    <3>1. handler \in [Devices -> Handling]
      <4>1. [serving |-> FALSE, taken |-> NoCommand] \in Handling
        BY DEF Handling
      <4>2. QED
        BY <1>1, <4>1 DEF StreamInit
    <3>2. /\ pending \in Seq(Commands) /\ down \in [Devices -> Seq(Commands)]
          /\ executed \in [Devices -> Seq(Commands)]
      BY <1>1, EmptySeq DEF StreamInit
    <3>3. QED
      BY <1>1, <2>2, <3>1, <3>2 DEF StreamInit, StreamTypeOK, Handling
  <2>4. QED
    BY <2>1, <2>3 DEF IInv
<1>2. QED
  BY <1>1

LEMMA Stepping == IInv /\ [StreamNext]_streamVars => IInv'
<1>1. ASSUME IInv, StreamNext PROVE IInv'
  <2>1. ASSUME NEW d \in Devices,
               \/ Signal(d) \/ Main(d) \/ SourceFails(d) \/ StartEventStream(d)
               \/ LoseConnection(d) \/ LeaveLoop(d) \/ Stopping(d) \/ Reader(d)
               \/ Take(d) \/ Yield(d) \/ Cancelled(d) \/ BreakStream(d)
        PROVE  IInv'
    <3>1. CASE \/ Signal(d) \/ Main(d) \/ SourceFails(d) \/ LoseConnection(d)
               \/ LeaveLoop(d) \/ Deactivate(d) \/ WritesDone(d) \/ Join(d)
      BY <1>1, <3>1, ThreadSteps
    <3>2. CASE StartEventStream(d)
      BY <1>1, <3>2, Opening
    <3>3. CASE Reset(d)
      BY <1>1, <3>3, Destroying
    <3>4. CASE Reader(d)
      BY <1>1, <3>4, ReaderSteps
    <3>5. CASE Take(d) \/ Yield(d) \/ Cancelled(d)
      BY <1>1, <3>5, HandlerSteps
    <3>6. CASE BreakStream(d)
      BY <1>1, <3>6, OutsideSteps
    <3>7. QED
      BY <2>1, <3>1, <3>2, <3>3, <3>4, <3>5, <3>6 DEF Stopping
  <2>2. CASE (\E kind \in {"SHUTDOWN", "other"} : send_command(kind)) \/ ServerStop
    BY <1>1, <2>2, OutsideSteps
  <2>3. QED
    BY <1>1, <2>1, <2>2 DEF StreamNext
<1>2. ASSUME IInv, UNCHANGED streamVars PROVE IInv'
  BY <1>2 DEF streamVars, central, history, IInv, StreamTypeOK, Handling
<1>3. QED
  BY <1>1, <1>2

\* All values of the model are of their types; a command that is handled is one.
THEOREM TypeCorrect == StreamSpec => []StreamTypeOK
<1>1. IInv => StreamTypeOK
  BY DEF IInv
<1>2. QED
  BY Starting, Stepping, <1>1, PTL DEF StreamSpec

\* event_stream_ is destroyed only when no reader thread uses it.
THEOREM StreamOutlives == StreamSpec => []StreamOutlivesReader
<1>1. IInv => StreamOutlivesReader
  BY DEF IInv, Fits, Running, StreamOutlivesReader, ReaderRuns
<1>2. QED
  BY Starting, Stepping, <1>1, PTL DEF StreamSpec

\* No command calls back into a coordinator that has stopped.
THEOREM Quiet == StreamSpec => QuietOnceStopped
<1>1. IInv /\ [StreamNext]_streamVars
        => [\A d \in Devices : edge[d].pipeline = "stopped"
                => executed'[d] = executed[d]]_streamVars
  <2>1. ASSUME IInv, StreamNext, NEW d \in Devices, edge[d].pipeline = "stopped"
        PROVE  executed'[d] = executed[d]
    <3>1. edge[d].reader # "handle" /\ executed \in [Devices -> Seq(Commands)]
      BY <2>1 DEF IInv, Fits, StreamTypeOK
    <3>2. ASSUME NEW e \in Devices, HandleCommand(e) PROVE executed'[d] = executed[d]
      BY <3>1, <3>2 DEF HandleCommand
    <3>3. CASE UNCHANGED executed
      BY <3>3
    <3>4. (\E e \in Devices : HandleCommand(e)) \/ UNCHANGED executed
      BY <2>1 DEF StreamNext, Signal, Main, MainStop, MainExit, SourceFails,
           StartEventStream, LoseConnection, LeaveLoop, Stopping, Deactivate,
           WritesDone, Join, Reset, Reader, ReaderCheck, Read, ReaderLeave, Take,
           Yield, Cancelled, BreakStream, send_command, ServerStop, history
    <3>5. QED
      BY <3>2, <3>3, <3>4
  <2>2. QED
    BY <2>1 DEF streamVars
<1>2. QED
  BY Starting, Stepping, <1>1, PTL DEF StreamSpec, QuietOnceStopped

-----------------------------------------------------------------------------
(* The order of commands.  A command goes from the queue to a handler, the *)
(* wire, the hand of a reader, and the list of those executed; seen from a *)
(* device, what is farther on is older.                                    *)

Before(S, T) == \A i \in S, j \in T : i < j
Ids(s) == {s[i].id : i \in DOMAIN s}
Sorted(s) == \A i, j \in DOMAIN s : i < j => s[i].id < s[j].id

Hand(d) == IF edge[d].reader = "handle" THEN {edge[d].command.id} ELSE {}
Taken(d) == IF handler[d].taken # NoCommand THEN {handler[d].taken.id} ELSE {}
Own(d) == Ids(executed[d]) \cup Hand(d) \cup Ids(down[d]) \cup Taken(d)

Chain(E, H, D, T) == /\ Before(E, H \cup D \cup T)
                     /\ Before(H, D \cup T)
                     /\ Before(D, T)

Order(d) ==
    /\ Sorted(executed[d]) /\ Sorted(down[d])
    /\ Chain(Ids(executed[d]), Hand(d), Ids(down[d]), Taken(d))
    /\ Before(Own(d), Ids(pending))

OrderInv ==
    /\ Sorted(pending) /\ \A i \in Ids(pending) : i <= sent
    /\ \A d \in Devices : Order(d) /\ \A i \in Own(d) : i <= sent
    /\ \A d, e \in Devices : d # e => Own(d) \cap Own(e) = {}

LEMMA NoIds == Ids(<<>>) = {} /\ Sorted(<<>>)
BY DEF Ids, Sorted

LEMMA IdsAreNumbers ==
    ASSUME NEW s \in Seq(Commands)
    PROVE  Ids(s) \subseteq Nat
<1>1. \A i \in DOMAIN s : s[i] \in Commands
  BY ElementOfSeq, LenProperties
<1>2. \A c \in Commands : c.id \in Nat
  BY DEF Commands
<1>3. QED
  BY <1>1, <1>2 DEF Ids

LEMMA IdsOfAppend ==
    ASSUME NEW s \in Seq(Commands), NEW c \in Commands
    PROVE  /\ Ids(Append(s, c)) = Ids(s) \cup {c.id}
           /\ Sorted(s) /\ Before(Ids(s), {c.id}) => Sorted(Append(s, c))
<1>1. /\ Len(s) \in Nat /\ DOMAIN s = 1..Len(s) /\ DOMAIN Append(s, c) = 1..(Len(s) + 1)
      /\ \A i \in 1..Len(s) : Append(s, c)[i] = s[i]
      /\ Append(s, c)[Len(s) + 1] = c
  BY LenProperties, AppendProperties
<1>2. Ids(Append(s, c)) = Ids(s) \cup {c.id}
  BY <1>1 DEF Ids
<1>3. ASSUME Sorted(s), Before(Ids(s), {c.id}),
             NEW i \in DOMAIN Append(s, c), NEW j \in DOMAIN Append(s, c), i < j
      PROVE  Append(s, c)[i].id < Append(s, c)[j].id
  <2>1. i \in 1..Len(s) /\ s[i].id \in Ids(s)
    BY <1>1, <1>3 DEF Ids
  <2>2. CASE j \in 1..Len(s)
    BY <1>1, <1>3, <2>1, <2>2 DEF Sorted
  <2>3. CASE j = Len(s) + 1
    BY <1>1, <1>3, <2>1, <2>3 DEF Before
  <2>4. QED
    BY <1>1, <2>2, <2>3
<1>4. QED
  BY <1>2, <1>3 DEF Sorted

LEMMA IdsOfTail ==
    ASSUME NEW s \in Seq(Commands), s # <<>>
    PROVE  /\ Ids(s) = {Head(s).id} \cup Ids(Tail(s))
           /\ Sorted(s) => Sorted(Tail(s)) /\ Before({Head(s).id}, Ids(Tail(s)))
<1>1. /\ Len(s) \in Nat \ {0} /\ DOMAIN s = 1..Len(s)
      /\ DOMAIN Tail(s) = 1..(Len(s) - 1) /\ Head(s) = s[1]
      /\ \A i \in 1..(Len(s) - 1) : Tail(s)[i] = s[i + 1]
  BY HeadTailProperties, LenProperties, EmptySeq
<1>2. Ids(s) = {Head(s).id} \cup Ids(Tail(s))
  <2>1. ASSUME NEW i \in DOMAIN s PROVE s[i].id \in {Head(s).id} \cup Ids(Tail(s))
    <3>1. CASE i = 1
      BY <1>1, <3>1
    <3>2. CASE i # 1
      <4>1. i - 1 \in DOMAIN Tail(s) /\ Tail(s)[i - 1] = s[i]
        BY <1>1, <3>2
      <4>2. QED
        BY <4>1 DEF Ids
    <3>3. QED
      BY <3>1, <3>2
  <2>2. ASSUME NEW i \in DOMAIN Tail(s) PROVE Tail(s)[i].id \in Ids(s)
    <3>1. i + 1 \in DOMAIN s /\ Tail(s)[i] = s[i + 1]
      BY <1>1
    <3>2. QED
      BY <3>1 DEF Ids
  <2>3. Head(s).id \in Ids(s)
    <3>1. 1 \in DOMAIN s
      BY <1>1
    <3>2. QED
      BY <1>1, <3>1 DEF Ids
  <2>4. QED
    BY <2>1, <2>2, <2>3 DEF Ids
<1>3. Sorted(s) => Sorted(Tail(s))
  BY <1>1 DEF Sorted
<1>4. Sorted(s) => Before({Head(s).id}, Ids(Tail(s)))
  <2>1. ASSUME Sorted(s), NEW i \in DOMAIN Tail(s) PROVE Head(s).id < Tail(s)[i].id
    <3>1. 1 \in DOMAIN s /\ i + 1 \in DOMAIN s /\ 1 < i + 1
      BY <1>1
    <3>2. QED
      BY <1>1, <2>1, <3>1 DEF Sorted
  <2>2. QED
    BY <2>1 DEF Before, Ids
<1>5. QED
  BY <1>2, <1>3, <1>4

\* All identifiers are numbers.
LEMMA Numbers ==
    ASSUME IInv
    PROVE  Ids(pending) \subseteq Nat /\ \A d \in Devices : Own(d) \subseteq Nat
<1>1. Ids(pending) \subseteq Nat
  BY IdsAreNumbers DEF IInv, StreamTypeOK
<1>2. ASSUME NEW d \in Devices PROVE Own(d) \subseteq Nat
  <2>1. Ids(executed[d]) \subseteq Nat /\ Ids(down[d]) \subseteq Nat
    BY IdsAreNumbers DEF IInv, StreamTypeOK
  <2>2. \A c \in Commands : c.id \in Nat
    BY DEF Commands
  <2>3. Hand(d) \subseteq Nat
    BY <2>2 DEF Hand, IInv, Fits
  <2>4. Taken(d) \subseteq Nat
    <3>1. handler[d] \in Handling
      BY DEF IInv, StreamTypeOK, Handling
    <3>2. QED
      BY <2>2, <3>1, Handlers DEF Taken
  <2>5. QED
    BY <2>1, <2>3, <2>4 DEF Own
<1>3. QED
  BY <1>1, <1>2

\* What a device loses does not disturb its order ...
LEMMA Losing ==
    ASSUME OrderInv, NEW x \in Devices,
           Sorted(executed'[x]), Sorted(down'[x]),
           Ids(executed'[x]) \subseteq Ids(executed[x]), Hand(x)' \subseteq Hand(x),
           Ids(down'[x]) \subseteq Ids(down[x]), Taken(x)' \subseteq Taken(x),
           Ids(pending') \subseteq Ids(pending)
    PROVE  Order(x)' /\ Own(x)' \subseteq Own(x)
<1>1. Own(x)' \subseteq Own(x)
  BY DEF Own
<1>2. Order(x)
  BY DEF OrderInv
<1>3. Chain(Ids(executed[x]), Hand(x), Ids(down[x]), Taken(x))'
  BY <1>2 DEF Order, Chain, Before
<1>4. Before(Own(x), Ids(pending))'
  BY <1>1, <1>2 DEF Order, Before
<1>5. QED
  BY <1>1, <1>3, <1>4 DEF Order

\* ... nor one device that of the others.
LEMMA Together ==
    ASSUME OrderInv, sent' = sent,
           Sorted(pending'), Ids(pending') \subseteq Ids(pending),
           \A x \in Devices : Order(x)' /\ Own(x)' \subseteq Own(x)
    PROVE  OrderInv'
BY DEF OrderInv

LEMMA Same ==
    ASSUME OrderInv, NEW x \in Devices,
           executed'[x] = executed[x], down'[x] = down[x],
           Hand(x)' = Hand(x), Taken(x)' \subseteq Taken(x),
           Ids(pending') \subseteq Ids(pending)
    PROVE  Order(x)' /\ Own(x)' \subseteq Own(x)
BY Losing DEF OrderInv, Order

\* Read: a command comes from the wire into the hand.
LEMMA OrderRead ==
    ASSUME IInv, OrderInv, NEW d \in Devices, Read(d)
    PROVE  OrderInv'
<1>1. /\ UNCHANGED <<executed, pending, handler, sent>>
      /\ edge[d].reader = "read" /\ edge[d] \in Edge /\ edge \in [Devices -> Edge]
      /\ down[d] \in Seq(Commands) /\ down \in [Devices -> Seq(Commands)]
  BY DEF Read, central, history, IInv, StreamTypeOK
<1>2. ASSUME NEW x \in Devices, x # d PROVE Order(x)' /\ Own(x)' \subseteq Own(x)
  <2>1. executed'[x] = executed[x] /\ down'[x] = down[x] /\ edge'[x] = edge[x]
    BY <1>1, <1>2 DEF Read
  <2>2. Hand(x)' = Hand(x) /\ Taken(x)' = Taken(x)
    BY <1>1, <2>1 DEF Hand, Taken
  <2>3. QED
    BY <1>1, <2>1, <2>2, Same
<1>3. Order(d)' /\ Own(d)' \subseteq Own(d)
  <2>1. CASE down[d] = <<>>
    <3>1. down' = down /\ edge' = [edge EXCEPT ![d].reader = "leave"]
      BY <2>1 DEF Read
    <3>2. edge'[d].reader = "leave"
      BY <1>1, <3>1 DEF Edge
    <3>3. Hand(d)' = Hand(d) /\ Taken(d)' = Taken(d)
      BY <1>1, <3>2 DEF Hand, Taken
    <3>4. QED
      BY <1>1, <3>1, <3>3, Same
  <2>2. CASE down[d] # <<>>
    <3>1. /\ down' = [down EXCEPT ![d] = Tail(@)]
          /\ edge' = [edge EXCEPT ![d].reader = "handle", ![d].command = Head(down[d])]
      BY <2>2 DEF Read
    <3>2. edge'[d].reader = "handle" /\ edge'[d].command = Head(down[d])
      BY <1>1, <3>1 DEF Edge
    <3>3. down'[d] = Tail(down[d])
      BY <1>1, <3>1
    <3>4. /\ Hand(d)' = {Head(down[d]).id} /\ Taken(d)' = Taken(d) /\ Hand(d) = {}
      BY <1>1, <3>2 DEF Hand, Taken
    <3>5. Order(d)
      BY DEF OrderInv
    <3>6. /\ Ids(down[d]) = Hand(d)' \cup Ids(down'[d])
          /\ Sorted(down'[d]) /\ Before(Hand(d)', Ids(down'[d]))
      BY <1>1, <2>2, <3>3, <3>4, <3>5, IdsOfTail DEF Order
    <3>7. Own(d)' = Own(d)
      BY <1>1, <3>4, <3>6 DEF Own
    <3>8. Chain(Ids(executed[d]), Hand(d), Ids(down[d]), Taken(d))'
      BY <1>1, <3>4, <3>5, <3>6 DEF Order, Chain, Before
    <3>9. QED
      BY <1>1, <3>5, <3>6, <3>7, <3>8 DEF Order
  <2>3. QED
    BY <2>1, <2>2
<1>4. \A x \in Devices : Order(x)' /\ Own(x)' \subseteq Own(x)
  BY <1>2, <1>3
<1>5. Sorted(pending') /\ Ids(pending') \subseteq Ids(pending)
  BY <1>1 DEF OrderInv
<1>6. QED
  BY <1>1, <1>4, <1>5, Together

\* HandleCommand: from the hand to the executed ones.
LEMMA OrderHandle ==
    ASSUME IInv, OrderInv, NEW d \in Devices, HandleCommand(d)
    PROVE  OrderInv'
<1>1. /\ UNCHANGED <<down, pending, handler, sent>>
      /\ edge[d].reader = "handle" /\ edge[d] \in Edge /\ edge \in [Devices -> Edge]
      /\ edge[d].command \in Commands
      /\ executed[d] \in Seq(Commands) /\ executed \in [Devices -> Seq(Commands)]
  BY DEF HandleCommand, central, IInv, StreamTypeOK, Fits
<1>2. ASSUME NEW x \in Devices, x # d PROVE Order(x)' /\ Own(x)' \subseteq Own(x)
  <2>1. executed'[x] = executed[x] /\ edge'[x] = edge[x]
    BY <1>1, <1>2 DEF HandleCommand
  <2>2. Hand(x)' = Hand(x) /\ Taken(x)' = Taken(x)
    BY <1>1, <2>1 DEF Hand, Taken
  <2>3. QED
    BY <1>1, <2>1, <2>2, Same
<1>3. Order(d)' /\ Own(d)' \subseteq Own(d)
  <2>1. edge'[d].reader = "check"
    BY <1>1 DEF HandleCommand, Edge
  <2>2. executed'[d] = Append(executed[d], edge[d].command)
    BY <1>1 DEF HandleCommand
  <2>3. Hand(d) = {edge[d].command.id} /\ Hand(d)' = {} /\ Taken(d)' = Taken(d)
    BY <1>1, <2>1 DEF Hand, Taken
  <2>4. Order(d)
    BY DEF OrderInv
  <2>5. Before(Ids(executed[d]), Hand(d))
    BY <2>4 DEF Order, Chain, Before
  <2>6. Ids(executed'[d]) = Ids(executed[d]) \cup Hand(d) /\ Sorted(executed'[d])
    BY <1>1, <2>2, <2>3, <2>4, <2>5, IdsOfAppend DEF Order
  <2>7. Own(d)' = Own(d)
    BY <1>1, <2>3, <2>6 DEF Own
  <2>8. Chain(Ids(executed[d]), Hand(d), Ids(down[d]), Taken(d))'
    BY <1>1, <2>3, <2>4, <2>6 DEF Order, Chain, Before
  <2>9. QED
    BY <1>1, <2>4, <2>6, <2>7, <2>8 DEF Order
<1>4. \A x \in Devices : Order(x)' /\ Own(x)' \subseteq Own(x)
  BY <1>2, <1>3
<1>5. Sorted(pending') /\ Ids(pending') \subseteq Ids(pending)
  BY <1>1 DEF OrderInv
<1>6. QED
  BY <1>1, <1>4, <1>5, Together

\* Yield: onto the wire, or into the void.
LEMMA OrderYield ==
    ASSUME IInv, OrderInv, NEW d \in Devices, Yield(d)
    PROVE  OrderInv'
<1>1. /\ UNCHANGED <<edge, executed, pending, sent>>
      /\ handler[d].taken \in Commands /\ handler[d].taken # NoCommand
      /\ handler \in [Devices -> Handling] /\ handler[d] \in Handling
      /\ down[d] \in Seq(Commands) /\ down \in [Devices -> Seq(Commands)]
  <2>1. handler \in [Devices -> Handling]
    BY DEF IInv, StreamTypeOK, Handling
  <2>2. QED
    BY <2>1, Handlers DEF Yield, history, IInv, StreamTypeOK
<1>2. ASSUME NEW x \in Devices, x # d PROVE Order(x)' /\ Own(x)' \subseteq Own(x)
  <2>1. down'[x] = down[x] /\ handler'[x] = handler[x]
    BY <1>1, <1>2 DEF Yield
  <2>2. Hand(x)' = Hand(x) /\ Taken(x)' = Taken(x)
    BY <1>1, <2>1 DEF Hand, Taken
  <2>3. QED
    BY <1>1, <2>1, <2>2, Same
<1>3. Order(d)' /\ Own(d)' \subseteq Own(d)
  <2>1. handler'[d].taken = NoCommand
    BY <1>1 DEF Yield, Handling
  <2>2. Taken(d) = {handler[d].taken.id} /\ Taken(d)' = {} /\ Hand(d)' = Hand(d)
    BY <1>1, <2>1 DEF Hand, Taken
  <2>3. CASE down' = down
    BY <1>1, <2>2, <2>3, Same
  <2>4. CASE down' = [down EXCEPT ![d] = Append(@, handler[d].taken)]
    <3>1. down'[d] = Append(down[d], handler[d].taken)
      BY <1>1, <2>4
    <3>2. Order(d)
      BY DEF OrderInv
    <3>3. Before(Ids(down[d]), Taken(d))
      BY <3>2 DEF Order, Chain, Before
    <3>4. Ids(down'[d]) = Ids(down[d]) \cup Taken(d) /\ Sorted(down'[d])
      BY <1>1, <2>2, <3>1, <3>2, <3>3, IdsOfAppend DEF Order
    <3>5. Own(d)' = Own(d)
      BY <1>1, <2>2, <3>4 DEF Own
    <3>6. Chain(Ids(executed[d]), Hand(d), Ids(down[d]), Taken(d))'
      BY <1>1, <2>2, <3>2, <3>4 DEF Order, Chain, Before
    <3>7. QED
      BY <1>1, <3>2, <3>4, <3>5, <3>6 DEF Order
  <2>5. QED
    BY <2>3, <2>4 DEF Yield
<1>4. \A x \in Devices : Order(x)' /\ Own(x)' \subseteq Own(x)
  BY <1>2, <1>3
<1>5. Sorted(pending') /\ Ids(pending') \subseteq Ids(pending)
  BY <1>1 DEF OrderInv
<1>6. QED
  BY <1>1, <1>4, <1>5, Together

\* Take: a handler gets the oldest command of the queue, which is younger than
\* all that any device has had.
LEMMA OrderTake ==
    ASSUME IInv, OrderInv, NEW d \in Devices, Take(d)
    PROVE  OrderInv'
<1> DEFINE k == Head(pending).id
<1>1. /\ UNCHANGED <<edge, executed, down, sent>>
      /\ handler[d].taken = NoCommand /\ pending # <<>> /\ pending' = Tail(pending)
      /\ pending \in Seq(Commands) /\ Head(pending) \in Commands
      /\ handler' = [handler EXCEPT ![d].taken = Head(pending)]
      /\ handler \in [Devices -> Handling]
  BY HeadTailProperties DEF Take, history, IInv, StreamTypeOK, Handling
<1>2. /\ Ids(pending) = {k} \cup Ids(pending') /\ Sorted(pending')
      /\ Before({k}, Ids(pending'))
  BY <1>1, IdsOfTail DEF OrderInv
<1>3. ASSUME NEW x \in Devices, x # d PROVE Order(x)' /\ Own(x)' = Own(x)
  <2>1. handler'[x] = handler[x]
    BY <1>1, <1>3
  <2>2. Hand(x)' = Hand(x) /\ Taken(x)' = Taken(x)
    BY <1>1, <2>1 DEF Hand, Taken
  <2>3. Order(x)'
    BY <1>1, <1>2, <2>2, Same
  <2>4. QED
    BY <1>1, <2>2, <2>3 DEF Own
<1>4. Order(d)' /\ Own(d)' \subseteq Own(d) \cup {k}
  <2>1. handler'[d].taken = Head(pending)
    BY <1>1 DEF Handling
  <2>2. Taken(d) = {} /\ Taken(d)' \subseteq {k} /\ Hand(d)' = Hand(d)
    BY <1>1, <2>1 DEF Hand, Taken
  <2>3. Own(d)' \subseteq Own(d) \cup {k}
    BY <1>1, <2>2 DEF Own
  <2>4. Order(d)
    BY DEF OrderInv
  <2>5. Before(Own(d), {k}) /\ Before(Own(d), Ids(pending'))
    BY <1>2, <2>4 DEF Order, Before
  <2>6. Before(Own(d), Ids(pending))'
    BY <1>2, <2>3, <2>5 DEF Before
  <2>7. Chain(Ids(executed[d]), Hand(d), Ids(down[d]), Taken(d))'
    <3>1. Before(Ids(executed[d]) \cup Hand(d) \cup Ids(down[d]), {k})
      BY <2>5 DEF Own, Before
    <3>2. QED
      BY <1>1, <2>2, <2>4, <3>1 DEF Order, Chain, Before
  <2>8. QED
    BY <1>1, <2>3, <2>4, <2>6, <2>7 DEF Order
<1>5. \A x \in Devices : k \notin Own(x)
  <2>1. \A x \in Devices : Before(Own(x), Ids(pending))
    BY DEF OrderInv, Order
  <2>2. k \in Ids(pending) /\ k \in Nat
    BY <1>2, Numbers
  <2>3. QED
    BY <2>1, <2>2 DEF Before
<1>6. ASSUME NEW x \in Devices, NEW e \in Devices, x # e
      PROVE  Own(x)' \cap Own(e)' = {}
  <2>1. Own(x) \cap Own(e) = {} /\ k \notin Own(x) /\ k \notin Own(e)
    BY <1>5, <1>6 DEF OrderInv
  <2>2. CASE x = d
    BY <1>3, <1>4, <1>6, <2>1, <2>2
  <2>3. CASE x # d
    BY <1>3, <1>4, <1>6, <2>1, <2>3
  <2>4. QED
    BY <2>2, <2>3
<1>7. \A x \in Devices : Order(x)' /\ \A i \in Own(x)' : i <= sent'
  <2>1. k <= sent
    BY <1>2 DEF OrderInv
  <2>2. QED
    BY <1>1, <1>3, <1>4, <2>1 DEF OrderInv
<1>8. \A i \in Ids(pending') : i <= sent'
  BY <1>1, <1>2 DEF OrderInv
<1>9. QED
  BY <1>2, <1>6, <1>7, <1>8 DEF OrderInv

\* send_command: a new one at the end of the queue.
LEMMA OrderSend ==
    ASSUME IInv, OrderInv, NEW kind \in {"SHUTDOWN", "other"}, send_command(kind)
    PROVE  OrderInv'
<1> DEFINE c == [id |-> sent + 1, kind |-> kind]
<1>1. /\ UNCHANGED <<edge, handler, down, executed>> /\ sent' = sent + 1 /\ sent \in Nat
      /\ pending' = Append(pending, c) /\ pending \in Seq(Commands) /\ c \in Commands
  BY EventStreamConstants DEF send_command, Commands, IInv, StreamTypeOK
<1>2. c.id = sent + 1
  OBVIOUS
<1>3. Before(Ids(pending), {c.id})
  BY <1>1, <1>2, Numbers DEF OrderInv, Before
<1>4. Ids(pending') = Ids(pending) \cup {c.id} /\ Sorted(pending')
  BY <1>1, <1>3, IdsOfAppend DEF OrderInv
<1>5. \A x \in Devices : Own(x)' = Own(x) /\ Hand(x)' = Hand(x) /\ Taken(x)' = Taken(x)
  BY <1>1 DEF Own, Hand, Taken
<1>6. ASSUME NEW x \in Devices PROVE Order(x)' /\ \A i \in Own(x)' : i <= sent'
  <2>1. Order(x) /\ (\A i \in Own(x) : i <= sent) /\ Own(x) \subseteq Nat
    BY Numbers DEF OrderInv
  <2>2. Before(Own(x), {c.id})
    BY <1>1, <1>2, <2>1 DEF Before
  <2>3. Before(Own(x), Ids(pending))'
    BY <1>4, <1>5, <2>1, <2>2 DEF Order, Before
  <2>4. \A i \in Own(x)' : i <= sent'
    BY <1>1, <1>5, <2>1
  <2>5. QED
    BY <1>1, <1>5, <2>1, <2>3, <2>4 DEF Order
<1>7. \A i \in Ids(pending') : i <= sent'
  BY <1>1, <1>2, <1>4, Numbers DEF OrderInv
<1>8. \A x, e \in Devices : x # e => Own(x)' \cap Own(e)' = {}
  BY <1>5 DEF OrderInv
<1>9. QED
  BY <1>4, <1>6, <1>7, <1>8 DEF OrderInv

\* The other steps move no command: at most some are lost.
LEMMA OrderOther ==
    ASSUME OrderInv, sent' = sent, executed' = executed,
           \A x \in Devices : /\ Hand(x)' = Hand(x) /\ Taken(x)' \subseteq Taken(x)
                              /\ down'[x] = down[x] \/ down'[x] = <<>>,
           pending' = pending \/ pending' = <<>>
    PROVE  OrderInv'
<1>1. Sorted(pending') /\ Ids(pending') \subseteq Ids(pending)
  BY NoIds DEF OrderInv
<1>2. ASSUME NEW x \in Devices PROVE Order(x)' /\ Own(x)' \subseteq Own(x)
  <2>1. Sorted(executed[x]) /\ Sorted(down[x])
    BY DEF OrderInv, Order
  <2>2. Sorted(down'[x]) /\ Ids(down'[x]) \subseteq Ids(down[x])
    BY <2>1, NoIds
  <2>3. QED
    BY <1>1, <2>1, <2>2, Losing
<1>3. QED
  BY <1>1, <1>2, Together

LEMMA OrderThreads ==
    ASSUME IInv, OrderInv, NEW d \in Devices,
           \/ Signal(d) \/ Main(d) \/ SourceFails(d) \/ StartEventStream(d)
           \/ LoseConnection(d) \/ LeaveLoop(d) \/ Deactivate(d) \/ WritesDone(d)
           \/ Join(d) \/ Reset(d) \/ ReaderCheck(d) \/ ReaderLeave(d)
    PROVE  OrderInv'
<1>1. /\ UNCHANGED <<sent, executed, pending>>
      /\ edge \in [Devices -> Edge] /\ handler \in [Devices -> Handling]
      /\ down \in [Devices -> Seq(Commands)] /\ Fits(edge[d])
  BY DEF Signal, Main, MainStop, MainExit, SourceFails, StartEventStream,
         LoseConnection, LeaveLoop, Deactivate, WritesDone, Join, Reset, ReaderCheck,
         ReaderLeave, central, history, IInv, StreamTypeOK, Handling
<1>2. ASSUME NEW x \in Devices PROVE Taken(x)' = Taken(x)
  <2>1. CASE StartEventStream(d)
    <3>1. handler[x] \in Handling
      BY <1>1
    <3>2. handler' = handler \/ handler' = [handler EXCEPT ![d].serving = serverUp]
      BY <2>1 DEF StartEventStream
    <3>3. handler'[x] \in {handler[x], [handler[x] EXCEPT !.serving = serverUp]}
      BY <1>1, <3>2
    <3>4. handler'[x].taken = handler[x].taken
      BY <3>1, <3>3 DEF Handling
    <3>5. QED
      BY <3>4 DEF Taken
  <2>2. CASE ~StartEventStream(d)
    <3>1. handler' = handler
      BY <2>2 DEF Signal, Main, MainStop, MainExit, SourceFails, LoseConnection,
         LeaveLoop, Deactivate, WritesDone, Join, Reset, ReaderCheck, ReaderLeave, central
    <3>2. QED
      BY <3>1 DEF Taken
  <2>3. QED
    BY <2>1, <2>2
<1>3. ASSUME NEW x \in Devices PROVE down'[x] = down[x] \/ down'[x] = <<>>
  BY <1>1 DEF Signal, Main, MainStop, MainExit, SourceFails, StartEventStream,
         LoseConnection, LeaveLoop, Deactivate, WritesDone, Join, Reset, ReaderCheck,
         ReaderLeave
<1>4. ASSUME NEW x \in Devices, x # d PROVE edge'[x] = edge[x]
  BY <1>1, <1>4 DEF Signal, Main, MainStop, MainExit, SourceFails, StartEventStream,
         LoseConnection, LeaveLoop, Deactivate, WritesDone, Join, Reset, ReaderCheck,
         ReaderLeave
<1>5. /\ edge'[d].reader = "handle" <=> edge[d].reader = "handle"
      /\ edge'[d].command = edge[d].command
  <2>1. CASE SourceFails(d) \/ StartEventStream(d)
    BY <1>1, <2>1 DEF SourceFails, StartEventStream, Edge, Fits
  <2>2. CASE ReaderCheck(d) \/ ReaderLeave(d)
    BY <1>1, <2>2 DEF ReaderCheck, ReaderLeave, Edge
  <2>3. CASE \/ Signal(d) \/ Main(d) \/ LoseConnection(d) \/ LeaveLoop(d)
             \/ Deactivate(d) \/ WritesDone(d) \/ Join(d) \/ Reset(d)
    BY <1>1, <2>3 DEF Signal, Main, MainStop, MainExit, LoseConnection, LeaveLoop,
         Deactivate, WritesDone, Join, Reset, Edge
  <2>4. QED
    BY <2>1, <2>2, <2>3
<1>6. \A x \in Devices : Hand(x)' = Hand(x)
  BY <1>4, <1>5 DEF Hand
<1>7. QED
  BY <1>1, <1>2, <1>3, <1>6, OrderOther

LEMMA OrderBreaks ==
    ASSUME IInv, OrderInv,
           \/ \E d \in Devices : Cancelled(d) \/ BreakStream(d)
           \/ ServerStop
    PROVE  OrderInv'
<1>1. /\ edge \in [Devices -> Edge] /\ handler \in [Devices -> Handling]
      /\ UNCHANGED <<sent, executed>>
  BY DEF Cancelled, BreakStream, ServerStop, history, IInv, StreamTypeOK, Handling
<1>2. ASSUME NEW x \in Devices PROVE Hand(x)' = Hand(x)
  <2>1. /\ edge'[x].reader = edge[x].reader /\ edge'[x].command = edge[x].command
    BY <1>1 DEF Cancelled, BreakStream, ServerStop, Cut, Edge
  <2>2. QED
    BY <2>1 DEF Hand
<1>3. ASSUME NEW x \in Devices PROVE Taken(x)' \subseteq Taken(x)
  <2>1. handler'[x] = handler[x] \/ handler'[x] = [serving |-> FALSE, taken |-> NoCommand]
    BY <1>1 DEF Cancelled, BreakStream, ServerStop, central
  <2>2. QED
    BY <2>1 DEF Taken
<1>4. ASSUME NEW x \in Devices PROVE down'[x] = down[x] \/ down'[x] = <<>>
  BY DEF Cancelled, BreakStream, ServerStop, Cut
<1>5. pending' = pending \/ pending' = <<>>
  BY DEF Cancelled, BreakStream, ServerStop, central
<1>6. QED
  BY <1>1, <1>2, <1>3, <1>4, <1>5, OrderOther

LEMMA OrderStarts == StreamInit => OrderInv
<1>1. ASSUME StreamInit PROVE OrderInv
  <2>1. ASSUME NEW d \in Devices
        PROVE  executed[d] = <<>> /\ down[d] = <<>> /\ Hand(d) = {} /\ Taken(d) = {}
    <3>1. edge[d].reader = "none"
      BY <1>1 DEF StreamInit
    <3>2. QED
      BY <1>1, <3>1 DEF StreamInit, Hand, Taken
  <2>2. pending = <<>>
    BY <1>1 DEF StreamInit
  <2>3. \A d \in Devices : Order(d) /\ Own(d) = {}
    BY <2>1, NoIds DEF Order, Own, Chain, Before
  <2>4. QED
    BY <2>2, <2>3, NoIds DEF OrderInv
<1>2. QED
  BY <1>1

LEMMA OrderStays == IInv /\ OrderInv /\ [StreamNext]_streamVars => OrderInv'
<1>1. ASSUME IInv, OrderInv, StreamNext PROVE OrderInv'
  <2>1. ASSUME NEW d \in Devices, Reader(d) PROVE OrderInv'
    BY <1>1, <2>1, OrderRead, OrderHandle, OrderThreads DEF Reader
  <2>2. ASSUME NEW d \in Devices, Take(d) \/ Yield(d) \/ Cancelled(d) \/ BreakStream(d)
        PROVE  OrderInv'
    BY <1>1, <2>2, OrderTake, OrderYield, OrderBreaks
  <2>3. ASSUME NEW d \in Devices,
               \/ Signal(d) \/ Main(d) \/ SourceFails(d) \/ StartEventStream(d)
               \/ LoseConnection(d) \/ LeaveLoop(d) \/ Stopping(d)
        PROVE  OrderInv'
    BY <1>1, <2>3, OrderThreads DEF Stopping
  <2>4. ASSUME NEW kind \in {"SHUTDOWN", "other"}, send_command(kind) PROVE OrderInv'
    BY <1>1, <2>4, OrderSend
  <2>5. CASE ServerStop
    BY <1>1, <2>5, OrderBreaks
  <2>6. QED
    BY <1>1, <2>1, <2>2, <2>3, <2>4, <2>5 DEF StreamNext
<1>2. ASSUME OrderInv, UNCHANGED streamVars PROVE OrderInv'
  BY <1>2 DEF streamVars, central, history, OrderInv, Order, Own, Hand, Taken
<1>3. QED
  BY <1>1, <1>2

\* A command is executed by one device, once, and no device executes an older
\* one after a newer one, whatever streams break.
THEOREM OnceInOrder == StreamSpec => []ExecutedOnceInOrder
<1>1. OrderInv => ExecutedOnceInOrder
  <2>1. ASSUME OrderInv PROVE ExecutedOnceInOrder
    <3>1. \A d \in Devices : Sorted(executed[d]) /\ Ids(executed[d]) \subseteq Own(d)
      BY <2>1 DEF OrderInv, Order, Own
    <3>2. \A d \in Devices : {c.id : c \in ToSet(executed[d])} = Ids(executed[d])
      BY DEF ToSet, Ids
    <3>3. \A d, e \in Devices : d # e => Ids(executed[d]) \cap Ids(executed[e]) = {}
      BY <2>1, <3>1 DEF OrderInv
    <3>4. QED
      BY <3>1, <3>2, <3>3 DEF ExecutedOnceInOrder, Sorted
  <2>2. QED
    BY <2>1
<1>2. QED
  BY Starting, Stepping, OrderStarts, OrderStays, <1>1, PTL DEF StreamSpec
=============================================================================
