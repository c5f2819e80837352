------------------------- MODULE ClientReceiveProofs -------------------------
(***************************************************************************)
(* ClientReceive implements Delivery, for every number of connections and  *)
(* frames: the initial states map to initial states, and every step of a   *)
(* task to a step of the queue it is part of, or to no step at all.        *)
(***************************************************************************)
EXTENDS ClientReceive, SequenceTheorems, TLAPS

AnyFrame == [kind : Kinds, n : Nat]
Slots == {<<>>} \cup {<<f>> : f \in AnyFrame}

\* The types the argument rests on.
FlowTypes ==
    /\ handler \in [Conns -> {"unborn", "installed", "top", "recv",
                              "handle", "connect_send", "message_send",
                              "ended", "returned", "panicked"}]
    /\ ws \in [Conns -> {"unborn", "running", "blocked", "ended", "panicked"}]
    /\ frame \in [Conns -> AnyFrame]
    /\ ws_frame \in [Conns -> AnyFrame]
    /\ rxx \in [Conns -> Slots]
    /\ inbound \in [Conns -> Nat]
    /\ conns \in Nat

\* Where a frame can be: a live handler has one only while it works on it, the
\* websocket task only while it is blocked, what the handler is about to send
\* to the application is an inbound message, and connections that were not
\* dialed have no websocket task.
FlowPlaces ==
    \A c \in Conns :
        /\ RxxUp(c) /\ handler[c] \notin {"handle", "message_send"}
             => frame[c] = NoFrame
        /\ handler[c] = "message_send" => frame[c].kind = "inbound"
        /\ ws[c] # "blocked" => ws_frame[c] = NoFrame
        /\ c > conns => ws[c] = "unborn"

Flow == FlowTypes /\ FlowPlaces

\* A channel of capacity one is empty or holds one frame.
LEMMA SlotFacts ==
    /\ NoFrame \in AnyFrame
    /\ <<>> \in Slots
    /\ \A f \in AnyFrame : <<f>> \in Slots /\ <<f>> # <<>> /\ Head(<<f>>) = f
    /\ \A s \in Slots : s # <<>> => \E f \in AnyFrame : s = <<f>>
BY DEF NoFrame, AnyFrame, Kinds, Slots

\* Nothing has arrived when the client starts.
LEMMA InitFlow == Init => Flow
BY SlotFacts DEF Init, Flow, FlowTypes, FlowPlaces, Conns

\* What WsRead does, with the frame it reads named.
WsReads(c, f) ==
    /\ ws[c] = "running"
    /\ inbound' = [inbound EXCEPT ![c] = IF f.kind = "inbound" THEN f.n ELSE @]
    /\ f.n = IF f.kind = "inbound" THEN inbound[c] + 1 ELSE 0
    /\ \/ /\ ~RxxUp(c)
          /\ ws' = [ws EXCEPT ![c] = "panicked"]
          /\ UNCHANGED <<rxx, ws_frame>>
       \/ /\ RxxUp(c)
          /\ rxx[c] = <<>>
          /\ rxx' = [rxx EXCEPT ![c] = <<f>>]
          /\ UNCHANGED <<ws, ws_frame>>
       \/ /\ RxxUp(c)
          /\ rxx[c] # <<>>
          /\ ws' = [ws EXCEPT ![c] = "blocked"]
          /\ ws_frame' = [ws_frame EXCEPT ![c] = f]
          /\ UNCHANGED rxx
    /\ UNCHANGED <<closed, handler, frame, message_chan, conns>>

\* WsRead reads one frame, which fits one of the three cases of WsReads.
LEMMA WsReadsAFrame ==
    ASSUME FlowTypes, NEW c \in Conns, WsRead(c)
    PROVE  \E f \in AnyFrame : WsReads(c, f)
<1> DEFINE n(kind) == IF kind = "inbound" THEN inbound[c] + 1 ELSE 0
           f(kind) == [kind |-> kind, n |-> n(kind)]
<1>1. PICK kind \in Kinds :
         /\ inbound' = [inbound EXCEPT ![c] = IF n(kind) > 0 THEN n(kind) ELSE @]
         /\ \/ /\ ~RxxUp(c)
               /\ ws' = [ws EXCEPT ![c] = "panicked"]
               /\ UNCHANGED <<rxx, ws_frame>>
            \/ /\ RxxUp(c)
               /\ rxx[c] = <<>>
               /\ rxx' = [rxx EXCEPT ![c] = <<f(kind)>>]
               /\ UNCHANGED <<ws, ws_frame>>
            \/ /\ RxxUp(c)
               /\ rxx[c] # <<>>
               /\ ws' = [ws EXCEPT ![c] = "blocked"]
               /\ ws_frame' = [ws_frame EXCEPT ![c] = f(kind)]
               /\ UNCHANGED rxx
  BY DEF WsRead
<1>2. inbound[c] \in Nat
  BY DEF FlowTypes
<1>3. /\ f(kind) \in AnyFrame
      /\ f(kind).kind = kind
      /\ f(kind).n = n(kind)
      /\ (n(kind) > 0) <=> (kind = "inbound")
  BY <1>1, <1>2 DEF AnyFrame
<1>4. inbound' = [inbound EXCEPT ![c] = IF f(kind).kind = "inbound" THEN f(kind).n ELSE @]
  BY <1>1, <1>3
<1>5. ws[c] = "running" /\ UNCHANGED <<closed, handler, frame, message_chan, conns>>
  BY DEF WsRead, handlerVars, chanVars, linkVars
<1>6. WsReads(c, f(kind))
  BY <1>1, <1>3, <1>4, <1>5 DEF WsReads
<1> QED
  BY <1>3, <1>6

\* The websocket task keeps frames in their places.
LEMMA WsFlow ==
    ASSUME Flow, NEW c \in Conns, WsStep(c)
    PROVE  Flow'
<1> USE SlotFacts DEF Flow
<1>1. CASE WsRead(c)
  <2>1. PICK f \in AnyFrame : WsReads(c, f)
    BY <1>1, WsReadsAFrame
  <2>2. FlowTypes'
    <3>1. inbound' \in [Conns -> Nat]
      BY <2>1 DEF FlowTypes, WsReads, AnyFrame
    <3> QED
      BY <2>1, <3>1 DEF FlowTypes, WsReads
  <2>3. FlowPlaces'
    BY <2>1 DEF FlowTypes, FlowPlaces, WsReads, RxxUp
  <2> QED
    BY <2>2, <2>3
<1>2. CASE WsUnblock(c)
  <2>1. /\ ws'[c] # "blocked"
        /\ ws_frame' = [ws_frame EXCEPT ![c] = NoFrame]
        /\ \A x \in Conns \ {c} : ws'[x] = ws[x]
        /\ UNCHANGED <<handler, frame, inbound, conns>>
        /\ ws[c] = "blocked"
    BY <1>2 DEF WsUnblock, handlerVars, linkVars, FlowTypes
  <2>2. FlowTypes'
    BY <1>2, <2>1 DEF FlowTypes, WsUnblock
  <2>3. FlowPlaces'
    BY <2>1 DEF FlowTypes, FlowPlaces, RxxUp
  <2> QED
    BY <2>2, <2>3
<1>3. CASE WsEnd(c)
  BY <1>3 DEF FlowTypes, FlowPlaces, WsEnd, handlerVars, linkVars, RxxUp
<1> QED
  BY <1>1, <1>2, <1>3 DEF WsStep

\* So do the handler and handle_message,
LEMMA HandlerFlow ==
    ASSUME Flow, NEW c \in Conns, HandlerStep(c)
    PROVE  Flow'
<1> USE DEF Flow, FlowTypes, FlowPlaces, RxxUp, wsVars, linkVars
<1>0. NoFrame \in AnyFrame
  BY SlotFacts
<1>1. CASE HandlerTop(c)
  BY <1>1 DEF HandlerTop
<1>2. CASE HandlerRecv(c)
  <2>1. CASE rxx[c] = <<>>
    BY <1>2, <2>1 DEF HandlerRecv
  <2>2. CASE rxx[c] # <<>>
    <3>1. Head(rxx[c]) \in AnyFrame /\ <<>> \in Slots
      BY <2>2, SlotFacts
    <3>2. /\ rxx' = [rxx EXCEPT ![c] = <<>>]
          /\ frame' = [frame EXCEPT ![c] = IF closed THEN @ ELSE Head(rxx[c])]
          /\ handler' = [handler EXCEPT ![c] = IF closed THEN "top" ELSE "handle"]
          /\ UNCHANGED <<ws, ws_frame, inbound, conns>>
          /\ handler[c] = "recv"
      BY <1>2, <2>2 DEF HandlerRecv
    <3>3. FlowTypes'
      BY <3>1, <3>2
    <3>4. FlowPlaces'
      BY <3>1, <3>2
    <3> QED
      BY <3>3, <3>4
  <2> QED
    BY <2>1, <2>2
<1>3. CASE HandleMessage(c)
  <2>1. PICK pc \in AfterHandle(frame[c]) :
           /\ handler' = [handler EXCEPT ![c] = pc]
           /\ frame' = [frame EXCEPT ![c] = IF pc = "message_send" THEN @ ELSE NoFrame]
    BY <1>3 DEF HandleMessage
  <2>2. /\ pc \in {"panicked", "connect_send", "message_send", "top"}
        /\ pc = "message_send" => frame[c].kind = "inbound"
    BY <2>1 DEF AfterHandle
  <2> QED
    BY <1>0, <1>3, <2>1, <2>2 DEF HandleMessage
<1>4. CASE ConnectSend(c)
  BY <1>4 DEF ConnectSend
<1>5. CASE MessageSend(c)
  BY <1>0, <1>5 DEF MessageSend
<1> QED
  BY <1>1, <1>2, <1>3, <1>4, <1>5 DEF HandlerStep

\* the connector, which spawns the handler,
LEMMA ConnectorFlow ==
    ASSUME Flow, NEW c \in Conns, ConnectorStep(c)
    PROVE  Flow'
BY DEF Flow, FlowTypes, FlowPlaces, RxxUp, wsVars, linkVars, ConnectorStep, InstallNode,
       StartTasks, ConnectorPanic

\* a dial, whose connection had no websocket task before,
LEMMA DialFlow == Flow /\ Dial => Flow'
<1> SUFFICES ASSUME Flow, Dial PROVE Flow'
  OBVIOUS
<1>1. /\ conns' = conns + 1
      /\ ws' = [ws EXCEPT ![conns + 1] = "running"]
      /\ UNCHANGED <<rxx, ws_frame, inbound, handler, frame>>
  BY DEF Dial, handlerVars
<1>2. FlowTypes'
  <2>1. conns' \in Nat
    BY <1>1 DEF Flow, FlowTypes
  <2>2. ws' \in [Conns -> {"unborn", "running", "blocked", "ended", "panicked"}]
    BY <1>1 DEF Flow, FlowTypes
  <2> QED
    BY <1>1, <2>1, <2>2 DEF Flow, FlowTypes
<1>3. FlowPlaces'
  <2> SUFFICES ASSUME NEW c \in Conns
               PROVE  /\ ws'[c] # "blocked" => ws_frame[c] = NoFrame
                      /\ c > conns + 1 => ws'[c] = "unborn"
    BY <1>1 DEF Flow, FlowTypes, FlowPlaces, RxxUp
  <2>1. c \in Nat /\ conns \in Nat
    BY DEF Conns, Flow, FlowTypes
  <2>2. CASE c = conns + 1
    BY <1>1, <2>1, <2>2 DEF Flow, FlowTypes, FlowPlaces
  <2>3. CASE c # conns + 1
    BY <1>1, <2>1, <2>3 DEF Flow, FlowTypes, FlowPlaces
  <2> QED
    BY <2>2, <2>3
<1> QED
  BY <1>2, <1>3 DEF Flow

\* and the application.
LEMMA AppFlow == Flow /\ AppStep => Flow'
BY DEF Flow, FlowTypes, FlowPlaces, RxxUp, wsVars, handlerVars, linkVars, AppStep,
       WaitForConnect, WaitForMessage, Close, Drop

\* Frames stay where they belong, whatever steps the tasks take.
LEMMA FlowIsInductive == Flow /\ [Next]_vars => Flow'
<1>1. Flow /\ UNCHANGED vars => Flow'
  BY DEF Flow, FlowTypes, FlowPlaces, RxxUp, vars, wsVars, handlerVars, linkVars
<1> QED
  BY <1>1, WsFlow, HandlerFlow, ConnectorFlow, DialFlow, AppFlow DEF Next

-----------------------------------------------------------------------------
(* Facts about the mapping *)

\* Sequences of at most one number.
LEMMA CarriedIsSeq ==
    ASSUME NEW f \in AnyFrame
    PROVE  /\ Carried(f) \in Seq(Nat)
           /\ f.kind = "inbound" => Carried(f) = <<f.n>>
           /\ f.kind # "inbound" => Carried(f) = <<>>
BY DEF Carried, AnyFrame

\* A place without a frame adds nothing to a queue.
LEMMA NothingIsCarried == Carried(NoFrame) = <<>>
BY DEF Carried, NoFrame

\* A task that touches none of the places of connection x leaves its queue.
LEMMA QueueStays ==
    ASSUME NEW x \in Conns,
           frame'[x] = frame[x], rxx'[x] = rxx[x], ws_frame'[x] = ws_frame[x],
           RxxUp(x)' = RxxUp(x)
    PROVE  Queue(x)' = Queue(x)
BY DEF Queue, UnderWay

\* A handler that does not move leaves the status of its connection.
LEMMA StatusStays ==
    ASSUME NEW x \in Conns, handler'[x] = handler[x]
    PROVE  Status(x)' = Status(x) /\ RxxUp(x)' = RxxUp(x)
BY DEF Status, RxxUp

\* What leaves every queue, status and the rest alone is no step of Delivery.
LEMMA NoStep ==
    ASSUME \A x \in Conns : Queue(x)' = Queue(x) /\ Status(x)' = Status(x),
           UNCHANGED <<closed, inbound, message_chan>>
    PROVE  UNCHANGED D!vars
BY DEF D!vars

\* Each step of Delivery, in terms of the queue and status of a connection:
\* a message is added at the end,
LEMMA ArriveStep ==
    ASSUME NEW c \in Conns,
           inbound' = [inbound EXCEPT ![c] = @ + 1],
           Queue(c)' = IF Status(c) = "open"
                       THEN Append(Queue(c), inbound[c] + 1) ELSE Queue(c),
           \A x \in Conns \ {c} : Queue(x)' = Queue(x),
           \A x \in Conns : Status(x)' = Status(x),
           UNCHANGED <<closed, message_chan>>
    PROVE  D!Arrive(c)
BY DEF D!Arrive

\* the first one is handed over,
LEMMA DeliverStep ==
    ASSUME NEW c \in Conns,
           Status(c) = "open", Queue(c) # <<>>, message_chan = <<>>,
           message_chan' = << <<c, Head(Queue(c))>> >>,
           Queue(c)' = Tail(Queue(c)),
           \A x \in Conns \ {c} : Queue(x)' = Queue(x),
           \A x \in Conns : Status(x)' = Status(x),
           UNCHANGED <<closed, inbound>>
    PROVE  D!Deliver(c)
BY DEF D!Deliver

\* the first one is dropped by a closed client,
LEMMA DiscardStep ==
    ASSUME NEW c \in Conns,
           closed, Queue(c) # <<>>, Queue(c)' = Tail(Queue(c)),
           \A x \in Conns \ {c} : Queue(x)' = Queue(x),
           \A x \in Conns : Status(x)' = Status(x),
           UNCHANGED <<closed, inbound, message_chan>>
    PROVE  D!Discard(c)
BY DEF D!Discard

\* the connection ends,
LEMMA EndStep ==
    ASSUME NEW c \in Conns,
           Status(c) = "open", Queue(c) = <<>> \/ closed,
           Status(c)' = "ended", Queue(c)' = <<>>,
           \A x \in Conns \ {c} : Queue(x)' = Queue(x) /\ Status(x)' = Status(x),
           UNCHANGED <<closed, inbound, message_chan>>
    PROVE  D!End(c)
BY DEF D!End

\* or it fails.
LEMMA FailStep ==
    ASSUME NEW c \in Conns,
           Status(c) = "open", Status(c)' = "failed", Queue(c)' = <<>>,
           \A x \in Conns \ {c} : Queue(x)' = Queue(x) /\ Status(x)' = Status(x),
           UNCHANGED <<closed, inbound, message_chan>>
    PROVE  D!Fail(c)
BY DEF D!Fail

\* The parts of a queue put together.
LEMMA ConcatFacts ==
    ASSUME NEW a \in Seq(Nat), NEW b \in Seq(Nat), NEW n \in Nat
    PROVE  /\ a \o <<>> = a
           /\ <<>> \o a = a
           /\ a \o b \in Seq(Nat)
           /\ a \o <<n>> = Append(a, n)
           /\ (<<n>> \o a) \o b # <<>>
           /\ Head((<<n>> \o a) \o b) = n
           /\ Tail((<<n>> \o a) \o b) = a \o b
<1>1. a \o <<>> = a /\ <<>> \o a = a
  BY ConcatEmptySeq
<1>2. a \o b \in Seq(Nat)
  BY ConcatProperties
<1>3. a \o <<n>> = Append(a, n)
  BY AppendIsConcat
<1> DEFINE s == <<n>> \o (a \o b)
<1>4. <<n>> \in Seq(Nat)
  OBVIOUS
<1>5. (<<n>> \o a) \o b = s
  BY <1>4, ConcatAssociative
<1>6. /\ s \in Seq(Nat)
      /\ Len(s) = 1 + Len(a \o b)
      /\ s[1] = n
      /\ \A k \in 1 .. Len(a \o b) : s[k + 1] = (a \o b)[k]
  <2>1. Len(<<n>>) = 1 /\ <<n>>[1] = n
    OBVIOUS
  <2>2. Len(a \o b) \in Nat
    BY <1>2, LenProperties
  <2> HIDE DEF s
  <2>3. /\ s \in Seq(Nat)
        /\ Len(s) = Len(<<n>>) + Len(a \o b)
        /\ \A i \in 1 .. Len(<<n>>) + Len(a \o b) :
             s[i] = IF i <= Len(<<n>>) THEN <<n>>[i] ELSE (a \o b)[i - Len(<<n>>)]
    BY <1>2, <1>4, ConcatProperties DEF s
  <2>4. \A i \in 1 .. 1 + Len(a \o b) : s[i] = IF i <= 1 THEN <<n>>[i] ELSE (a \o b)[i - 1]
    BY <2>1, <2>3
  <2> DEFINE t == a \o b
  <2> HIDE DEF t
  <2>5. ASSUME NEW k \in 1 .. Len(t) PROVE s[k + 1] = t[k]
    <3>1. Len(t) \in Nat
      BY <2>2 DEF t
    <3>2. k + 1 \in 1 .. 1 + Len(t) /\ ~(k + 1 <= 1) /\ (k + 1) - 1 = k
      BY <3>1
    <3>3. \A i \in 1 .. 1 + Len(t) : s[i] = IF i <= 1 THEN <<n>>[i] ELSE t[i - 1]
      BY <2>4 DEF t
    <3> QED
      BY <3>2, <3>3
  <2>6. s[1] = n
    BY <2>1, <2>2, <2>4
  <2>7. \A k \in 1 .. Len(a \o b) : s[k + 1] = (a \o b)[k]
    BY <2>5 DEF t
  <2> QED
    BY <2>1, <2>3, <2>6, <2>7
<1> HIDE DEF s
<1>7. s # <<>> /\ Head(s) = n
  BY <1>6, <1>2, LenProperties
<1>8. Tail(s) = a \o b
  <2>1. /\ Tail(s) \in Seq(Nat)
        /\ Len(Tail(s)) = Len(s) - 1
        /\ \A i \in 1 .. Len(Tail(s)) : Tail(s)[i] = s[i + 1]
    BY <1>6, <1>7, HeadTailProperties
  <2>2. Len(a \o b) \in Nat
    BY <1>2, LenProperties
  <2>3. Len(Tail(s)) = Len(a \o b)
    BY <2>1, <2>2, <1>6
  <2>4. \A i \in 1 .. Len(Tail(s)) : Tail(s)[i] = (a \o b)[i]
    BY <2>1, <2>3, <1>6
  <2> QED
    BY <2>1, <2>3, <2>4, <1>2, SeqEqual
<1> QED
  BY <1>1, <1>2, <1>3, <1>5, <1>7, <1>8

-----------------------------------------------------------------------------
(* The steps *)

\* The parts of the queue of a connection are sequences.
LEMMA PartsAreSeqs ==
    ASSUME FlowTypes, NEW c \in Conns
    PROVE  /\ Carried(frame[c]) \in Seq(Nat)
           /\ (IF rxx[c] = <<>> THEN <<>> ELSE Carried(Head(rxx[c]))) \in Seq(Nat)
           /\ Carried(ws_frame[c]) \in Seq(Nat)
<1>1. frame[c] \in AnyFrame /\ ws_frame[c] \in AnyFrame /\ rxx[c] \in Slots
  BY DEF FlowTypes
<1>2. rxx[c] # <<>> => Head(rxx[c]) \in AnyFrame
  BY <1>1, SlotFacts
<1>3. <<>> \in Seq(Nat)
  OBVIOUS
<1> QED
  BY <1>1, <1>2, <1>3, CarriedIsSeq

\* A frame the websocket task reads is put at the end of the queue, if it
\* carries a message and somebody is there to take it.
LEMMA ReadMaps ==
    ASSUME Flow, NEW c \in Conns, WsRead(c)
    PROVE  [D!Next]_(D!vars)
<1>1. PICK f \in AnyFrame : WsReads(c, f)
  BY WsReadsAFrame DEF Flow
<1>2. \A x \in Conns : Status(x)' = Status(x) /\ RxxUp(x)' = RxxUp(x)
  BY <1>1, StatusStays DEF WsReads
<1>3. \A x \in Conns \ {c} : Queue(x)' = Queue(x)
  BY <1>1, <1>2, QueueStays DEF WsReads, Flow, FlowTypes
<1>4. UNCHANGED <<closed, message_chan>>
  BY <1>1 DEF WsReads
<1>5. RxxUp(c) <=> Status(c) = "open"
  BY DEF RxxUp, Status, Flow, FlowTypes
<1>6. Queue(c)' = IF RxxUp(c) THEN Queue(c) \o Carried(f) ELSE Queue(c)
  <2>1. CASE ~RxxUp(c)
    BY <2>1, <1>2 DEF Queue
  <2>2. CASE RxxUp(c)
    <3> DEFINE a == Carried(frame[c])
               b == IF rxx[c] = <<>> THEN <<>> ELSE Carried(Head(rxx[c]))
               d == Carried(f)
    <3>1. a \in Seq(Nat) /\ b \in Seq(Nat) /\ d \in Seq(Nat)
      BY PartsAreSeqs, CarriedIsSeq DEF Flow
    <3>2. Carried(ws_frame[c]) = <<>>
      BY <1>1, NothingIsCarried DEF WsReads, Flow, FlowPlaces
    <3>3. Queue(c) = (a \o b) \o <<>>
      BY <2>2, <3>2 DEF Queue, UnderWay
    <3>4. RxxUp(c)' /\ Carried(frame[c])' = a
      BY <1>1, <1>2, <2>2 DEF WsReads
    <3>5. CASE rxx[c] = <<>>
      <4>0. rxx' = [rxx EXCEPT ![c] = <<f>>] /\ ws_frame' = ws_frame
        BY <1>1, <2>2, <3>5 DEF WsReads
      <4>1. rxx'[c] = <<f>> /\ rxx'[c] # <<>> /\ Head(rxx'[c]) = f /\ ws_frame'[c] = ws_frame[c]
        BY <4>0, SlotFacts DEF Flow, FlowTypes
      <4>2. Queue(c)' = (a \o d) \o <<>>
        BY <4>1, <3>4, <3>2 DEF Queue, UnderWay
      <4>3. b = <<>>
        BY <3>5
      <4> HIDE DEF a, b, d
      <4>4. (a \o d) \o <<>> = a \o d
        BY <3>1, ConcatFacts, 0 \in Nat
      <4>5. ((a \o b) \o <<>>) \o d = a \o d
        BY <3>1, <4>3, ConcatFacts, 0 \in Nat
      <4> QED
        BY <2>2, <3>3, <4>2, <4>4, <4>5 DEF d
    <3>6. CASE rxx[c] # <<>>
      <4>1. rxx'[c] = rxx[c] /\ ws_frame'[c] = f
        BY <1>1, <2>2, <3>6 DEF WsReads, Flow, FlowTypes
      <4>2. Queue(c)' = (a \o b) \o d
        BY <4>1, <3>4, <3>6 DEF Queue, UnderWay
      <4> HIDE DEF a, b, d
      <4>3. (a \o b) \o <<>> = a \o b
        BY <3>1, ConcatFacts, 0 \in Nat
      <4> QED
        BY <2>2, <3>3, <4>2, <4>3 DEF d
    <3> QED
      BY <3>5, <3>6
  <2> QED
    BY <2>1, <2>2
<1>7. Queue(c) \in Seq(Nat)
  <2>1. \A a, b, d \in Seq(Nat) : (a \o b) \o d \in Seq(Nat)
    BY ConcatFacts, 0 \in Nat
  <2>2. <<>> \in Seq(Nat)
    OBVIOUS
  <2> QED
    BY <2>1, <2>2, PartsAreSeqs DEF Queue, UnderWay, Flow
<1>8. CASE f.kind = "inbound"
  <2>1. inbound[c] \in Nat /\ f.n = inbound[c] + 1 /\ f.n \in Nat
    BY <1>1, <1>8 DEF WsReads, Flow, FlowTypes, AnyFrame
  <2>2. inbound' = [inbound EXCEPT ![c] = @ + 1]
    BY <1>1, <1>8, <2>1 DEF WsReads
  <2>3. Carried(f) = <<inbound[c] + 1>>
    BY <1>8, <2>1, CarriedIsSeq
  <2>4. Queue(c)' = IF Status(c) = "open"
                    THEN Append(Queue(c), inbound[c] + 1) ELSE Queue(c)
    <3>1. Queue(c) \o <<inbound[c] + 1>> = Append(Queue(c), inbound[c] + 1)
      BY <1>7, <2>1, AppendIsConcat, inbound[c] + 1 \in Nat
    <3> QED
      BY <1>5, <1>6, <2>3, <3>1
  <2>5. D!Arrive(c)
    BY <1>2, <1>3, <1>4, <2>2, <2>4, ArriveStep
  <2> QED
    BY <2>5 DEF D!Next
<1>9. CASE f.kind # "inbound"
  <2>1. inbound' = inbound
    BY <1>1, <1>9 DEF WsReads, Flow, FlowTypes
  <2>2. Queue(c)' = Queue(c)
    BY <1>6, <1>7, <1>9, CarriedIsSeq, ConcatFacts, 0 \in Nat
  <2> QED
    BY <1>2, <1>3, <1>4, <2>1, <2>2, NoStep
<1> QED
  BY <1>8, <1>9

\* The frame of a blocked send moves up within the queue.
LEMMA UnblockMaps ==
    ASSUME Flow, NEW c \in Conns, WsUnblock(c)
    PROVE  UNCHANGED D!vars
<1>1. /\ UNCHANGED <<closed, inbound, message_chan, handler, frame>>
      /\ ws_frame' = [ws_frame EXCEPT ![c] = NoFrame]
      /\ \A x \in Conns \ {c} : rxx'[x] = rxx[x]
  BY DEF WsUnblock, handlerVars, chanVars, Flow, FlowTypes
<1>2. \A x \in Conns : Status(x)' = Status(x) /\ RxxUp(x)' = RxxUp(x)
  BY <1>1, StatusStays
<1>3. \A x \in Conns \ {c} : Queue(x)' = Queue(x)
  BY <1>1, <1>2, QueueStays DEF Flow, FlowTypes
<1>4. Queue(c)' = Queue(c)
  <2>1. CASE ~RxxUp(c)
    BY <2>1, <1>2 DEF Queue
  <2>2. CASE RxxUp(c)
    <3> DEFINE a == Carried(frame[c])
               d == Carried(ws_frame[c])
    <3>1. a \in Seq(Nat) /\ d \in Seq(Nat)
      BY PartsAreSeqs DEF Flow
    <3>2. rxx[c] = <<>> /\ rxx' = [rxx EXCEPT ![c] = <<ws_frame[c]>>]
      BY <2>2 DEF WsUnblock
    <3>3. ws_frame[c] \in AnyFrame
      BY DEF Flow, FlowTypes
    <3>4. rxx'[c] # <<>> /\ Head(rxx'[c]) = ws_frame[c] /\ Carried(ws_frame[c])' = <<>>
      BY <1>1, <3>2, <3>3, SlotFacts, NothingIsCarried DEF Flow, FlowTypes
    <3>5. Queue(c) = (a \o <<>>) \o d
      BY <2>2, <3>2 DEF Queue, UnderWay
    <3>6. Queue(c)' = (a \o d) \o <<>>
      BY <1>1, <1>2, <2>2, <3>4 DEF Queue, UnderWay
    <3> HIDE DEF a, d
    <3>7. (a \o <<>>) \o d = (a \o d) \o <<>>
      BY <3>1, ConcatFacts, 0 \in Nat
    <3> QED
      BY <3>5, <3>6, <3>7
  <2> QED
    BY <2>1, <2>2
<1> QED
  BY <1>1, <1>2, <1>3, <1>4, NoStep

\* The handler takes a frame, which stays the first of the queue unless the
\* client is closed, or sees the end of its websocket task with none left.
LEMMA RecvMaps ==
    ASSUME Flow, NEW c \in Conns, HandlerRecv(c)
    PROVE  [D!Next]_(D!vars)
<1>1. UNCHANGED <<closed, inbound, message_chan, ws_frame, ws>>
  BY DEF HandlerRecv, wsVars, chanVars
<1>2. /\ \A x \in Conns \ {c} : /\ handler'[x] = handler[x]
                                /\ frame'[x] = frame[x]
                                /\ rxx'[x] = rxx[x]
      /\ handler[c] = "recv"
  BY DEF HandlerRecv, Flow, FlowTypes
<1>3. \A x \in Conns \ {c} : Status(x)' = Status(x) /\ RxxUp(x)' = RxxUp(x)
  BY <1>2, StatusStays
<1>4. \A x \in Conns \ {c} : Queue(x)' = Queue(x)
  BY <1>1, <1>2, <1>3, QueueStays
<1>5. RxxUp(c) /\ Status(c) = "open" /\ Carried(frame[c]) = <<>>
  BY <1>2, NothingIsCarried DEF RxxUp, Status, Flow, FlowPlaces
<1> DEFINE b == IF rxx[c] = <<>> THEN <<>> ELSE Carried(Head(rxx[c]))
           d == Carried(ws_frame[c])
<1>6. b \in Seq(Nat) /\ d \in Seq(Nat)
  BY PartsAreSeqs DEF Flow
<1>7. Queue(c) = (<<>> \o b) \o d
  BY <1>5 DEF Queue, UnderWay
<1>8. CASE rxx[c] = <<>>
  <2>1. ~WsUp(c) /\ handler' = [handler EXCEPT ![c] = "ended"]
    BY <1>8 DEF HandlerRecv
  <2>2. d = <<>>
    BY <2>1, NothingIsCarried DEF WsUp, Flow, FlowPlaces
  <2>3. Status(c)' = "ended" /\ ~RxxUp(c)'
    BY <2>1 DEF Status, RxxUp, Flow, FlowTypes
  <2>4. Queue(c)' = <<>>
    BY <2>3 DEF Queue
  <2>5. Queue(c) = <<>>
    <3>1. b = <<>>
      BY <1>8
    <3> HIDE DEF b, d
    <3> QED
      BY <1>6, <1>7, <2>2, <3>1, ConcatFacts, 0 \in Nat
  <2>6. D!End(c)
    BY <1>1, <1>3, <1>4, <1>5, <2>3, <2>4, <2>5, EndStep
  <2> QED
    BY <2>6 DEF D!Next
<1>9. CASE rxx[c] # <<>>
  <2>1. PICK f \in AnyFrame : rxx[c] = <<f>>
    BY <1>9, SlotFacts DEF Flow, FlowTypes
  <2>2. Head(rxx[c]) = f /\ b = Carried(f)
    BY <1>9, <2>1, SlotFacts
  <2>3. /\ rxx' = [rxx EXCEPT ![c] = <<>>]
        /\ frame' = [frame EXCEPT ![c] = IF closed THEN @ ELSE Head(rxx[c])]
        /\ handler' = [handler EXCEPT ![c] = IF closed THEN "top" ELSE "handle"]
    BY <1>9 DEF HandlerRecv
  <2>4. Status(c)' = "open" /\ RxxUp(c)'
    BY <2>3 DEF Status, RxxUp, Flow, FlowTypes
  <2>5. \A x \in Conns : Status(x)' = Status(x)
    BY <1>3, <1>5, <2>4
  <2>6. rxx'[c] = <<>> /\ frame'[c] = IF closed THEN frame[c] ELSE f
    BY <2>2, <2>3 DEF Flow, FlowTypes
  <2>7. Queue(c)' = (Carried(IF closed THEN frame[c] ELSE f) \o <<>>) \o d
    BY <1>1, <2>4, <2>6 DEF Queue, UnderWay
  <2>8. CASE ~closed
    <3>1. Queue(c)' = (b \o <<>>) \o d
      BY <2>2, <2>7, <2>8
    <3> HIDE DEF b, d
    <3>2. Queue(c)' = Queue(c)
      BY <1>6, <1>7, <3>1, ConcatFacts, 0 \in Nat
    <3> QED
      BY <1>1, <1>4, <2>5, <3>2, NoStep
  <2>9. CASE closed
    <3>1. Queue(c)' = (<<>> \o <<>>) \o d
      BY <1>5, <2>7, <2>9
    <3>2. CASE f.kind = "inbound"
      <4>1. b = <<f.n>> /\ f.n \in Nat
        BY <2>2, <3>2, CarriedIsSeq DEF AnyFrame
      <4> HIDE DEF b, d
      <4>2. /\ (<<>> \o <<>>) \o d = d
            /\ (<<>> \o b) \o d = (<<f.n>> \o <<>>) \o d
        BY <1>6, <4>1, ConcatFacts, <<>> \in Seq(Nat)
      <4>3. /\ (<<f.n>> \o <<>>) \o d # <<>>
            /\ Tail((<<f.n>> \o <<>>) \o d) = <<>> \o d
        BY <1>6, <4>1, ConcatFacts, <<>> \in Seq(Nat)
      <4>4. <<>> \o d = d
        BY <1>6, ConcatFacts, 0 \in Nat
      <4>5. Queue(c) # <<>> /\ Queue(c)' = Tail(Queue(c))
        BY <1>7, <3>1, <4>2, <4>3, <4>4
      <4>6. D!Discard(c)
        BY <1>1, <1>4, <2>5, <2>9, <4>5, DiscardStep
      <4> QED
        BY <4>6 DEF D!Next
    <3>3. CASE f.kind # "inbound"
      <4>1. b = <<>>
        BY <2>2, <3>3, CarriedIsSeq
      <4> HIDE DEF b, d
      <4>2. Queue(c)' = Queue(c)
        BY <1>7, <3>1, <4>1
      <4> QED
        BY <1>1, <1>4, <2>5, <4>2, NoStep
    <3> QED
      BY <3>2, <3>3
  <2> QED
    BY <2>8, <2>9
<1> QED
  BY <1>8, <1>9

\* What handle_message can decide: a message is dropped only by a closed client
\* or a panic.
LEMMA AfterHandleFacts ==
    ASSUME NEW f \in AnyFrame, NEW pc \in AfterHandle(f)
    PROVE  /\ pc \in {"panicked", "connect_send", "message_send", "top"}
           /\ f.kind = "inbound" /\ pc \in {"connect_send", "top"} => closed
<1>1. f.kind = "fatal" => AfterHandle(f) = {"panicked"}
  BY DEF AfterHandle
<1>2. f.kind = "setClient" /\ ~closed => AfterHandle(f) = {"connect_send", "panicked"}
  BY DEF AfterHandle
<1>3. f.kind = "inbound" /\ ~closed => AfterHandle(f) = {"message_send"}
  BY DEF AfterHandle
<1>4. /\ f.kind # "fatal"
      /\ ~(f.kind = "setClient" /\ ~closed)
      /\ ~(f.kind = "inbound" /\ ~closed)
      => AfterHandle(f) = {"top"}
  BY DEF AfterHandle
<1> QED
  BY <1>1, <1>2, <1>3, <1>4

\* The handler decides what to do with the first message of the queue.
LEMMA HandleMaps ==
    ASSUME Flow, NEW c \in Conns, HandleMessage(c)
    PROVE  [D!Next]_(D!vars)
<1>1. /\ UNCHANGED <<closed, inbound, message_chan, ws_frame, rxx>>
      /\ handler[c] = "handle"
  BY DEF HandleMessage, wsVars, chanVars
<1>2. PICK pc \in AfterHandle(frame[c]) :
         /\ handler' = [handler EXCEPT ![c] = pc]
         /\ frame' = [frame EXCEPT ![c] = IF pc = "message_send" THEN @ ELSE NoFrame]
  BY DEF HandleMessage
<1>3. frame[c] \in AnyFrame
  BY DEF Flow, FlowTypes
<1>4. /\ pc \in {"panicked", "connect_send", "message_send", "top"}
      /\ frame[c].kind = "inbound" /\ pc \in {"connect_send", "top"} => closed
  BY <1>2, <1>3, AfterHandleFacts
<1>5. /\ handler'[c] = pc
      /\ frame'[c] = IF pc = "message_send" THEN frame[c] ELSE NoFrame
      /\ \A x \in Conns \ {c} : handler'[x] = handler[x] /\ frame'[x] = frame[x]
  BY <1>2 DEF Flow, FlowTypes
<1>6. \A x \in Conns \ {c} : Status(x)' = Status(x) /\ RxxUp(x)' = RxxUp(x)
  BY <1>5, StatusStays
<1>7. \A x \in Conns \ {c} : Queue(x)' = Queue(x)
  BY <1>1, <1>5, <1>6, QueueStays
<1>8. RxxUp(c) /\ Status(c) = "open"
  BY <1>1 DEF RxxUp, Status
<1>9. CASE pc = "panicked"
  <2>1. Status(c)' = "failed" /\ ~RxxUp(c)'
    BY <1>5, <1>9 DEF Status, RxxUp
  <2>2. Queue(c)' = <<>>
    BY <2>1 DEF Queue
  <2>3. D!Fail(c)
    BY <1>1, <1>6, <1>7, <1>8, <2>1, <2>2, FailStep
  <2> QED
    BY <2>3 DEF D!Next
<1>10. CASE pc # "panicked"
  <2>1. Status(c)' = "open" /\ RxxUp(c)'
    BY <1>4, <1>5, <1>10 DEF Status, RxxUp
  <2>2. \A x \in Conns : Status(x)' = Status(x)
    BY <1>6, <1>8, <2>1
  <2>3. CASE pc = "message_send"
    <3>1. Queue(c)' = Queue(c)
      BY <1>1, <1>5, <1>8, <2>1, <2>3, QueueStays
    <3> QED
      BY <1>1, <1>7, <2>2, <3>1, NoStep
  <2>4. CASE pc # "message_send"
    <3> DEFINE a == Carried(frame[c])
               b == IF rxx[c] = <<>> THEN <<>> ELSE Carried(Head(rxx[c]))
               d == Carried(ws_frame[c])
    <3>1. a \in Seq(Nat) /\ b \in Seq(Nat) /\ d \in Seq(Nat)
      BY PartsAreSeqs DEF Flow
    <3>2. Queue(c) = (a \o b) \o d
      BY <1>8 DEF Queue, UnderWay
    <3>3. Queue(c)' = (<<>> \o b) \o d
      BY <1>1, <1>5, <2>1, <2>4, NothingIsCarried DEF Queue, UnderWay
    <3>4. CASE frame[c].kind = "inbound"
      <4>1. closed
        BY <1>4, <1>10, <2>4, <3>4
      <4>2. a = <<frame[c].n>> /\ frame[c].n \in Nat
        BY <1>3, <3>4, CarriedIsSeq DEF AnyFrame
      <4> HIDE DEF a, b, d
      <4>3. <<>> \o b = b
        BY <3>1, ConcatFacts, 0 \in Nat
      <4>4. Queue(c) # <<>> /\ Queue(c)' = Tail(Queue(c))
        BY <3>1, <3>2, <3>3, <4>2, <4>3, ConcatFacts
      <4>5. D!Discard(c)
        BY <1>1, <1>7, <2>2, <4>1, <4>4, DiscardStep
      <4> QED
        BY <4>5 DEF D!Next
    <3>5. CASE frame[c].kind # "inbound"
      <4>1. a = <<>>
        BY <1>3, <3>5, CarriedIsSeq
      <4> HIDE DEF a, b, d
      <4>2. Queue(c)' = Queue(c)
        BY <3>2, <3>3, <4>1
      <4> QED
        BY <1>1, <1>7, <2>2, <4>2, NoStep
    <3> QED
      BY <3>4, <3>5
  <2> QED
    BY <2>3, <2>4
<1> QED
  BY <1>9, <1>10

\* message_tx.send hands over the first message of the queue, or panics.
LEMMA SendMaps ==
    ASSUME Flow, NEW c \in Conns, MessageSend(c)
    PROVE  [D!Next]_(D!vars)
<1>1. /\ UNCHANGED <<closed, inbound, ws_frame, rxx>>
      /\ handler[c] = "message_send"
      /\ frame' = [frame EXCEPT ![c] = NoFrame]
      /\ \A x \in Conns \ {c} : handler'[x] = handler[x]
  BY DEF MessageSend, wsVars, Flow, FlowTypes
<1>2. /\ frame'[c] = NoFrame
      /\ \A x \in Conns \ {c} : frame'[x] = frame[x]
  BY <1>1 DEF Flow, FlowTypes
<1>3. \A x \in Conns \ {c} : Status(x)' = Status(x) /\ RxxUp(x)' = RxxUp(x)
  BY <1>1, StatusStays
<1>4. \A x \in Conns \ {c} : Queue(x)' = Queue(x)
  BY <1>1, <1>2, <1>3, QueueStays
<1>5. RxxUp(c) /\ Status(c) = "open"
  BY <1>1 DEF RxxUp, Status
<1>6. CASE app = "gone"
  <2>1. handler'[c] = "panicked" /\ message_chan' = message_chan
    BY <1>6 DEF MessageSend, Flow, FlowTypes
  <2>2. Status(c)' = "failed" /\ ~RxxUp(c)'
    BY <2>1 DEF Status, RxxUp
  <2>3. Queue(c)' = <<>>
    BY <2>2 DEF Queue
  <2>4. D!Fail(c)
    BY <1>1, <1>3, <1>4, <1>5, <2>1, <2>2, <2>3, FailStep
  <2> QED
    BY <2>4 DEF D!Next
<1>7. CASE app # "gone"
  <2>1. /\ message_chan = <<>>
        /\ message_chan' = << <<c, frame[c].n>> >>
        /\ handler'[c] = "top"
    BY <1>7 DEF MessageSend, Flow, FlowTypes
  <2>2. Status(c)' = "open" /\ RxxUp(c)'
    BY <2>1 DEF Status, RxxUp
  <2> DEFINE n == frame[c].n
             b == IF rxx[c] = <<>> THEN <<>> ELSE Carried(Head(rxx[c]))
             d == Carried(ws_frame[c])
  <2>3. b \in Seq(Nat) /\ d \in Seq(Nat)
    BY PartsAreSeqs DEF Flow
  <2>4. frame[c] \in AnyFrame /\ frame[c].kind = "inbound"
    BY <1>1 DEF Flow, FlowTypes, FlowPlaces
  <2>5. n \in Nat /\ Carried(frame[c]) = <<n>>
    BY <2>4, CarriedIsSeq DEF AnyFrame
  <2>6. Queue(c) = (<<n>> \o b) \o d
    BY <1>5, <2>5 DEF Queue, UnderWay
  <2>7. Queue(c)' = (<<>> \o b) \o d
    BY <1>1, <1>2, <2>2, NothingIsCarried DEF Queue, UnderWay
  <2>8. message_chan' = << <<c, n>> >>
    BY <2>1
  <2> HIDE DEF n, b, d
  <2>9. <<>> \o b = b
    BY <2>3, ConcatFacts, 0 \in Nat
  <2>10. /\ Queue(c) # <<>>
         /\ Head(Queue(c)) = n
         /\ Queue(c)' = Tail(Queue(c))
    <3>1. n \in Nat
      BY <2>5
    <3>2. /\ (<<n>> \o b) \o d # <<>>
          /\ Head((<<n>> \o b) \o d) = n
          /\ Tail((<<n>> \o b) \o d) = b \o d
      BY <2>3, <3>1, ConcatFacts
    <3> QED
      BY <2>6, <2>7, <2>9, <3>2
  <2>11. message_chan' = << <<c, Head(Queue(c))>> >>
    BY <2>8, <2>10
  <2>12. \A x \in Conns : Status(x)' = Status(x)
    BY <1>3, <1>5, <2>2
  <2>13. D!Deliver(c)
    BY <1>1, <1>4, <1>5, <2>1, <2>10, <2>11, <2>12, DeliverStep
  <2> QED
    BY <2>13 DEF D!Next
<1> QED
  BY <1>6, <1>7

\* A handler that only moves on, returns from a closed client or panics.
LEMMA MoveMaps ==
    ASSUME Flow, NEW c \in Conns, RxxUp(c),
           UNCHANGED <<closed, inbound, message_chan, frame, rxx, ws_frame>>,
           NEW h, handler' = [handler EXCEPT ![c] = h],
           \/ h \in {"installed", "top", "recv"}
           \/ h = "returned" /\ closed
           \/ h = "panicked"
    PROVE  [D!Next]_(D!vars)
<1>1. handler'[c] = h /\ \A x \in Conns \ {c} : handler'[x] = handler[x]
  BY DEF Flow, FlowTypes
<1>2. \A x \in Conns \ {c} : Status(x)' = Status(x) /\ RxxUp(x)' = RxxUp(x)
  BY <1>1, StatusStays
<1>3. \A x \in Conns \ {c} : Queue(x)' = Queue(x)
  BY <1>2, QueueStays
<1>4. Status(c) = "open"
  BY DEF RxxUp, Status, Flow, FlowTypes
<1>5. CASE h \in {"installed", "top", "recv"}
  <2>1. Status(c)' = "open" /\ RxxUp(c)'
    BY <1>1, <1>5 DEF Status, RxxUp
  <2>2. Queue(c)' = Queue(c)
    BY <2>1, QueueStays
  <2> QED
    BY <1>2, <1>3, <1>4, <2>1, <2>2, NoStep
<1>6. CASE h = "returned" /\ closed
  <2>1. Status(c)' = "ended" /\ ~RxxUp(c)'
    BY <1>1, <1>6 DEF Status, RxxUp
  <2>2. Queue(c)' = <<>>
    BY <2>1 DEF Queue
  <2>3. D!End(c)
    BY <1>2, <1>3, <1>4, <1>6, <2>1, <2>2, EndStep
  <2> QED
    BY <2>3 DEF D!Next
<1>7. CASE h = "panicked"
  <2>1. Status(c)' = "failed" /\ ~RxxUp(c)'
    BY <1>1, <1>7 DEF Status, RxxUp
  <2>2. Queue(c)' = <<>>
    BY <2>1 DEF Queue
  <2>3. D!Fail(c)
    BY <1>2, <1>3, <1>4, <2>1, <2>2, FailStep
  <2> QED
    BY <2>3 DEF D!Next
<1> QED
  BY <1>5, <1>6, <1>7

\* Every step of a handler task,
LEMMA HandlerMaps ==
    ASSUME Flow, NEW c \in Conns, HandlerStep(c)
    PROVE  [D!Next]_(D!vars)
<1>1. CASE HandlerTop(c)
  BY <1>1, MoveMaps DEF HandlerTop, RxxUp, wsVars, chanVars
<1>2. CASE ConnectSend(c)
  BY <1>2, MoveMaps DEF ConnectSend, RxxUp, wsVars
<1> QED
  BY <1>1, <1>2, RecvMaps, HandleMaps, SendMaps DEF HandlerStep

\* of a connector,
LEMMA ConnectorMaps ==
    ASSUME Flow, NEW c \in Conns, ConnectorStep(c)
    PROVE  [D!Next]_(D!vars)
<1>1. CASE InstallNode(c)
  BY <1>1, MoveMaps DEF InstallNode, RxxUp, wsVars, chanVars
<1>2. CASE StartTasks(c)
  BY <1>2, MoveMaps DEF StartTasks, RxxUp, wsVars, chanVars
<1>3. CASE ConnectorPanic(c)
  BY <1>3, MoveMaps DEF ConnectorPanic, RxxUp, wsVars, chanVars
<1> QED
  BY <1>1, <1>2, <1>3 DEF ConnectorStep

\* Steps that touch no place a frame can be in.
LEMMA NothingMoves ==
    ASSUME UNCHANGED <<frame, rxx, ws_frame, handler>>
    PROVE  \A x \in Conns : Queue(x)' = Queue(x) /\ Status(x)' = Status(x)
BY StatusStays, QueueStays

\* of a websocket task,
LEMMA WsMaps ==
    ASSUME Flow, NEW c \in Conns, WsStep(c)
    PROVE  [D!Next]_(D!vars)
<1>1. CASE WsEnd(c)
  <2>1. UNCHANGED <<frame, rxx, ws_frame, handler, closed, inbound, message_chan>>
    BY <1>1 DEF WsEnd, handlerVars, chanVars
  <2> QED
    BY <2>1, NothingMoves, NoStep
<1> QED
  BY <1>1, ReadMaps, UnblockMaps DEF WsStep

\* a dial, which concerns no queue yet,
LEMMA DialMaps == Dial => UNCHANGED D!vars
<1> SUFFICES ASSUME Dial PROVE UNCHANGED D!vars
  OBVIOUS
<1>1. UNCHANGED <<frame, rxx, ws_frame, handler, closed, inbound, message_chan>>
  BY DEF Dial, handlerVars, chanVars
<1> QED
  BY <1>1, NothingMoves, NoStep

\* and of the application is a step of Delivery or none.
LEMMA AppMaps == AppStep => [D!Next]_(D!vars)
<1> SUFFICES ASSUME AppStep PROVE [D!Next]_(D!vars)
  OBVIOUS
<1>1. UNCHANGED <<frame, rxx, ws_frame, handler, inbound>>
  BY DEF AppStep, WaitForConnect, WaitForMessage, Close, Drop, handlerVars, wsVars
<1>2. \A x \in Conns : Queue(x)' = Queue(x) /\ Status(x)' = Status(x)
  BY <1>1, NothingMoves
<1>3. CASE WaitForConnect \/ Drop
  <2>1. UNCHANGED <<closed, message_chan>>
    BY <1>3 DEF WaitForConnect, Drop, chanVars
  <2> QED
    BY <1>1, <1>2, <2>1, NoStep
<1>4. CASE WaitForMessage
  <2>1. D!Take
    BY <1>1, <1>2, <1>4 DEF WaitForMessage, D!Take
  <2> QED
    BY <2>1 DEF D!Next
<1>5. CASE Close
  <2>1. D!Close
    BY <1>1, <1>2, <1>5 DEF Close, D!Close, chanVars
  <2> QED
    BY <2>1 DEF D!Next
<1> QED
  BY <1>3, <1>4, <1>5 DEF AppStep

\* The tasks and channels of a Client are, for the application, the queues of
\* Delivery: whatever the tasks do, in whatever order, messages are delivered
\* once and in order, and lost only to a panic or after close().
THEOREM ReceivingImplementsDelivery == Spec => ImplementsDelivery
<1>1. Init => D!Init
  <2> SUFFICES ASSUME Init PROVE D!Init
    OBVIOUS
  <2>1. \A c \in Conns : Queue(c) = <<>> /\ Status(c) = "open"
    BY NothingIsCarried DEF Init, Queue, UnderWay, Status, RxxUp
  <2> QED
    BY <2>1 DEF Init, D!Init
<1>2. Flow /\ [Next]_vars => [D!Next]_(D!vars)
  <2>1. Flow /\ UNCHANGED vars => UNCHANGED D!vars
    <3> SUFFICES ASSUME UNCHANGED vars PROVE UNCHANGED D!vars
      OBVIOUS
    <3>1. UNCHANGED <<frame, rxx, ws_frame, handler, closed, inbound, message_chan>>
      BY DEF vars, handlerVars, wsVars, chanVars
    <3> QED
      BY <3>1, NothingMoves, NoStep
  <2> QED
    BY <2>1, DialMaps, ConnectorMaps, WsMaps, HandlerMaps, AppMaps DEF Next
<1> QED
  BY <1>1, <1>2, InitFlow, FlowIsInductive, PTL DEF Spec, ImplementsDelivery, D!Spec

-----------------------------------------------------------------------------
(* Sends after close() *)

\* A handler that completed a send after close() is on its way out.
Late ==
    /\ sent_late \in [Conns -> Nat]
    /\ \A c \in Conns : sent_late[c] # 0 =>
         /\ closed /\ sent_late[c] = 1
         /\ handler[c] \in {"top", "returned"}

\* Only the two sends count, and neither is where such a handler can be.
LEMMA NextLate == FlowTypes /\ Late /\ [Next]_vars => Late'
<1> SUFFICES ASSUME FlowTypes, Late, [Next]_vars PROVE Late'
  OBVIOUS
<1> USE DEF FlowTypes, Late
<1>1. ASSUME NEW c \in Conns, HandlerTop(c) PROVE Late'
  BY <1>1 DEF HandlerTop
<1>2. ASSUME NEW c \in Conns, HandlerRecv(c) PROVE Late'
  BY <1>2 DEF HandlerRecv
<1>3. ASSUME NEW c \in Conns, HandleMessage(c) PROVE Late'
  <2>1. PICK pc : handler[c] = "handle" /\ handler' = [handler EXCEPT ![c] = pc]
    BY <1>3 DEF HandleMessage
  <2> QED
    BY <1>3, <2>1 DEF HandleMessage
<1>4. ASSUME NEW c \in Conns, ConnectSend(c) PROVE Late'
  <2>1. sent_late[c] = 0 /\ closed' = closed
    BY <1>4 DEF ConnectSend
  <2>2. CASE app = "gone"
    BY <1>4, <2>1, <2>2 DEF ConnectSend
  <2>3. CASE app # "gone" /\ closed
    <3>1. /\ sent_late' = [sent_late EXCEPT ![c] = 1]
          /\ handler' = [handler EXCEPT ![c] = "top"]
      BY <1>4, <2>1, <2>3 DEF ConnectSend
    <3> QED
      BY <2>1, <2>3, <3>1
  <2>4. CASE app # "gone" /\ ~closed
    <3>1. sent_late' = [sent_late EXCEPT ![c] = sent_late[c]]
      BY <1>4, <2>4 DEF ConnectSend
    <3> QED
      BY <2>1, <2>4, <3>1
  <2> QED
    BY <2>2, <2>3, <2>4
<1>5. ASSUME NEW c \in Conns, MessageSend(c) PROVE Late'
  <2>1. sent_late[c] = 0 /\ closed' = closed
    BY <1>5 DEF MessageSend
  <2>2. CASE app = "gone"
    BY <1>5, <2>1, <2>2 DEF MessageSend
  <2>3. CASE app # "gone" /\ closed
    <3>1. /\ sent_late' = [sent_late EXCEPT ![c] = 1]
          /\ handler' = [handler EXCEPT ![c] = "top"]
      BY <1>5, <2>1, <2>3 DEF MessageSend
    <3> QED
      BY <2>1, <2>3, <3>1
  <2>4. CASE app # "gone" /\ ~closed
    <3>1. sent_late' = [sent_late EXCEPT ![c] = sent_late[c]]
      BY <1>5, <2>4 DEF MessageSend
    <3> QED
      BY <2>1, <2>4, <3>1
  <2> QED
    BY <2>2, <2>3, <2>4
<1>6. ASSUME NEW c \in Conns, ConnectorStep(c) PROVE Late'
  BY <1>6 DEF ConnectorStep, InstallNode, StartTasks, ConnectorPanic
<1>7. CASE Dial \/ AppStep \/ UNCHANGED vars \/ \E c \in Conns : WsStep(c)
  <2>1. UNCHANGED <<handler, sent_late>> /\ (closed => closed')
    BY <1>7 DEF Dial, AppStep, WaitForConnect, WaitForMessage, Close, Drop, WsStep, WsRead,
                WsUnblock, WsEnd, vars, handlerVars
  <2> QED
    BY <2>1
<1> QED
  BY <1>1, <1>2, <1>3, <1>4, <1>5, <1>6, <1>7 DEF Next, HandlerStep

\* Whatever the handlers were doing at close(), each completes at most one
\* more send.
THEOREM CloseStopsTheHandlers == Spec => []CloseStopsDelivery
<1>1. Init => FlowTypes /\ Late
  BY InitFlow DEF Init, Flow, Late
<1>2. Flow /\ Late => CloseStopsDelivery
  BY DEF Late, CloseStopsDelivery
<1>3. Init => Flow /\ Late
  BY <1>1, InitFlow
<1>4. Flow /\ Late /\ [Next]_vars => (Flow /\ Late)'
  BY FlowIsInductive, NextLate DEF Flow
<1> QED
  BY <1>2, <1>3, <1>4, PTL DEF Spec

-----------------------------------------------------------------------------
(* The order of delivery *)

\* The number of messages a frame, a slot of rxx carries.
Ones(f) == IF f.kind = "inbound" THEN 1 ELSE 0
SlotOnes(s) == IF s = <<>> THEN 0 ELSE Ones(Head(s))

\* The number of the youngest message with the handler or before it, and of
\* the youngest in rxx or before it.
Held(c) == delivered[c] + Ones(frame[c])
Passed(c) == Held(c) + SlotOnes(rxx[c])

\* Every message under way has the number that its place calls for.
InTurn(c) ==
    /\ frame[c].kind = "inbound" => frame[c].n = Held(c)
    /\ rxx[c] # <<>> /\ Head(rxx[c]).kind = "inbound" => Head(rxx[c]).n = Passed(c)
    /\ ws_frame[c].kind = "inbound" => ws_frame[c].n = Passed(c) + 1
    /\ inbound[c] = Passed(c) + Ones(ws_frame[c])

Order ==
    /\ delivered \in [Conns -> Nat]
    /\ \A c \in Conns : ~closed /\ RxxUp(c) => InTurn(c)

\* A connection that a step does not touch keeps its order.
LEMMA TurnStays ==
    ASSUME NEW x \in Conns, InTurn(x),
           frame'[x] = frame[x], rxx'[x] = rxx[x], ws_frame'[x] = ws_frame[x],
           inbound'[x] = inbound[x], delivered'[x] = delivered[x]
    PROVE  InTurn(x)'
BY DEF InTurn, Held, Passed

\* It suffices to look at the connection whose task moves.
LEMMA OneConnMoves ==
    ASSUME Order, NEW c \in Conns, closed' = closed,
           delivered' \in [Conns -> Nat],
           \A x \in Conns \ {c} :
               /\ frame'[x] = frame[x] /\ rxx'[x] = rxx[x] /\ ws_frame'[x] = ws_frame[x]
               /\ inbound'[x] = inbound[x] /\ delivered'[x] = delivered[x]
               /\ handler'[x] = handler[x],
           ~closed /\ RxxUp(c)' => InTurn(c)'
    PROVE  Order'
<1>1. ASSUME NEW x \in Conns, ~closed', RxxUp(x)' PROVE InTurn(x)'
  <2>1. CASE x = c
    BY <1>1, <2>1
  <2>2. CASE x # c
    <3>1. RxxUp(x)
      BY <1>1, <2>2 DEF RxxUp
    <3>2. InTurn(x)
      BY <1>1, <3>1 DEF Order
    <3> QED
      BY <2>2, <3>2, TurnStays
  <2> QED
    BY <2>1, <2>2
<1> QED
  BY <1>1 DEF Order

\* A message that is read gets the number after the last one.
LEMMA ReadInOrder ==
    ASSUME Flow, Order, NEW c \in Conns, WsRead(c)
    PROVE  Order'
<1>1. PICK f \in AnyFrame : WsReads(c, f)
  BY WsReadsAFrame DEF Flow
<1>2. UNCHANGED <<delivered, handler, closed>>
  BY DEF WsRead, handlerVars
<1>3. \A x \in Conns \ {c} :
         /\ frame'[x] = frame[x] /\ rxx'[x] = rxx[x] /\ ws_frame'[x] = ws_frame[x]
         /\ inbound'[x] = inbound[x] /\ delivered'[x] = delivered[x]
         /\ handler'[x] = handler[x]
  BY <1>1, <1>2 DEF WsReads, Flow, FlowTypes
<1>4. ASSUME ~closed, RxxUp(c)' PROVE InTurn(c)'
  <2>1. RxxUp(c) /\ InTurn(c)
    BY <1>2, <1>4 DEF RxxUp, Order
  <2>2. /\ frame'[c] = frame[c] /\ delivered'[c] = delivered[c]
        /\ inbound'[c] = IF f.kind = "inbound" THEN inbound[c] + 1 ELSE inbound[c]
        /\ f.kind = "inbound" => f.n = inbound[c] + 1
        /\ ws_frame[c] = NoFrame
        /\ delivered[c] \in Nat /\ inbound[c] \in Nat
    BY <1>1, <1>2 DEF WsReads, Flow, FlowTypes, FlowPlaces, Order
  <2>3. CASE rxx[c] = <<>>
    <3>1. rxx'[c] = <<f>> /\ ws_frame'[c] = ws_frame[c]
      BY <1>1, <2>1, <2>3 DEF WsReads, Flow, FlowTypes
    <3>2. rxx'[c] # <<>> /\ Head(rxx'[c]) = f
      BY <3>1, SlotFacts
    <3> QED
      BY <2>1, <2>2, <2>3, <3>1, <3>2 DEF InTurn, Held, Passed, Ones, SlotOnes, NoFrame
  <2>4. CASE rxx[c] # <<>>
    <3>1. rxx'[c] = rxx[c] /\ ws_frame'[c] = f
      BY <1>1, <2>1, <2>4 DEF WsReads, Flow, FlowTypes
    <3> QED
      BY <2>1, <2>2, <2>4, <3>1 DEF InTurn, Held, Passed, Ones, SlotOnes, NoFrame
  <2> QED
    BY <2>3, <2>4
<1> QED
  BY <1>2, <1>3, <1>4, OneConnMoves DEF Order

\* The send that finds room moves its frame to the end of the empty rxx.
LEMMA UnblockInOrder ==
    ASSUME Flow, Order, NEW c \in Conns, WsUnblock(c)
    PROVE  Order'
<1>1. UNCHANGED <<delivered, handler, closed, frame, inbound>>
  BY DEF WsUnblock, handlerVars
<1>2. \A x \in Conns \ {c} : rxx'[x] = rxx[x] /\ ws_frame'[x] = ws_frame[x]
  BY DEF WsUnblock, Flow, FlowTypes
<1>3. ASSUME ~closed, RxxUp(c)' PROVE InTurn(c)'
  <2>1. RxxUp(c) /\ InTurn(c)
    BY <1>1, <1>3 DEF RxxUp, Order
  <2>2. /\ rxx[c] = <<>> /\ rxx'[c] = <<ws_frame[c]>> /\ ws_frame'[c] = NoFrame
        /\ ws_frame[c] \in AnyFrame /\ delivered[c] \in Nat
    BY <2>1 DEF WsUnblock, Flow, FlowTypes, Order
  <2>3. rxx'[c] # <<>> /\ Head(rxx'[c]) = ws_frame[c]
    BY <2>2, SlotFacts
  <2> QED
    BY <1>1, <2>1, <2>2, <2>3 DEF InTurn, Held, Passed, Ones, SlotOnes, NoFrame
<1> QED
  BY <1>1, <1>2, <1>3, OneConnMoves DEF Order

\* recv() takes the frame of rxx while the handler has none.
LEMMA RecvInOrder ==
    ASSUME Flow, Order, NEW c \in Conns, HandlerRecv(c)
    PROVE  Order'
<1>1. UNCHANGED <<delivered, closed, inbound, ws_frame>>
  BY DEF HandlerRecv, wsVars
<1>2. \A x \in Conns \ {c} :
         rxx'[x] = rxx[x] /\ frame'[x] = frame[x] /\ handler'[x] = handler[x]
  BY DEF HandlerRecv, Flow, FlowTypes
<1>3. ASSUME ~closed, RxxUp(c)' PROVE InTurn(c)'
  <2>1. /\ handler[c] = "recv" /\ RxxUp(c) /\ InTurn(c)
        /\ frame[c] = NoFrame /\ delivered[c] \in Nat
    BY <1>3 DEF HandlerRecv, RxxUp, Order, Flow, FlowPlaces
  <2>2. rxx[c] # <<>>
    BY <1>3 DEF HandlerRecv, RxxUp, Flow, FlowTypes
  <2>3. rxx'[c] = <<>> /\ frame'[c] = Head(rxx[c])
    BY <1>3, <2>2 DEF HandlerRecv, Flow, FlowTypes
  <2> QED
    BY <1>1, <2>1, <2>2, <2>3 DEF InTurn, Held, Passed, Ones, SlotOnes, NoFrame
<1> QED
  BY <1>1, <1>2, <1>3, OneConnMoves DEF Order

\* handle_message lets go of no message while the client is open.
LEMMA HandleInOrder ==
    ASSUME Flow, Order, NEW c \in Conns, HandleMessage(c)
    PROVE  Order'
<1>1. UNCHANGED <<delivered, closed, inbound, ws_frame, rxx>>
  BY DEF HandleMessage, wsVars
<1>2. PICK pc \in AfterHandle(frame[c]) :
        /\ handler' = [handler EXCEPT ![c] = pc]
        /\ frame' = [frame EXCEPT ![c] = IF pc = "message_send" THEN @ ELSE NoFrame]
  BY DEF HandleMessage
<1>3. \A x \in Conns \ {c} : frame'[x] = frame[x] /\ handler'[x] = handler[x]
  BY <1>2 DEF Flow, FlowTypes
<1>4. ASSUME ~closed, RxxUp(c)' PROVE InTurn(c)'
  <2>1. /\ RxxUp(c) /\ InTurn(c) /\ handler'[c] = pc /\ pc # "panicked"
        /\ delivered[c] \in Nat
    BY <1>2, <1>4 DEF HandleMessage, RxxUp, Order, Flow, FlowTypes
  <2>2. CASE pc = "message_send"
    <3>1. frame'[c] = frame[c]
      BY <1>2, <2>2 DEF Flow, FlowTypes
    <3> QED
      BY <1>1, <2>1, <3>1, TurnStays
  <2>3. CASE pc # "message_send"
    <3>1. frame[c].kind # "inbound"
      BY <1>2, <1>4, <2>1, <2>3 DEF AfterHandle
    <3>2. frame'[c] = NoFrame
      BY <1>2, <2>3 DEF Flow, FlowTypes
    <3> QED
      BY <1>1, <2>1, <3>1, <3>2 DEF InTurn, Held, Passed, Ones, SlotOnes, NoFrame
  <2> QED
    BY <2>2, <2>3
<1> QED
  BY <1>1, <1>3, <1>4, OneConnMoves DEF Order

\* What the handler sends is the next message.
LEMMA SendInOrder ==
    ASSUME Flow, Order, NEW c \in Conns, MessageSend(c)
    PROVE  Order'
<1>1. UNCHANGED <<closed, inbound, ws_frame, rxx>>
  BY DEF MessageSend, wsVars
<1>2. /\ frame[c] \in AnyFrame /\ frame[c].n \in Nat
      /\ frame[c].kind = "inbound"
  BY DEF MessageSend, Flow, FlowTypes, FlowPlaces, AnyFrame
<1>3. delivered' \in [Conns -> Nat]
  BY <1>2 DEF MessageSend, Order
<1>4. \A x \in Conns \ {c} :
        frame'[x] = frame[x] /\ handler'[x] = handler[x] /\ delivered'[x] = delivered[x]
  BY DEF MessageSend, Flow, FlowTypes, Order
<1>5. ASSUME ~closed, RxxUp(c)' PROVE InTurn(c)'
  <2>1. RxxUp(c) /\ InTurn(c) /\ delivered[c] \in Nat
    BY <1>5 DEF MessageSend, RxxUp, Order
  <2>2. delivered'[c] = frame[c].n /\ frame'[c] = NoFrame
    BY <1>5 DEF MessageSend, RxxUp, Order, Flow, FlowTypes
  <2> QED
    BY <1>1, <1>2, <2>1, <2>2 DEF InTurn, Held, Passed, Ones, SlotOnes, NoFrame
<1> QED
  BY <1>1, <1>3, <1>4, <1>5, OneConnMoves

\* The other steps of a connection move no frame.
LEMMA OthersInOrder ==
    ASSUME Flow, Order, NEW c \in Conns,
           \/ WsEnd(c) \/ HandlerTop(c) \/ ConnectSend(c) \/ ConnectorStep(c)
    PROVE  Order'
<1>1. UNCHANGED <<delivered, closed, inbound, ws_frame, rxx, frame>>
  BY DEF WsEnd, HandlerTop, ConnectSend, ConnectorStep, InstallNode, StartTasks,
         ConnectorPanic, wsVars, handlerVars
<1>2. \A x \in Conns \ {c} : handler'[x] = handler[x]
  BY DEF WsEnd, HandlerTop, ConnectSend, ConnectorStep, InstallNode, StartTasks,
         ConnectorPanic, handlerVars, Flow, FlowTypes
<1>3. RxxUp(c)' => RxxUp(c)
  BY DEF WsEnd, HandlerTop, ConnectSend, ConnectorStep, InstallNode, StartTasks,
         ConnectorPanic, handlerVars, RxxUp
<1>4. ASSUME ~closed, RxxUp(c)' PROVE InTurn(c)'
  <2>1. InTurn(c)
    BY <1>3, <1>4 DEF Order
  <2> QED
    BY <1>1, <2>1, TurnStays
<1> QED
  BY <1>1, <1>2, <1>4, OneConnMoves DEF Order

\* Order is preserved by every step.
LEMMA NextOrder == Flow /\ Order /\ [Next]_vars => Order'
<1> SUFFICES ASSUME Flow, Order, [Next]_vars PROVE Order'
  OBVIOUS
<1>1. CASE Dial \/ AppStep \/ UNCHANGED vars
  <2>1. /\ UNCHANGED <<delivered, inbound, ws_frame, rxx, frame, handler>>
        /\ ~closed' => ~closed
    BY <1>1 DEF Dial, AppStep, WaitForConnect, WaitForMessage, Close, Drop, vars,
                handlerVars, wsVars
  <2>2. ASSUME NEW x \in Conns, ~closed', RxxUp(x)' PROVE InTurn(x)'
    <3>1. InTurn(x)
      BY <2>1, <2>2 DEF Order, RxxUp
    <3> QED
      BY <2>1, <3>1, TurnStays
  <2> QED
    BY <2>1, <2>2 DEF Order
<1> QED
  BY <1>1, ReadInOrder, UnblockInOrder, RecvInOrder, HandleInOrder, SendInOrder,
     OthersInOrder DEF Next, WsStep, HandlerStep

\* Up to three parts of at most one number each, put together.
LEMMA PartsTogether ==
    ASSUME NEW x \in Nat, NEW y \in Nat, NEW z \in Nat
    PROVE  /\ <<>> \o <<>> \o <<>> = <<>>
           /\ <<>> \o <<>> \o <<x>> = <<x>>
           /\ <<>> \o <<x>> \o <<>> = <<x>>
           /\ <<>> \o <<x>> \o <<y>> = <<x, y>>
           /\ <<x>> \o <<>> \o <<>> = <<x>>
           /\ <<x>> \o <<>> \o <<y>> = <<x, y>>
           /\ <<x>> \o <<y>> \o <<>> = <<x, y>>
           /\ <<x>> \o <<y>> \o <<z>> = <<x, y, z>>
<1>1. /\ <<>> \in Seq(Nat) /\ <<x>> \in Seq(Nat) /\ <<y>> \in Seq(Nat)
      /\ <<x, y>> \in Seq(Nat)
  OBVIOUS
<1>2. <<x>> \o <<y>> = <<x, y>>
  <2>1. <<x>> \o <<y>> = Append(<<x>>, y)
    BY <1>1, ConcatFacts, Zenon
  <2>2. Append(<<x>>, y) = <<x, y>>
    <3> DEFINE s == Append(<<x>>, y)
               t == <<x, y>>
    <3>1. /\ s \in Seq(Nat) /\ Len(s) = 2
          /\ s[1] = x /\ s[2] = y
      BY <1>1, AppendProperties
    <3>2. /\ t \in Seq(Nat) /\ Len(t) = 2
          /\ t[1] = x /\ t[2] = y
      OBVIOUS
    <3> HIDE DEF s, t
    <3>3. \A i \in 1 .. Len(s) : s[i] = t[i]
      BY <3>1, <3>2
    <3>4. s = t
      BY <3>1, <3>2, <3>3, SeqEqual
    <3> QED
      BY <3>4 DEF s, t
  <2> QED
    BY <2>1, <2>2, Zenon
<1>3. <<x, y>> \o <<z>> = <<x, y, z>>
  <2>1. <<x, y>> \o <<z>> = Append(<<x, y>>, z)
    BY <1>1, ConcatFacts, Zenon
  <2>2. Append(<<x, y>>, z) = <<x, y, z>>
    <3> DEFINE s == Append(<<x, y>>, z)
               t == <<x, y, z>>
    <3>1. /\ s \in Seq(Nat) /\ Len(s) = 3
          /\ s[1] = x /\ s[2] = y /\ s[3] = z
      BY <1>1, AppendProperties
    <3>2. /\ t \in Seq(Nat) /\ Len(t) = 3
          /\ t[1] = x /\ t[2] = y /\ t[3] = z
      OBVIOUS
    <3> HIDE DEF s, t
    <3>3. \A i \in 1 .. Len(s) : s[i] = t[i]
      BY <3>1, <3>2
    <3>4. s = t
      BY <3>1, <3>2, <3>3, SeqEqual
    <3> QED
      BY <3>4 DEF s, t
  <2> QED
    BY <2>1, <2>2, Zenon
<1>4. /\ <<>> \o <<>> = <<>>
      /\ <<>> \o <<x>> = <<x>> /\ <<x>> \o <<>> = <<x>>
      /\ <<x, y>> \o <<>> = <<x, y>>
  BY <1>1, ConcatFacts
<1> QED
  BY <1>2, <1>3, <1>4, Zenon

\* Messages in turn, read as a sequence, are the numbers after the last
\* delivered.
LEMMA TurnsMakeTheSequence ==
    ASSUME FlowTypes, delivered \in [Conns -> Nat], NEW c \in Conns, InTurn(c)
    PROVE  UnderWay(c) = [k \in 1 .. inbound[c] - delivered[c] |-> delivered[c] + k]
<1> DEFINE d == delivered[c]
           Upto(n) == [k \in 1 .. n |-> d + k]
           a == Carried(frame[c])
           b == IF rxx[c] = <<>> THEN <<>> ELSE Carried(Head(rxx[c]))
           e == Carried(ws_frame[c])
<1>1. /\ d \in Nat
      /\ frame[c] \in AnyFrame /\ ws_frame[c] \in AnyFrame
      /\ rxx[c] # <<>> => Head(rxx[c]) \in AnyFrame
  BY SlotFacts DEF FlowTypes
<1>2. /\ Ones(frame[c]) = 0 => a = <<>>
      /\ Ones(frame[c]) # 0 => Ones(frame[c]) = 1 /\ a = <<Held(c)>>
  BY <1>1, CarriedIsSeq DEF Ones, InTurn
<1>3. /\ SlotOnes(rxx[c]) = 0 => b = <<>>
      /\ SlotOnes(rxx[c]) # 0 => SlotOnes(rxx[c]) = 1 /\ b = <<Passed(c)>>
  BY <1>1, CarriedIsSeq DEF Ones, SlotOnes, InTurn
<1>4. /\ Ones(ws_frame[c]) = 0 => e = <<>>
      /\ Ones(ws_frame[c]) # 0 => Ones(ws_frame[c]) = 1 /\ e = <<Passed(c) + 1>>
  BY <1>1, CarriedIsSeq DEF Ones, InTurn
<1>5. /\ Upto(0) = <<>> /\ Upto(1) = <<d + 1>> /\ Upto(2) = <<d + 1, d + 2>>
      /\ Upto(3) = <<d + 1, d + 2, d + 3>>
  BY <1>1
<1>6. UnderWay(c) = a \o b \o e
  BY DEF UnderWay
<1>7. inbound[c] - d = Ones(frame[c]) + SlotOnes(rxx[c]) + Ones(ws_frame[c])
  BY <1>1, <1>2, <1>3, <1>4 DEF InTurn, Passed, Held
<1>8. d + 1 \in Nat /\ d + 2 \in Nat /\ d + 3 \in Nat
  BY <1>1
<1>9. CASE Ones(frame[c]) = 0
  <2>1. CASE SlotOnes(rxx[c]) = 0 /\ Ones(ws_frame[c]) = 0
    <3>1. inbound[c] - d = 0
      BY <1>2, <1>3, <1>4, <1>7, <1>9, <2>1
    <3>2. a = <<>> /\ b = <<>> /\ e = <<>>
      BY <1>1, <1>2, <1>3, <1>4, <1>9, <2>1 DEF Held, Passed
    <3>3. <<>> \o <<>> \o <<>> = Upto(0)
      BY <1>5, <1>8, PartsTogether
    <3> HIDE DEF a, b, e, Upto
    <3>4. UnderWay(c) = Upto(inbound[c] - d)
      BY <1>6, <3>1, <3>2, <3>3
    <3> QED
      BY <3>4 DEF Upto
  <2>2. CASE SlotOnes(rxx[c]) = 0 /\ Ones(ws_frame[c]) # 0
    <3>1. inbound[c] - d = 1
      BY <1>2, <1>3, <1>4, <1>7, <1>9, <2>2
    <3>2. a = <<>> /\ b = <<>> /\ e = <<d + 1>>
      BY <1>1, <1>2, <1>3, <1>4, <1>9, <2>2 DEF Held, Passed
    <3>3. <<>> \o <<>> \o <<d + 1>> = Upto(1)
      BY <1>5, <1>8, PartsTogether
    <3> HIDE DEF a, b, e, Upto
    <3>4. UnderWay(c) = Upto(inbound[c] - d)
      BY <1>6, <3>1, <3>2, <3>3
    <3> QED
      BY <3>4 DEF Upto
  <2>3. CASE SlotOnes(rxx[c]) # 0 /\ Ones(ws_frame[c]) = 0
    <3>1. inbound[c] - d = 1
      BY <1>2, <1>3, <1>4, <1>7, <1>9, <2>3
    <3>2. a = <<>> /\ b = <<d + 1>> /\ e = <<>>
      BY <1>1, <1>2, <1>3, <1>4, <1>9, <2>3 DEF Held, Passed
    <3>3. <<>> \o <<d + 1>> \o <<>> = Upto(1)
      BY <1>5, <1>8, PartsTogether
    <3> HIDE DEF a, b, e, Upto
    <3>4. UnderWay(c) = Upto(inbound[c] - d)
      BY <1>6, <3>1, <3>2, <3>3
    <3> QED
      BY <3>4 DEF Upto
  <2>4. CASE SlotOnes(rxx[c]) # 0 /\ Ones(ws_frame[c]) # 0
    <3>1. inbound[c] - d = 2
      BY <1>2, <1>3, <1>4, <1>7, <1>9, <2>4
    <3>2. a = <<>> /\ b = <<d + 1>> /\ e = <<d + 2>>
      BY <1>1, <1>2, <1>3, <1>4, <1>9, <2>4 DEF Held, Passed
    <3>3. <<>> \o <<d + 1>> \o <<d + 2>> = Upto(2)
      BY <1>5, <1>8, PartsTogether
    <3> HIDE DEF a, b, e, Upto
    <3>4. UnderWay(c) = Upto(inbound[c] - d)
      BY <1>6, <3>1, <3>2, <3>3
    <3> QED
      BY <3>4 DEF Upto
  <2> QED
    BY <2>1, <2>2, <2>3, <2>4
<1>10. CASE Ones(frame[c]) # 0
  <2>1. CASE SlotOnes(rxx[c]) = 0 /\ Ones(ws_frame[c]) = 0
    <3>1. inbound[c] - d = 1
      BY <1>2, <1>3, <1>4, <1>7, <1>10, <2>1
    <3>2. a = <<d + 1>> /\ b = <<>> /\ e = <<>>
      BY <1>1, <1>2, <1>3, <1>4, <1>10, <2>1 DEF Held, Passed
    <3>3. <<d + 1>> \o <<>> \o <<>> = Upto(1)
      BY <1>5, <1>8, PartsTogether
    <3> HIDE DEF a, b, e, Upto
    <3>4. UnderWay(c) = Upto(inbound[c] - d)
      BY <1>6, <3>1, <3>2, <3>3
    <3> QED
      BY <3>4 DEF Upto
  <2>2. CASE SlotOnes(rxx[c]) = 0 /\ Ones(ws_frame[c]) # 0
    <3>1. inbound[c] - d = 2
      BY <1>2, <1>3, <1>4, <1>7, <1>10, <2>2
    <3>2. a = <<d + 1>> /\ b = <<>> /\ e = <<d + 2>>
      BY <1>1, <1>2, <1>3, <1>4, <1>10, <2>2 DEF Held, Passed
    <3>3. <<d + 1>> \o <<>> \o <<d + 2>> = Upto(2)
      BY <1>5, <1>8, PartsTogether
    <3> HIDE DEF a, b, e, Upto
    <3>4. UnderWay(c) = Upto(inbound[c] - d)
      BY <1>6, <3>1, <3>2, <3>3
    <3> QED
      BY <3>4 DEF Upto
  <2>3. CASE SlotOnes(rxx[c]) # 0 /\ Ones(ws_frame[c]) = 0
    <3>1. inbound[c] - d = 2
      BY <1>2, <1>3, <1>4, <1>7, <1>10, <2>3
    <3>2. a = <<d + 1>> /\ b = <<d + 2>> /\ e = <<>>
      BY <1>1, <1>2, <1>3, <1>4, <1>10, <2>3 DEF Held, Passed
    <3>3. <<d + 1>> \o <<d + 2>> \o <<>> = Upto(2)
      BY <1>5, <1>8, PartsTogether
    <3> HIDE DEF a, b, e, Upto
    <3>4. UnderWay(c) = Upto(inbound[c] - d)
      BY <1>6, <3>1, <3>2, <3>3
    <3> QED
      BY <3>4 DEF Upto
  <2>4. CASE SlotOnes(rxx[c]) # 0 /\ Ones(ws_frame[c]) # 0
    <3>1. inbound[c] - d = 3
      BY <1>2, <1>3, <1>4, <1>7, <1>10, <2>4
    <3>2. a = <<d + 1>> /\ b = <<d + 2>> /\ e = <<d + 3>>
      BY <1>1, <1>2, <1>3, <1>4, <1>10, <2>4 DEF Held, Passed
    <3>3. <<d + 1>> \o <<d + 2>> \o <<d + 3>> = Upto(3)
      BY <1>5, <1>8, PartsTogether
    <3> HIDE DEF a, b, e, Upto
    <3>4. UnderWay(c) = Upto(inbound[c] - d)
      BY <1>6, <3>1, <3>2, <3>3
    <3> QED
      BY <3>4 DEF Upto
  <2> QED
    BY <2>1, <2>2, <2>3, <2>4
<1> QED
  BY <1>9, <1>10

\* The messages between the last one delivered and the last one read are all
\* under way, in order, while the client is open and the handler lives.
THEOREM MessagesKeepTheirOrder == Spec => []DeliveredInOrder
<1>1. Init => Order
  BY DEF Init, Order, InTurn, Held, Passed, Ones, SlotOnes, NoFrame
<1>2. Flow /\ Order => DeliveredInOrder
  BY TurnsMakeTheSequence DEF Flow, Order, DeliveredInOrder
<1>3. Init => Flow /\ Order
  BY <1>1, InitFlow
<1>4. Flow /\ Order /\ [Next]_vars => (Flow /\ Order)'
  BY FlowIsInductive, NextOrder
<1> QED
  BY <1>2, <1>3, <1>4, PTL DEF Spec

-----------------------------------------------------------------------------
(* Types *)

\* A frame that a connection can have read: messages are numbered from 1.
Readable == {f \in Frames : f.kind = "inbound" => f.n >= 1}

\* A channel of capacity one over S.
Slot(S) == {<<>>} \cup {<<e>> : e \in S}
Mail == Conns \X (1 .. MaxFrames)

\* The variables FlowTypes leaves open, and the exact ranges of the others.
Flags == closed \in BOOLEAN /\ app \in {"running", "gone"}

Ranges ==
    /\ client_node \in 0 .. MaxConns /\ sig_chain_block_hash \in 0 .. MaxConns
    /\ connect_chan \in Slot(Conns) /\ message_chan \in Slot(Mail)
    /\ node \in [Conns -> 0 .. MaxConns] /\ conns \in 0 .. MaxConns
    /\ frames \in 0 .. MaxFrames
    /\ frame \in [Conns -> Readable] /\ ws_frame \in [Conns -> Readable]
    /\ rxx \in [Conns -> Slot(Readable)]
    /\ inbound \in [Conns -> Nat] /\ \A c \in Conns : inbound[c] <= frames
    /\ delivered \in [Conns -> 0 .. MaxFrames]

\* Whoever has a handler has installed a node, and a node is what is reported.
Reported ==
    \A c \in Conns :
        /\ handler[c] \notin {"unborn", "panicked"} => client_node # 0
        /\ handler[c] = "connect_send" => node[c] # 0

\* Such a channel is a sequence of at most one element.
LEMMA SlotIsSeq ==
    ASSUME NEW S, NEW s \in Slot(S)
    PROVE  s \in Seq(S) /\ Len(s) <= 1
<1>1. CASE s = <<>>
  BY <1>1
<1>2. CASE s # <<>>
  <2>1. PICK e \in S : s = <<e>>
    BY <1>2 DEF Slot
  <2> QED
    BY <2>1
<1> QED
  BY <1>1, <1>2

\* What a slot of readable frames holds.
LEMMA ReadableFacts ==
    /\ NoFrame \in Readable
    /\ \A f \in Readable : f \in AnyFrame /\ f \in Frames /\ f.n \in 0 .. MaxFrames
    /\ \A f \in Readable : f.kind = "inbound" => f.n \in 1 .. MaxFrames
    /\ \A s \in Slot(Readable) : s # <<>> => Head(s) \in Readable
BY FramesAssumption DEF NoFrame, Readable, Frames, AnyFrame, Kinds, Slot

\* A new client is well-typed,
LEMMA InitRanges == Init => Ranges /\ Reported
BY ConnsAssumption, FramesAssumption, ReadableFacts
   DEF Init, Ranges, Reported, Slot, Conns

\* reading a frame stays within the frames there are,
LEMMA ReadRanges ==
    ASSUME Flow, Ranges, Reported, NEW c \in Conns, WsRead(c)
    PROVE  Ranges' /\ Reported'
<1>1. PICK f \in AnyFrame : WsReads(c, f)
  BY WsReadsAFrame DEF Flow
<1>2. /\ frames' = frames + 1 /\ frames < MaxFrames
      /\ UNCHANGED <<client_node, sig_chain_block_hash, connect_chan, message_chan, node,
                     conns, frame, delivered, handler>>
  BY DEF WsRead, handlerVars, chanVars, linkVars
<1>3. f \in Readable
  BY <1>1, <1>2, FramesAssumption DEF WsReads, AnyFrame, Readable, Frames, Ranges
<1>4. inbound' \in [Conns -> Nat] /\ \A x \in Conns : inbound'[x] <= frames'
  BY <1>1, <1>2, FramesAssumption DEF WsReads, AnyFrame, Ranges
<1>5. /\ rxx' \in [Conns -> Slot(Readable)]
      /\ ws_frame' \in [Conns -> Readable]
  BY <1>1, <1>3 DEF WsReads, Ranges, Slot
<1>6. frames' \in 0 .. MaxFrames
  BY <1>2, FramesAssumption DEF Ranges
<1> QED
  BY <1>2, <1>4, <1>5, <1>6 DEF Ranges, Reported

\* and so does every other step of a connection.
LEMMA ConnRanges ==
    ASSUME Flow, Ranges, Reported, NEW c \in Conns,
           ConnectorStep(c) \/ WsUnblock(c) \/ WsEnd(c) \/ HandlerStep(c)
    PROVE  Ranges' /\ Reported'
<1> USE DEF Ranges, Reported, wsVars, handlerVars, chanVars, linkVars
<1>0. c \in 0 .. MaxConns /\ c # 0
  BY ConnsAssumption DEF Conns
<1>1. CASE InstallNode(c)
  BY <1>0, <1>1 DEF InstallNode, Flow, FlowTypes
<1>2. CASE StartTasks(c)
  BY <1>2 DEF StartTasks, Flow, FlowTypes
<1>3. CASE ConnectorPanic(c)
  BY <1>3 DEF ConnectorPanic, Flow, FlowTypes
<1>4. CASE WsUnblock(c)
  <2>1. NoFrame \in Readable /\ ws_frame[c] \in Readable
    BY ReadableFacts
  <2>2. rxx' \in [Conns -> Slot(Readable)]
    BY <1>4, <2>1 DEF WsUnblock, Slot
  <2>3. ws_frame' \in [Conns -> Readable]
    BY <1>4, <2>1 DEF WsUnblock
  <2> QED
    BY <1>4, <2>2, <2>3 DEF WsUnblock
<1>5. CASE WsEnd(c)
  BY <1>5 DEF WsEnd
<1>6. CASE HandlerTop(c)
  BY <1>6 DEF HandlerTop, Flow, FlowTypes
<1>7. CASE HandlerRecv(c)
  <2>1. rxx[c] # <<>> => Head(rxx[c]) \in Readable
    BY ReadableFacts
  <2>2. rxx' \in [Conns -> Slot(Readable)]
    BY <1>7 DEF HandlerRecv, Slot
  <2>3. frame' \in [Conns -> Readable]
    BY <1>7, <2>1 DEF HandlerRecv
  <2> QED
    BY <1>7, <2>2, <2>3 DEF HandlerRecv, Flow, FlowTypes
<1>8. CASE HandleMessage(c)
  <2>1. PICK pc \in AfterHandle(frame[c]) :
          /\ handler' = [handler EXCEPT ![c] = pc]
          /\ frame' = [frame EXCEPT ![c] = IF pc = "message_send" THEN @ ELSE NoFrame]
          /\ node' = [node EXCEPT ![c] = IF pc = "connect_send" THEN client_node ELSE 0]
    BY <1>8 DEF HandleMessage
  <2>2. /\ frame' \in [Conns -> Readable]
        /\ node' \in [Conns -> 0 .. MaxConns]
    BY <2>1, ReadableFacts, ConnsAssumption
  <2>3. sig_chain_block_hash' \in 0 .. MaxConns
    BY <1>0, <1>8 DEF HandleMessage
  <2>4. client_node # 0 /\ UNCHANGED client_node
    BY <1>8 DEF HandleMessage
  <2>5. Reported'
    BY <2>1, <2>4 DEF Flow, FlowTypes
  <2> QED
    BY <1>8, <2>2, <2>3, <2>5 DEF HandleMessage
<1>9. CASE ConnectSend(c)
  <2>1. node[c] \in Conns
    BY <1>9 DEF ConnectSend, Conns
  <2>2. connect_chan' \in Slot(Conns)
    BY <1>9, <2>1 DEF ConnectSend, Slot
  <2>3. node' \in [Conns -> 0 .. MaxConns]
    BY <1>9, ConnsAssumption DEF ConnectSend
  <2> QED
    BY <1>9, <2>2, <2>3 DEF ConnectSend, Flow, FlowTypes
<1>10. CASE MessageSend(c)
  <2>1. frame[c].n \in 1 .. MaxFrames
    BY <1>10, ReadableFacts DEF MessageSend, Flow, FlowPlaces
  <2>2. message_chan' \in Slot(Mail)
    <3>1. <<c, frame[c].n>> \in Mail
      BY <2>1 DEF Mail
    <3>2. << <<c, frame[c].n>> >> \in Slot(Mail)
      BY <3>1 DEF Slot
    <3>3. message_chan' = message_chan \/ message_chan' = << <<c, frame[c].n>> >>
      BY <1>10 DEF MessageSend
    <3> QED
      BY <3>2, <3>3
  <2>3. delivered' \in [Conns -> 0 .. MaxFrames]
    <3>1. frame[c].n \in 0 .. MaxFrames
      BY <2>1, FramesAssumption
    <3>2. delivered' = delivered \/ delivered' = [delivered EXCEPT ![c] = frame[c].n]
      BY <1>10 DEF MessageSend
    <3> QED
      BY <3>1, <3>2
  <2>4. frame' \in [Conns -> Readable]
    BY <1>10, ReadableFacts DEF MessageSend
  <2> QED
    BY <1>10, <2>2, <2>3, <2>4 DEF MessageSend, Flow, FlowTypes
<1> QED
  BY <1>1, <1>2, <1>3, <1>4, <1>5, <1>6, <1>7, <1>8, <1>9, <1>10
     DEF ConnectorStep, HandlerStep

\* The client's flags are closed and dropped, no more.
LEMMA NextFlags == Flags /\ [Next]_vars => Flags'
<1> SUFFICES ASSUME Flags, [Next]_vars PROVE Flags'
  OBVIOUS
<1>1. CASE AppStep
  <2>1. app' \in {"running", "gone"}
    BY <1>1 DEF Flags, AppStep, WaitForConnect, WaitForMessage, Close, Drop
  <2>2. closed' \in BOOLEAN
    BY <1>1, Zenon DEF Flags, AppStep, WaitForConnect, WaitForMessage, Close, Drop
  <2> QED
    BY <2>1, <2>2 DEF Flags
<1>2. CASE Dial \/ UNCHANGED vars \/ \E c \in Conns : ConnectorStep(c) \/ WsStep(c) \/ HandlerStep(c)
  <2>1. UNCHANGED <<closed, app>>
    BY <1>2 DEF Dial, vars, ConnectorStep, InstallNode, StartTasks, ConnectorPanic, WsStep,
                WsRead, WsUnblock, WsEnd, HandlerStep, HandlerTop, HandlerRecv, HandleMessage,
                ConnectSend, MessageSend
  <2> QED
    BY <2>1 DEF Flags
<1> QED
  BY <1>1, <1>2 DEF Next

\* Every step stays within the ranges.
LEMMA NextRanges == Flow /\ Ranges /\ Reported /\ [Next]_vars => Ranges' /\ Reported'
<1> SUFFICES ASSUME Flow, Ranges, Reported, [Next]_vars PROVE Ranges' /\ Reported'
  OBVIOUS
<1>1. CASE Dial
  BY <1>1, ConnsAssumption DEF Dial, Ranges, Reported, handlerVars, chanVars
<1>2. CASE AppStep
  <2>1. connect_chan' \in Slot(Conns) /\ message_chan' \in Slot(Mail)
    <3>1. <<>> \in Slot(Conns) /\ <<>> \in Slot(Mail)
      BY DEF Slot
    <3>2. /\ connect_chan' = connect_chan \/ connect_chan' = <<>>
          /\ message_chan' = message_chan \/ message_chan' = <<>>
      BY <1>2 DEF AppStep, WaitForConnect, WaitForMessage, Close, Drop, chanVars
    <3> QED
      BY <3>1, <3>2 DEF Ranges
  <2>2. UNCHANGED <<sig_chain_block_hash, rxx, wsVars, handlerVars, linkVars>>
    BY <1>2 DEF AppStep, WaitForConnect, WaitForMessage, Close, Drop
  <2> QED
    BY <2>1, <2>2 DEF Ranges, Reported, wsVars, handlerVars, linkVars
<1>3. CASE UNCHANGED vars
  BY <1>3 DEF vars, Ranges, Reported, wsVars, handlerVars, chanVars, linkVars
<1> QED
  BY <1>1, <1>2, <1>3, ReadRanges, ConnRanges DEF Next, WsStep

\* Channels hold at most one element, frames and messages are numbered within
\* the frames that were read, and a node that is reported is one that was
\* installed.
THEOREM TypesAreCorrect == Spec => []TypeOK
<1>1. Flow /\ Late /\ Flags /\ Ranges /\ Reported => TypeOK
  <2> SUFFICES ASSUME Flow, Late, Flags, Ranges PROVE TypeOK
    OBVIOUS
  <2>1. /\ frame \in [Conns -> Frames] /\ ws_frame \in [Conns -> Frames]
    BY ReadableFacts DEF Ranges
  <2>2. rxx \in [Conns -> Seq(Frames)] /\ \A c \in Conns : Len(rxx[c]) <= 1
    <3>1. \A x \in Slot(Readable) : x \in Slot(Frames)
      BY ReadableFacts DEF Slot
    <3>2. ASSUME NEW c \in Conns PROVE rxx[c] \in Seq(Frames) /\ Len(rxx[c]) <= 1
      BY <3>1, SlotIsSeq DEF Ranges
    <3> QED
      BY <3>2 DEF Ranges
  <2>3. connect_chan \in Seq(Conns) /\ Len(connect_chan) <= 1
    BY SlotIsSeq DEF Ranges
  <2>4. message_chan \in Seq(Conns \X (1 .. MaxFrames)) /\ Len(message_chan) <= 1
    BY SlotIsSeq DEF Ranges, Mail
  <2>5. inbound \in [Conns -> 0 .. MaxFrames]
    BY FramesAssumption DEF Ranges
  <2> QED
    BY <2>1, <2>2, <2>3, <2>4, <2>5 DEF TypeOK, Flow, FlowTypes, Late, Flags, Ranges
<1>2. Init => Flow /\ Late /\ Flags /\ Ranges /\ Reported
  <2>1. Init => Flags
    BY Zenon DEF Init, Flags
  <2>2. Init => Late
    BY DEF Init, Late
  <2> QED
    BY <2>1, <2>2, InitFlow, InitRanges
<1>3. Flow /\ Late /\ Flags /\ Ranges /\ Reported /\ [Next]_vars
        => (Flow /\ Late /\ Flags /\ Ranges /\ Reported)'
  BY FlowIsInductive, NextLate, NextFlags, NextRanges DEF Flow
<1> QED
  BY <1>1, <1>2, <1>3, PTL DEF Spec
=============================================================================
