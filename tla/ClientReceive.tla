---------------------------- MODULE ClientReceive ----------------------------
(***************************************************************************)
(* How a Client receives (src/src/client.rs): the path of a frame from the *)
(* websocket task of a connection, through rxx, to its handler task and    *)
(* handle_message, and from there to the application's two channels.       *)
(*                                                                         *)
(* Several connections share the client: the current one and those it      *)
(* replaced.  Module ClientConnect says how they come about; here Dial,    *)
(* InstallNode and StartTasks are its steps as far as receiving is         *)
(* concerned, interleaved more freely than two connectors do.  Connections *)
(* are numbered in the order of their dials, so that the last one dialed   *)
(* owns stdin_tx.  A frame is the branch of handle_message it takes, and   *)
(* the inbound messages of a connection are numbered.                      *)
(***************************************************************************)
EXTENDS Integers, Sequences

CONSTANTS
    MaxConns,    \* bound: connections
    MaxFrames    \* bound: frames all websockets together read

ASSUME ConnsAssumption == MaxConns \in Nat
ASSUME FramesAssumption == MaxFrames \in Nat

Conns == 1 .. MaxConns

\* "ignored" stands for every frame handle_message consumes with no effect on
\* the client: an error other than WrongNode, a reply nobody waits for, a
\* message that does not decrypt, an authChallenge (see ClientConnect), an
\* unknown action.  "fatal" stands for those that panic the handler: WrongNode
\* is todo!(), malformed input is unwrapped.
Kinds == {"setClient", "updateSigChainBlockHash", "inbound", "ignored", "fatal"}

\* n numbers the inbound messages of a connection; 0 for the other frames.
Frames == [kind : Kinds, n : 0 .. MaxFrames]
NoFrame == [kind |-> "ignored", n |-> 0]

VARIABLES
    closed,          \* set by close(), never reset
    app,             \* the application owns connect_rx and message_rx
    client_node,     \* connection whose node is installed, 0 for None
    sig_chain_block_hash,   \* connection that supplied it, 0 for None
    connect_chan,    \* bounded(1)
    message_chan,    \* bounded(1)
    ws,              \* the websocket task of each connection
    ws_frame,        \* the frame its blocked send holds
    rxx,             \* bounded(1)
    handler,         \* the handler task of each connection
    frame,           \* the frame it works on
    node,            \* local of handle_message: the node it reports
    conns,           \* history: connections dialed
    frames,          \* history: frames read
    inbound,         \* history: inbound messages read from each websocket
    delivered,       \* history: the last of them put in message_chan
    sent_late        \* history: sends of a handler completed after close()

wsVars == <<ws, ws_frame, frames, inbound>>
handlerVars == <<handler, frame, node, delivered, sent_late>>
chanVars == <<connect_chan, message_chan>>
linkVars == <<client_node, conns>>
vars == <<closed, app, sig_chain_block_hash, rxx, wsVars, handlerVars,
          chanVars, linkVars>>

TypeOK ==
    /\ closed \in BOOLEAN
    /\ app \in {"running", "gone"}
    /\ client_node \in 0 .. MaxConns
    /\ sig_chain_block_hash \in 0 .. MaxConns
    /\ connect_chan \in Seq(Conns) /\ Len(connect_chan) <= 1
    /\ message_chan \in Seq(Conns \X (1 .. MaxFrames)) /\ Len(message_chan) <= 1
    /\ ws \in [Conns -> {"unborn", "running", "blocked", "ended", "panicked"}]
    /\ ws_frame \in [Conns -> Frames]
    /\ rxx \in [Conns -> Seq(Frames)] /\ \A c \in Conns : Len(rxx[c]) <= 1
    /\ handler \in [Conns -> {"unborn", "installed", "top", "recv",
                              "handle", "connect_send", "message_send",
                              "ended", "returned", "panicked"}]
    /\ frame \in [Conns -> Frames]
    /\ node \in [Conns -> 0 .. MaxConns]
    /\ conns \in 0 .. MaxConns
    /\ frames \in 0 .. MaxFrames
    /\ inbound \in [Conns -> 0 .. MaxFrames]
    /\ delivered \in [Conns -> 0 .. MaxFrames]
    /\ sent_late \in [Conns -> Nat]

Init ==
    /\ closed = FALSE /\ app = "running"
    /\ client_node = 0 /\ sig_chain_block_hash = 0
    /\ connect_chan = <<>> /\ message_chan = <<>>
    /\ ws = [c \in Conns |-> "unborn"]
    /\ ws_frame = [c \in Conns |-> NoFrame]
    /\ rxx = [c \in Conns |-> <<>>]
    /\ handler = [c \in Conns |-> "unborn"]
    /\ frame = [c \in Conns |-> NoFrame]
    /\ node = [c \in Conns |-> 0]
    /\ conns = 0 /\ frames = 0
    /\ inbound = [c \in Conns |-> 0]
    /\ delivered = [c \in Conns |-> 0]
    /\ sent_late = [c \in Conns |-> 0]

-----------------------------------------------------------------------------
(* Who still holds which end of a channel *)

\* The websocket task owns txx.
WsUp(c) == ws[c] \in {"running", "blocked"}

\* rxx belongs to the connector until the handler is spawned, then to it.
RxxUp(c) == handler[c] \notin {"ended", "returned", "panicked"}

-----------------------------------------------------------------------------
(* The connectors *)

\* connect_async succeeded and the websocket task is spawned.
Dial ==
    LET c == conns + 1
    IN  /\ conns < MaxConns
        /\ conns' = c
        /\ ws' = [ws EXCEPT ![c] = "running"]
        /\ UNCHANGED <<closed, app, client_node, sig_chain_block_hash, rxx,
                       ws_frame, frames, inbound, handlerVars, chanVars>>

InstallNode(c) ==
    /\ ws[c] # "unborn"
    /\ handler[c] = "unborn"
    /\ client_node' = c
    /\ handler' = [handler EXCEPT ![c] = "installed"]
    /\ UNCHANGED <<closed, app, sig_chain_block_hash, rxx, wsVars, frame,
                   node, delivered, sent_late, chanVars, conns>>

\* The handler is spawned.
StartTasks(c) ==
    /\ handler[c] = "installed"
    /\ handler' = [handler EXCEPT ![c] = "top"]
    /\ UNCHANGED <<closed, app, sig_chain_block_hash, rxx, wsVars, frame,
                   node, delivered, sent_late, chanVars, linkVars>>

\* The connector panics before that and drops rxx.
ConnectorPanic(c) ==
    /\ ws[c] # "unborn"
    /\ handler[c] \in {"unborn", "installed"}
    /\ handler' = [handler EXCEPT ![c] = "panicked"]
    /\ UNCHANGED <<closed, app, sig_chain_block_hash, rxx, wsVars, frame,
                   node, delivered, sent_late, chanVars, linkVars>>

-----------------------------------------------------------------------------
(* The websocket task *)

\* A frame is read and handed over with the blocking txx.send(data).unwrap().
WsRead(c) ==
    /\ ws[c] = "running"
    /\ frames < MaxFrames
    /\ frames' = frames + 1
    /\ \E kind \in Kinds :
         LET n == IF kind = "inbound" THEN inbound[c] + 1 ELSE 0
             f == [kind |-> kind, n |-> n]
         IN  /\ inbound' = [inbound EXCEPT ![c] = IF n > 0 THEN n ELSE @]
             /\ \/ /\ ~RxxUp(c)
                   /\ ws' = [ws EXCEPT ![c] = "panicked"]
                   /\ UNCHANGED <<rxx, ws_frame>>
                \/ /\ RxxUp(c)
                   /\ rxx[c] = <<>>
                   /\ rxx' = [rxx EXCEPT ![c] = <<f>>]
                   /\ UNCHANGED <<ws, ws_frame>>
                \/ /\ RxxUp(c)
                   /\ rxx[c] # <<>>
                   /\ ws' = [ws EXCEPT ![c] = "blocked"]
                   /\ ws_frame' = [ws_frame EXCEPT ![c] = f]
                   /\ UNCHANGED rxx
    /\ UNCHANGED <<closed, app, sig_chain_block_hash, handlerVars, chanVars,
                   linkVars>>

\* Variant: a send that finds no room drops its frame.
WsUnblockDrops(c) ==
    /\ ws[c] = "blocked"
    /\ ws' = [ws EXCEPT ![c] = "running"]
    /\ ws_frame' = [ws_frame EXCEPT ![c] = NoFrame]
    /\ UNCHANGED <<closed, app, sig_chain_block_hash, rxx, frames, inbound,
                   handlerVars, chanVars, linkVars>>

\* Variant: every send is a task of its own, and a later one may come first.
WsUnblockOvertakes(c) ==
    /\ ws[c] = "blocked"
    /\ ws' = [ws EXCEPT ![c] = IF rxx[c] = <<>> THEN "running" ELSE "blocked"]
    /\ rxx' = [rxx EXCEPT ![c] = <<ws_frame[c]>>]
    /\ ws_frame' = [ws_frame EXCEPT ![c] =
                      IF rxx[c] = <<>> THEN NoFrame ELSE Head(rxx[c])]
    /\ UNCHANGED <<closed, app, sig_chain_block_hash, frames, inbound,
                   handlerVars, chanVars, linkVars>>

\* The blocked send finds room, or the receiver gone.
WsUnblock(c) ==
    /\ ws[c] = "blocked"
    /\ \/ /\ ~RxxUp(c)
          /\ ws' = [ws EXCEPT ![c] = "panicked"]
          /\ UNCHANGED rxx
       \/ /\ RxxUp(c)
          /\ rxx[c] = <<>>
          /\ ws' = [ws EXCEPT ![c] = "running"]
          /\ rxx' = [rxx EXCEPT ![c] = <<ws_frame[c]>>]
    /\ ws_frame' = [ws_frame EXCEPT ![c] = NoFrame]
    /\ UNCHANGED <<closed, app, sig_chain_block_hash, frames, inbound,
                   handlerVars, chanVars, linkVars>>

\* select: the task ends with either half, when the stream is over or a write
\* fails.  A task that blocks in txx.send does not notice.
WsEnd(c) ==
    /\ ws[c] = "running"
    /\ ws' = [ws EXCEPT ![c] = "ended"]
    /\ UNCHANGED <<closed, app, sig_chain_block_hash, rxx, ws_frame, frames,
                   inbound, handlerVars, chanVars, linkVars>>

\* stdin_to_ws ends once its sender is dropped, that is, replaced.
WsReplaced(c) == c < conns /\ WsEnd(c)

-----------------------------------------------------------------------------
(* The handler task: the receive loop and handle_message *)

\* The loop's head.
HandlerTop(c) ==
    /\ handler[c] = "top"
    /\ handler' = [handler EXCEPT ![c] = IF closed THEN "returned" ELSE "recv"]
    /\ UNCHANGED <<closed, app, sig_chain_block_hash, rxx, wsVars, frame,
                   node, delivered, sent_late, chanVars, linkVars>>

\* Variant: the end of the websocket task does not end the loop.
HandlerRecvContinues(c) ==
    /\ handler[c] = "recv"
    /\ rxx' = [rxx EXCEPT ![c] = <<>>]
    /\ \/ /\ rxx[c] # <<>>
          /\ frame' = [frame EXCEPT ![c] = IF closed THEN @ ELSE Head(rxx[c])]
          /\ handler' = [handler EXCEPT ![c] = IF closed THEN "top" ELSE "handle"]
       \/ /\ rxx[c] = <<>>
          /\ ~WsUp(c)
          /\ handler' = [handler EXCEPT ![c] = "top"]
          /\ UNCHANGED frame
    /\ UNCHANGED <<closed, app, sig_chain_block_hash, wsVars, node, delivered,
                   sent_late, chanVars, linkVars>>

\* Variant: the end of the websocket task is noticed before the frame it left.
HandlerRecvAbandons(c) ==
    /\ handler[c] = "recv"
    /\ \/ /\ WsUp(c)
          /\ rxx[c] # <<>>
          /\ rxx' = [rxx EXCEPT ![c] = <<>>]
          /\ frame' = [frame EXCEPT ![c] = IF closed THEN @ ELSE Head(rxx[c])]
          /\ handler' = [handler EXCEPT ![c] = IF closed THEN "top" ELSE "handle"]
       \/ /\ ~WsUp(c)
          /\ handler' = [handler EXCEPT ![c] = "ended"]
          /\ UNCHANGED <<rxx, frame>>
    /\ UNCHANGED <<closed, app, sig_chain_block_hash, wsVars, node, delivered,
                   sent_late, chanVars, linkVars>>

\* rxx.recv(): a frame, which handle_message drops if the client was closed
\* meanwhile, or the end of the websocket task.
HandlerRecv(c) ==
    /\ handler[c] = "recv"
    /\ \/ /\ rxx[c] # <<>>
          /\ rxx' = [rxx EXCEPT ![c] = <<>>]
          /\ frame' = [frame EXCEPT ![c] = IF closed THEN @ ELSE Head(rxx[c])]
          /\ handler' = [handler EXCEPT ![c] = IF closed THEN "top" ELSE "handle"]
       \/ /\ rxx[c] = <<>>
          /\ ~WsUp(c)
          /\ handler' = [handler EXCEPT ![c] = "ended"]
          /\ UNCHANGED <<rxx, frame>>
    /\ UNCHANGED <<closed, app, sig_chain_block_hash, wsVars, node, delivered,
                   sent_late, chanVars, linkVars>>

\* Where handle_message can go with a frame; it reads closed a second time
\* before its sends.  The lock of client_node may be poisoned.
AfterHandle(f) ==
    CASE f.kind = "fatal" -> {"panicked"}
      [] f.kind = "setClient" /\ ~closed -> {"connect_send", "panicked"}
      [] f.kind = "inbound" /\ ~closed -> {"message_send"}
      [] OTHER -> {"top"}

\* The body of handle_message up to its blocking sends.
HandleMessage(c) ==
    /\ handler[c] = "handle"
    /\ \E pc \in AfterHandle(frame[c]) :
         /\ handler' = [handler EXCEPT ![c] = pc]
         /\ frame' = [frame EXCEPT ![c] = IF pc = "message_send" THEN @ ELSE NoFrame]
         /\ node' = [node EXCEPT ![c] = IF pc = "connect_send" THEN client_node ELSE 0]
    /\ sig_chain_block_hash' =
         IF frame[c].kind \in {"setClient", "updateSigChainBlockHash"}
         THEN c ELSE sig_chain_block_hash
    /\ UNCHANGED <<closed, app, rxx, wsVars, delivered, sent_late, chanVars,
                   linkVars>>

\* connect_tx.send(node).unwrap()
ConnectSend(c) ==
    /\ handler[c] = "connect_send"
    /\ \/ /\ app = "gone"
          /\ handler' = [handler EXCEPT ![c] = "panicked"]
          /\ UNCHANGED <<connect_chan, sent_late>>
       \/ /\ app # "gone"
          /\ connect_chan = <<>>
          /\ connect_chan' = <<node[c]>>
          /\ handler' = [handler EXCEPT ![c] = "top"]
          /\ sent_late' = [sent_late EXCEPT ![c] = IF closed THEN @ + 1 ELSE @]
    /\ node' = [node EXCEPT ![c] = 0]
    /\ UNCHANGED <<closed, app, sig_chain_block_hash, rxx, wsVars, frame,
                   delivered, message_chan, linkVars>>

\* Variant: the send is repeated after it succeeded.
MessageSendRepeats(c) ==
    /\ handler[c] = "message_send"
    /\ app # "gone"
    /\ message_chan = <<>>
    /\ message_chan' = << <<c, frame[c].n>> >>
    /\ delivered' = [delivered EXCEPT ![c] = frame[c].n]
    /\ sent_late' = [sent_late EXCEPT ![c] = IF closed THEN @ + 1 ELSE @]
    /\ UNCHANGED <<closed, app, sig_chain_block_hash, rxx, wsVars, handler, frame,
                   node, connect_chan, linkVars>>

\* message_tx.send(msg).unwrap()
MessageSend(c) ==
    /\ handler[c] = "message_send"
    /\ \/ /\ app = "gone"
          /\ handler' = [handler EXCEPT ![c] = "panicked"]
          /\ UNCHANGED <<message_chan, delivered, sent_late>>
       \/ /\ app # "gone"
          /\ message_chan = <<>>
          /\ message_chan' = << <<c, frame[c].n>> >>
          /\ delivered' = [delivered EXCEPT ![c] = frame[c].n]
          /\ handler' = [handler EXCEPT ![c] = "top"]
          /\ sent_late' = [sent_late EXCEPT ![c] = IF closed THEN @ + 1 ELSE @]
    /\ frame' = [frame EXCEPT ![c] = NoFrame]
    /\ UNCHANGED <<closed, app, sig_chain_block_hash, rxx, wsVars, node,
                   connect_chan, linkVars>>

-----------------------------------------------------------------------------
(* The application *)

WaitForConnect ==
    /\ app = "running"
    /\ connect_chan # <<>>
    /\ connect_chan' = <<>>
    /\ UNCHANGED <<closed, app, sig_chain_block_hash, rxx, wsVars,
                   handlerVars, message_chan, linkVars>>

WaitForMessage ==
    /\ app = "running"
    /\ message_chan # <<>>
    /\ message_chan' = <<>>
    /\ UNCHANGED <<closed, app, sig_chain_block_hash, rxx, wsVars,
                   handlerVars, connect_chan, linkVars>>

Close ==
    /\ app = "running"
    /\ closed' = TRUE
    /\ UNCHANGED <<app, sig_chain_block_hash, rxx, wsVars, handlerVars,
                   chanVars, linkVars>>

\* The Client is dropped, with or without close(); its tasks go on.
Drop ==
    /\ app = "running"
    /\ app' = "gone"
    /\ UNCHANGED <<closed, sig_chain_block_hash, rxx, wsVars, handlerVars,
                   chanVars, linkVars>>

-----------------------------------------------------------------------------
ConnectorStep(c) == InstallNode(c) \/ StartTasks(c) \/ ConnectorPanic(c)

WsStep(c) == WsRead(c) \/ WsUnblock(c) \/ WsEnd(c)

HandlerStep(c) ==
    \/ HandlerTop(c) \/ HandlerRecv(c) \/ HandleMessage(c)
    \/ ConnectSend(c) \/ MessageSend(c)

AppStep == WaitForConnect \/ WaitForMessage \/ Close \/ Drop

Next ==
    \/ Dial
    \/ \E c \in Conns : ConnectorStep(c) \/ WsStep(c) \/ HandlerStep(c)
    \/ AppStep

Spec == Init /\ [][Next]_vars

\* tokio runs every task that can go on, and the application takes what is in
\* its channels for as long as it has them.
Fairness ==
    /\ \A c \in Conns :
         /\ WF_vars(ConnectorStep(c)) /\ WF_vars(WsUnblock(c))
         /\ WF_vars(WsReplaced(c)) /\ WF_vars(HandlerStep(c))
    /\ WF_vars(WaitForConnect) /\ WF_vars(WaitForMessage)

FairSpec == Spec /\ Fairness

-----------------------------------------------------------------------------
(* Properties *)

\* The number of the inbound message a frame carries.
Carried(f) == IF f.kind = "inbound" THEN <<f.n>> ELSE <<>>

\* The inbound messages of connection c on their way to the application,
\* oldest first: with the handler, in rxx, with the websocket task.
UnderWay(c) ==
    Carried(frame[c])
        \o (IF rxx[c] = <<>> THEN <<>> ELSE Carried(Head(rxx[c])))
        \o Carried(ws_frame[c])

\* A handler that is gone delivers nothing more.
Queue(c) == IF RxxUp(c) THEN UnderWay(c) ELSE <<>>

Status(c) ==
    CASE handler[c] = "panicked" -> "failed"
      [] handler[c] \in {"ended", "returned"} -> "ended"
      [] OTHER -> "open"

D == INSTANCE Delivery WITH
       arrived <- inbound,
       queue   <- [c \in Conns |-> Queue(c)],
       status  <- [c \in Conns |-> Status(c)],
       inbox   <- message_chan

\* The websocket task, rxx and the handler of a connection together are a
\* queue, as Delivery describes it: nothing is lost, repeated or reordered on
\* the way, except by close() or a panic of the handler, and the handler that
\* sees the end of its websocket task has handed over everything before.
ImplementsDelivery == D!Spec

\* As long as the client is open and the handler lives, the application gets
\* the messages of a connection in the order they arrived, none twice and
\* none left out: what is not delivered yet is under way, in order, through
\* the websocket task, rxx and the handler.
DeliveredInOrder ==
    \A c \in Conns :
        ~closed /\ RxxUp(c) =>
            UnderWay(c) = [k \in 1 .. inbound[c] - delivered[c] |-> delivered[c] + k]

\* close() leaves at most the send a handler was already committed to: every
\* connection hands the application at most one more node or message.
CloseStopsDelivery == \A c \in Conns : sent_late[c] <= 1

\* A replaced connection winds down: its websocket task and its handler come
\* to an end although both may be blocked on a full channel.
ReplacedConnectionEnds ==
    \A c \in Conns : c < conns ~> (~WsUp(c) /\ ~RxxUp(c))

\* A message that was read is delivered, unless the client is closed or
\* the handler panics, which it does when the client is dropped.
MessagesAreDelivered ==
    \A c \in Conns, n \in 1 .. MaxFrames :
        (inbound[c] = n) ~> (delivered[c] >= n \/ closed \/ handler[c] = "panicked")
=============================================================================
