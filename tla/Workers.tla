------------------------------ MODULE Workers ------------------------------
(***************************************************************************)
(* The workers of the tokio runtime that the tasks of clients occupy       *)
(* (src/src/client.rs).                                                    *)
(*                                                                         *)
(* The tasks exchange items over crossbeam channels, whose recv() and      *)
(* send() block the worker they run on.  Everything else a task waits for  *)
(* (a socket, a timer, a dial) gives the worker back, and the task goes on *)
(* when a worker is free.  The application runs on a thread of its own.    *)
(*                                                                         *)
(* What the connectors and the handler decide is in ClientConnect and      *)
(* ClientReceive; here a dial succeeds and a frame is the challenge, the   *)
(* reply to setClient or a message; handle_message may panic on any of     *)
(* them.                                                                   *)
(***************************************************************************)
EXTENDS Integers, FiniteSets

CONSTANTS
    Clients,
    NumWorkers,
    MaxConns,     \* bound: connections of a client; the last one stays up
    MaxRequests   \* bound: the application's calls of reconnect

ASSUME WorkersAssumption ==
    NumWorkers \in Nat /\ MaxConns \in Nat \ {0} /\ MaxRequests \in Nat

\* The tasks Client::new spawns, and those of the k-th connection.
OwnTasks == {"connect", "reconnect", "reply"}
ConnTasks == {"ws", "ping", "challenge", "handler"}
Tasks == (OwnTasks \X {0}) \cup (ConnTasks \X (1 .. MaxConns))

Frames == {"challenge", "accept", "message"}
NoFrame == "none"
Quiet == "quiet"

VARIABLES
    pc,         \* of each client and task: "off", "ready" to run, in an await
                \* ("wait"), running on ("busy"), blocked in a channel ("recv",
                \* "send"); "done", and for the handler also "returned" because
                \* of close(), and "panicked"
    conns,      \* connections opened so far; stdin_tx is that of the last
    node,       \* what the node of a connection sends next
    held,       \* the frame the websocket task is blocked with
    rxx,        \* the frame in rxx, of capacity one
    handling,   \* the frame the handler is blocked with
    challenged, \* whether the handler has passed on the challenge
    connect_chan, message_chan, reconnect_chan,   \* items, of capacity one
    closed,
    user,       \* the application: "idle", or blocked in "reconnect"
    requests    \* its calls of reconnect so far

chanVars == <<connect_chan, message_chan, reconnect_chan>>
frameVars == <<node, held, rxx, handling, challenged>>
userVars == <<closed, user, requests>>
vars == <<pc, conns, frameVars, chanVars, userVars>>

TypeOK ==
    /\ pc \in [Clients -> [Tasks -> {"off", "ready", "wait", "busy", "recv", "send",
                                     "done", "returned", "panicked"}]]
    /\ conns \in [Clients -> 0 .. MaxConns]
    /\ node \in [Clients -> [1 .. MaxConns -> Frames \cup {NoFrame, Quiet}]]
    /\ held \in [Clients -> [1 .. MaxConns -> Frames \cup {NoFrame}]]
    /\ rxx \in [Clients -> [1 .. MaxConns -> Frames \cup {NoFrame}]]
    /\ handling \in [Clients -> [1 .. MaxConns -> Frames \cup {NoFrame}]]
    /\ challenged \in [Clients -> [1 .. MaxConns -> BOOLEAN]]
    /\ connect_chan \in [Clients -> 0 .. 1]
    /\ message_chan \in [Clients -> 0 .. 1]
    /\ reconnect_chan \in [Clients -> 0 .. 1]
    /\ closed \in [Clients -> BOOLEAN]
    /\ user \in [Clients -> {"idle", "reconnect"}]
    /\ requests \in [Clients -> 0 .. MaxRequests]

\* handle_reply blocks in reply_rx.recv() and never gives its worker back: a
\* reply goes to the public key its message came from, so sending it awaits
\* nothing.  Its worker is counted from the start.
Init ==
    /\ pc = [c \in Clients |->
                [t \in Tasks |-> CASE t[1] = "connect" -> "wait"
                                   [] t[1] = "reconnect" -> "ready"
                                   [] t[1] = "reply" -> "recv"
                                   [] OTHER -> "off"]]
    /\ conns = [c \in Clients |-> 0]
    /\ node = [c \in Clients |-> [k \in 1 .. MaxConns |-> "challenge"]]
    /\ held = [c \in Clients |-> [k \in 1 .. MaxConns |-> NoFrame]]
    /\ rxx = [c \in Clients |-> [k \in 1 .. MaxConns |-> NoFrame]]
    /\ handling = [c \in Clients |-> [k \in 1 .. MaxConns |-> NoFrame]]
    /\ challenged = [c \in Clients |-> [k \in 1 .. MaxConns |-> FALSE]]
    /\ connect_chan = [c \in Clients |-> 0]
    /\ message_chan = [c \in Clients |-> 0]
    /\ reconnect_chan = [c \in Clients |-> 0]
    /\ closed = [c \in Clients |-> FALSE]
    /\ user = [c \in Clients |-> "idle"]
    /\ requests = [c \in Clients |-> 0]

\* The tasks that occupy a worker, and whether another one can run.
Blocked == {x \in Clients \X Tasks : pc[x[1]][x[2]] \in {"busy", "recv", "send"}}

\* Variant: the application waits on a worker, too.
WorkerIsFreeForTwo == Cardinality(Blocked) + 1 < NumWorkers

WorkerIsFree == Cardinality(Blocked) < NumWorkers

Goto(c, t, label) == pc' = [pc EXCEPT ![c][t] = label]

-----------------------------------------------------------------------------
(* The tasks of a client *)

\* connect_to_node: the dial is done; the tasks of the connection are spawned.
Spawned(c, t, label) ==
    [pc[c] EXCEPT ![t] = label, ![<<"ws", conns[c] + 1>>] = "wait",
                  ![<<"ping", conns[c] + 1>>] = "wait",
                  ![<<"challenge", conns[c] + 1>>] = "ready",
                  ![<<"handler", conns[c] + 1>>] = "ready"]

Connect(c, t, next) ==
    /\ pc[c][t] = "wait" /\ WorkerIsFree
    /\ conns[c] < MaxConns
    /\ conns' = [conns EXCEPT ![c] = @ + 1]
    /\ pc' = [pc EXCEPT ![c] = Spawned(c, t, next)]
    /\ UNCHANGED <<frameVars, chanVars, userVars>>

FirstConnect(c) == Connect(c, <<"connect", 0>>, "done")

\* handle_reconnect: reconnect_rx.recv(), then a sleep and a dial, or the end
\* of the task if the client was closed.
ReconnectRecv(c) ==
    /\ pc[c][<<"reconnect", 0>>] = "ready" /\ WorkerIsFree
    /\ Goto(c, <<"reconnect", 0>>, "recv")
    /\ UNCHANGED <<conns, frameVars, chanVars, userVars>>

ReconnectGo(c) ==
    /\ pc[c][<<"reconnect", 0>>] = "recv"
    /\ reconnect_chan[c] = 1
    /\ reconnect_chan' = [reconnect_chan EXCEPT ![c] = 0]
    /\ Goto(c, <<"reconnect", 0>>, IF closed[c] THEN "done" ELSE "wait")
    /\ UNCHANGED <<conns, frameVars, connect_chan, message_chan, userVars>>

Reconnect(c) == Connect(c, <<"reconnect", 0>>, "ready")

-----------------------------------------------------------------------------
(* The tasks of a connection *)

\* The node sends the challenge, the reply to setClient once it was asked
\* for, and one message (a bound), after which it is quiet.
AfterFrame(f) ==
    CASE f = "challenge" -> NoFrame [] f = "accept" -> "message" [] f = "message" -> Quiet

\* rxx belongs to the handler, or to the connector until that is spawned.
RxxUp(c, k) == pc[c][<<"handler", k>>] \notin {"done", "returned", "panicked"}

\* The websocket task gets a frame and puts it into rxx.  unwrap() of the send
\* panics when the handler is gone.
WsFrame(c, k) ==
    /\ pc[c][<<"ws", k>>] = "wait" /\ WorkerIsFree
    /\ node[c][k] \in Frames
    /\ node' = [node EXCEPT ![c][k] = AfterFrame(@)]
    /\ \/ /\ ~RxxUp(c, k)
          /\ Goto(c, <<"ws", k>>, "done")
          /\ UNCHANGED <<rxx, held>>
       \/ /\ RxxUp(c, k) /\ rxx[c][k] = NoFrame
          /\ rxx' = [rxx EXCEPT ![c][k] = node[c][k]]
          /\ UNCHANGED <<pc, held>>
       \/ /\ RxxUp(c, k) /\ rxx[c][k] # NoFrame
          /\ held' = [held EXCEPT ![c][k] = node[c][k]]
          /\ Goto(c, <<"ws", k>>, "send")
          /\ UNCHANGED rxx
    /\ UNCHANGED <<conns, handling, challenged, chanVars, userVars>>

\* The blocked send finds room, or the handler gone.
WsSend(c, k) ==
    /\ pc[c][<<"ws", k>>] = "send"
    /\ \/ /\ RxxUp(c, k) /\ rxx[c][k] = NoFrame
          /\ rxx' = [rxx EXCEPT ![c][k] = held[c][k]]
          /\ Goto(c, <<"ws", k>>, "wait")
       \/ /\ ~RxxUp(c, k)
          /\ Goto(c, <<"ws", k>>, "done")
          /\ UNCHANGED rxx
    /\ held' = [held EXCEPT ![c][k] = NoFrame]
    /\ UNCHANGED <<conns, node, handling, challenged, chanVars, userVars>>

\* The socket ends, and the websocket task with it.
WsEnd(c, k) ==
    /\ pc[c][<<"ws", k>>] = "wait" /\ WorkerIsFree
    /\ k < MaxConns
    /\ Goto(c, <<"ws", k>>, "done")
    /\ UNCHANGED <<conns, frameVars, chanVars, userVars>>

\* stdin_to_ws ends once its sender is dropped, that is, replaced.
WsReplaced(c, k) == k < conns[c] /\ WsEnd(c, k)

\* reconnect_tx.send(()), the last thing a ping or challenge task does: a full
\* channel blocks it, and expect() panics once handle_reconnect has ended.
AskForReconnect(c, t) ==
    /\ \/ /\ pc[c][<<"reconnect", 0>>] = "done"
          /\ Goto(c, t, "done")
          /\ UNCHANGED reconnect_chan
       \/ /\ pc[c][<<"reconnect", 0>>] # "done" /\ reconnect_chan[c] = 0
          /\ reconnect_chan' = [reconnect_chan EXCEPT ![c] = 1]
          /\ Goto(c, t, "done")
       \/ /\ pc[c][<<"reconnect", 0>>] # "done" /\ reconnect_chan[c] = 1
          /\ Goto(c, t, "send")
          /\ UNCHANGED reconnect_chan
    /\ UNCHANGED <<conns, frameVars, connect_chan, message_chan, userVars>>

RequestSend(c, t) ==
    /\ pc[c][t] = "send"
    /\ reconnect_chan[c] = 0 \/ pc[c][<<"reconnect", 0>>] = "done"
    /\ AskForReconnect(c, t)

\* A ping over the socket of the last connection finds it dead.
PingFails(c, k) ==
    /\ pc[c][<<"ping", k>>] = "wait" /\ WorkerIsFree
    /\ pc[c][<<"ws", conns[c]>>] = "done"
    /\ AskForReconnect(c, <<"ping", k>>)

\* The handler has set done, which it does only at the end of its loop.
PingEnd(c, k) ==
    /\ pc[c][<<"ping", k>>] = "wait" /\ WorkerIsFree
    /\ pc[c][<<"handler", k>>] = "done"
    /\ Goto(c, <<"ping", k>>, "done")
    /\ UNCHANGED <<conns, frameVars, chanVars, userVars>>

\* The challenge task waits for the challenge.
ChallengeRecv(c, k) ==
    /\ pc[c][<<"challenge", k>>] = "ready" /\ WorkerIsFree
    /\ Goto(c, <<"challenge", k>>, "recv")
    /\ UNCHANGED <<conns, frameVars, chanVars, userVars>>

\* It sends setClient over the socket of the last connection, whose node
\* accepts it if it is the answer to its own challenge.
ChallengeGo(c, k) ==
    /\ pc[c][<<"challenge", k>>] = "recv"
    /\ challenged[c][k]
    /\ pc[c][<<"ws", conns[c]>>] # "done"
    /\ Goto(c, <<"challenge", k>>, "done")
    /\ node' = [node EXCEPT ![c][k] = IF k = conns[c] /\ @ = NoFrame THEN "accept" ELSE @]
    /\ UNCHANGED <<conns, held, rxx, handling, challenged, chanVars, userVars>>

\* That socket is dead: a reconnection is asked for.
ChallengeFails(c, k) ==
    /\ pc[c][<<"challenge", k>>] = "recv"
    /\ challenged[c][k]
    /\ pc[c][<<"ws", conns[c]>>] = "done"
    /\ AskForReconnect(c, <<"challenge", k>>)

\* Variant: somebody else keeps a sender of the challenge.
ChallengeEndNever(c, k) ==
    /\ FALSE
    /\ UNCHANGED vars

\* The handler, who owns the only sender as it owns rxx, is gone: recv() fails.
ChallengeEnd(c, k) ==
    /\ pc[c][<<"challenge", k>>] = "recv"
    /\ ~challenged[c][k]
    /\ ~RxxUp(c, k)
    /\ Goto(c, <<"challenge", k>>, "done")
    /\ UNCHANGED <<conns, frameVars, chanVars, userVars>>

\* The head of the handler's loop.
HandlerLoop(c, k) ==
    /\ \/ pc[c][<<"handler", k>>] = "ready" /\ WorkerIsFree
       \/ pc[c][<<"handler", k>>] = "busy"
    /\ Goto(c, <<"handler", k>>, IF closed[c] THEN "returned" ELSE "recv")
    /\ UNCHANGED <<conns, frameVars, chanVars, userVars>>

\* The handler takes a frame: handle_message up to its blocking sends.  A frame
\* may make it panic; the challenge goes to its task; closed is read before
\* anything is sent to the application.
HandlerTake(c, k) ==
    /\ pc[c][<<"handler", k>>] = "recv"
    /\ rxx[c][k] # NoFrame
    /\ rxx' = [rxx EXCEPT ![c][k] = NoFrame]
    /\ \/ /\ Goto(c, <<"handler", k>>, "panicked")
          /\ UNCHANGED <<handling, challenged>>
       \/ /\ rxx[c][k] = "challenge"
          /\ challenged' = [challenged EXCEPT ![c][k] = TRUE]
          /\ Goto(c, <<"handler", k>>, "busy")
          /\ UNCHANGED handling
       \/ /\ rxx[c][k] # "challenge" /\ closed[c]
          /\ Goto(c, <<"handler", k>>, "busy")
          /\ UNCHANGED <<handling, challenged>>
       \/ /\ rxx[c][k] # "challenge" /\ ~closed[c]
          /\ handling' = [handling EXCEPT ![c][k] = rxx[c][k]]
          /\ Goto(c, <<"handler", k>>, "send")
          /\ UNCHANGED challenged
    /\ UNCHANGED <<conns, node, held, chanVars, userVars>>

\* The reply to setClient goes to the connect channel and a message to the
\* message channel; a full one blocks the handler.
HandlerSend(c, k) ==
    /\ pc[c][<<"handler", k>>] = "send"
    /\ handling' = [handling EXCEPT ![c][k] = NoFrame]
    /\ Goto(c, <<"handler", k>>, "busy")
    /\ \/ /\ handling[c][k] = "accept" /\ connect_chan[c] = 0
          /\ connect_chan' = [connect_chan EXCEPT ![c] = 1]
          /\ UNCHANGED message_chan
       \/ /\ handling[c][k] = "message" /\ message_chan[c] = 0
          /\ message_chan' = [message_chan EXCEPT ![c] = 1]
          /\ UNCHANGED connect_chan
    /\ UNCHANGED <<conns, node, held, rxx, challenged, reconnect_chan, userVars>>

\* Variant: the handler ends with the websocket task.
HandlerEndAtOnce(c, k) ==
    /\ pc[c][<<"handler", k>>] = "recv"
    /\ pc[c][<<"ws", k>>] = "done"
    /\ Goto(c, <<"handler", k>>, "done")
    /\ UNCHANGED <<conns, frameVars, chanVars, userVars>>

\* The websocket task is gone and rxx is empty: recv() fails.
HandlerEnd(c, k) ==
    /\ pc[c][<<"handler", k>>] = "recv"
    /\ rxx[c][k] = NoFrame
    /\ pc[c][<<"ws", k>>] = "done"
    /\ Goto(c, <<"handler", k>>, "done")
    /\ UNCHANGED <<conns, frameVars, chanVars, userVars>>

-----------------------------------------------------------------------------
(* The application: reconnect takes &mut self, so one call at a time *)

\* wait_for_connect
AppConnect(c) ==
    /\ user[c] = "idle" /\ connect_chan[c] = 1
    /\ connect_chan' = [connect_chan EXCEPT ![c] = 0]
    /\ UNCHANGED <<pc, conns, frameVars, message_chan, reconnect_chan, userVars>>

\* wait_for_message
AppMessage(c) ==
    /\ user[c] = "idle" /\ message_chan[c] = 1
    /\ message_chan' = [message_chan EXCEPT ![c] = 0]
    /\ UNCHANGED <<pc, conns, frameVars, connect_chan, reconnect_chan, userVars>>

\* reconnect, whether or not the present connection lives.
AppReconnect(c) ==
    /\ user[c] = "idle" /\ ~closed[c]
    /\ requests[c] < MaxRequests
    /\ requests' = [requests EXCEPT ![c] = @ + 1]
    /\ user' = [user EXCEPT ![c] = "reconnect"]
    /\ UNCHANGED <<pc, conns, frameVars, chanVars, closed>>

\* Its reconnect_tx.send(()) finds room.
AppReconnectSend(c) ==
    /\ user[c] = "reconnect" /\ reconnect_chan[c] = 0
    /\ reconnect_chan' = [reconnect_chan EXCEPT ![c] = 1]
    /\ user' = [user EXCEPT ![c] = "idle"]
    /\ UNCHANGED <<pc, conns, frameVars, connect_chan, message_chan, closed, requests>>

AppClose(c) ==
    /\ user[c] = "idle"
    /\ closed' = [closed EXCEPT ![c] = TRUE]
    /\ UNCHANGED <<pc, conns, frameVars, chanVars, user, requests>>

-----------------------------------------------------------------------------
ReconnectStep(c) == ReconnectRecv(c) \/ ReconnectGo(c) \/ Reconnect(c)

OwnStep(c) == FirstConnect(c) \/ ReconnectStep(c)

\* What the network does.
EnvStep(c) == \E k \in 1 .. MaxConns : WsEnd(c, k)

WsStep(c, k) == WsFrame(c, k) \/ WsSend(c, k)

ChallengeStep(c, k) ==
    \/ ChallengeRecv(c, k) \/ ChallengeGo(c, k) \/ ChallengeFails(c, k)
    \/ ChallengeEnd(c, k) \/ RequestSend(c, <<"challenge", k>>)

PingStep(c, k) == PingFails(c, k) \/ PingEnd(c, k) \/ RequestSend(c, <<"ping", k>>)

HandlerStep(c, k) == HandlerLoop(c, k) \/ HandlerTake(c, k) \/ HandlerEnd(c, k)

ConnStep(c, k) ==
    \/ WsStep(c, k) \/ PingStep(c, k) \/ ChallengeStep(c, k)
    \/ HandlerStep(c, k) \/ HandlerSend(c, k)

AppStep(c) ==
    \/ AppConnect(c) \/ AppMessage(c) \/ AppReconnect(c) \/ AppReconnectSend(c)
    \/ AppClose(c)

Next ==
    \E c \in Clients :
        \/ OwnStep(c) \/ EnvStep(c) \/ AppStep(c)
        \/ \E k \in 1 .. MaxConns : ConnStep(c, k)

\* The runtime runs every task that is ready when a worker is free, blocked
\* calls return when they can, nodes send what is due, a replaced socket ends,
\* and the application keeps reading both channels.  Strong fairness stands for
\* the queue a channel keeps of its blocked senders.
Fairness ==
    \A c \in Clients :
        /\ WF_vars(FirstConnect(c)) /\ WF_vars(ReconnectStep(c))
        /\ WF_vars(AppConnect(c)) /\ WF_vars(AppMessage(c)) /\ SF_vars(AppReconnectSend(c))
        /\ \A k \in 1 .. MaxConns :
              /\ WF_vars(WsStep(c, k)) /\ WF_vars(WsReplaced(c, k))
              /\ WF_vars(ChallengeStep(c, k)) /\ WF_vars(RequestSend(c, <<"ping", k>>))
              /\ WF_vars(HandlerStep(c, k)) /\ SF_vars(HandlerSend(c, k))

Spec == Init /\ [][Next]_vars /\ Fairness

-----------------------------------------------------------------------------
(* Properties *)

\* A frame in rxx, or with a websocket task that blocks its worker to hand it
\* over, has a handler that is yet to take it, unless that has returned because
\* the client was closed or has panicked: a handler that ends by itself outlives
\* its websocket task and leaves nothing behind.
FramesHaveAHandler ==
    \A c \in Clients, k \in 1 .. MaxConns :
        /\ rxx[c][k] # NoFrame \/ held[c][k] # NoFrame =>
              \/ pc[c][<<"handler", k>>] \in {"ready", "busy", "recv", "send"}
              \/ pc[c][<<"handler", k>>] = "returned" /\ closed[c]
              \/ pc[c][<<"handler", k>>] = "panicked"
        /\ pc[c][<<"handler", k>>] = "done" => pc[c][<<"ws", k>>] = "done"

\* Whether the handler of a connection is gone before its socket is.
HandlerGone(c, k) == pc[c][<<"handler", k>>] \in {"returned", "panicked"}

\* The bound on connections keeps handle_reconnect from dialing.
BoundReached(c) == conns[c] = MaxConns /\ pc[c][<<"reconnect", 0>>] = "wait"

\* The last connection gets its challenge answered, and one that was replaced
\* ends, although recv() in handle_reconnect, in handle_reply, in both handlers
\* and in both challenge tasks may take six of the seven workers; with six,
\* reconnect() on a connection that lives leaves no worker for either socket.
ConnectionIsServed ==
    \A c \in Clients, k \in 1 .. MaxConns :
        pc[c][<<"ws", k>>] = "wait" ~>
            \/ node[c][k] \in {"message", Quiet} \/ pc[c][<<"ws", k>>] = "done"
            \/ HandlerGone(c, k) \/ BoundReached(c)

\* A connection whose socket has ended gives back all its workers, though its
\* handler may be blocked on a full channel and its challenge task on a
\* challenge that will not come.
DeadConnectionFreesWorkers ==
    \A c \in Clients, k \in 1 .. MaxConns :
        pc[c][<<"ws", k>>] = "done" ~>
            \/ pc[c][<<"challenge", k>>] = "done" /\ ~RxxUp(c, k)
            \/ BoundReached(c)
=============================================================================
