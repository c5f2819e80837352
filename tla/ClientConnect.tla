---------------------------- MODULE ClientConnect ----------------------------
(***************************************************************************)
(* How a Client gets, keeps and gives up its connection (src/src/client.rs)*)
(*                                                                         *)
(* Client::new starts two connectors: one task calls connect once, the     *)
(* other (handle_reconnect) calls it for every request on reconnect_tx.    *)
(* A successful dial replaces the shared stdin_tx and starts a websocket   *)
(* task; once the node is installed the connector also starts a ping, a    *)
(* challenge and a handler task for the connection.  They all share        *)
(* stdin_tx, client_node, closed and reconnect_tx.                         *)
(*                                                                         *)
(* Connections are numbered in the order their dials succeed; 0 stands for *)
(* None.  What the websocket task hands to the handler, and the handler to *)
(* the application, is the subject of module ClientReceive: here a handler *)
(* only lives and ends.                                                    *)
(***************************************************************************)
EXTENDS Integers

CONSTANTS
    MaxConns,      \* bound: dials that may succeed
    MaxChallenges, \* bound: challenges the nodes send
    MinInterval,   \* config.min_reconnect_interval
    MaxInterval    \* config.max_reconnect_interval

ASSUME ConnsAssumption == MaxConns \in Nat /\ MaxChallenges \in Nat
ASSUME IntervalAssumption ==
    MinInterval \in Nat /\ MaxInterval \in Nat /\ MinInterval <= MaxInterval

Conns == 1 .. MaxConns
Connectors == {"initial", "reconnector"}

VARIABLES
    closed,          \* set by close(), never reset
    stdin_tx,        \* connection of the current sender
    client_node,     \* connection whose node is installed
    poisoned,        \* a panic happened under the lock of client_node
    reconnect_chan,  \* bounded(1): number of queued requests
    app,             \* the application that owns the Client
    connector,       \* program counters of the two connectors
    dialed,          \* the connection each is working on, 0 if none
    retry_interval,  \* local of connect
    ws,              \* the websocket task of each connection
    handler,         \* its handler task
    ping,            \* its ping task
    challenge,       \* its challenge task
    conns,           \* history: number of dials that succeeded
    challenges,      \* history: number of challenges received
    opened_late,     \* history: dials of each connector after close()
    overlapped       \* history: a dial succeeded while the other connector
                     \* was about to install its node

connectorVars == <<connector, dialed, retry_interval>>
sharedVars == <<stdin_tx, client_node, poisoned>>
taskVars == <<ws, handler, ping, challenge>>
historyVars == <<conns, challenges, opened_late, overlapped>>
vars == <<closed, app, reconnect_chan, connectorVars, sharedVars, taskVars,
          historyVars>>

TypeOK ==
    /\ closed \in BOOLEAN
    /\ poisoned \in BOOLEAN
    /\ overlapped \in BOOLEAN
    /\ stdin_tx \in 0 .. MaxConns
    /\ client_node \in 0 .. MaxConns
    /\ reconnect_chan \in 0 .. 1
    /\ app \in {"running", "reconnecting", "gone"}
    /\ connector \in [Connectors -> {"recv", "address", "dial", "install",
                                     "node_state", "returned", "panicked"}]
    /\ dialed \in [Connectors -> 0 .. MaxConns]
    /\ retry_interval \in [Connectors -> MinInterval .. MaxInterval]
    /\ ws \in [Conns -> {"unborn", "up", "over"}]
    /\ handler \in [Conns -> {"unborn", "running", "ended", "returned", "panicked"}]
    /\ ping \in [Conns -> {"unborn", "check", "sleep", "request", "ended", "panicked"}]
    /\ challenge \in [Conns -> {"unborn", "recv", "answer", "request", "ended",
                               "panicked"}]
    /\ conns \in 0 .. MaxConns
    /\ challenges \in 0 .. MaxChallenges
    /\ opened_late \in [Connectors -> 0 .. MaxConns]

Init ==
    /\ closed = FALSE /\ poisoned = FALSE /\ app = "running"
    /\ stdin_tx = 0 /\ client_node = 0
    /\ reconnect_chan = 0
    /\ connector = [t \in Connectors |->
                      IF t = "initial" THEN "address" ELSE "recv"]
    /\ dialed = [t \in Connectors |-> 0]
    /\ retry_interval = [t \in Connectors |-> MinInterval]
    /\ ws = [c \in Conns |-> "unborn"]
    /\ handler = [c \in Conns |-> "unborn"]
    /\ ping = [c \in Conns |-> "unborn"]
    /\ challenge = [c \in Conns |-> "unborn"]
    /\ conns = 0 /\ challenges = 0 /\ overlapped = FALSE
    /\ opened_late = [t \in Connectors |-> 0]

-----------------------------------------------------------------------------
\* unbounded_send on the current stdin_tx succeeds: the websocket task owns
\* stdin_rx and drops it when it is over.
SocketUp == stdin_tx # 0 /\ ws[stdin_tx] = "up"

\* handle_reconnect owns reconnect_rx.
ReconnectorUp == connector["reconnector"] \notin {"returned", "panicked"}

-----------------------------------------------------------------------------
(* The connectors: connect, connect_to_node and handle_reconnect *)

\* Variant: closed is not read.
ReconnectRecvUnchecked ==
    /\ connector["reconnector"] = "recv"
    /\ reconnect_chan > 0
    /\ reconnect_chan' = reconnect_chan - 1
    /\ connector' = [connector EXCEPT !["reconnector"] = "address"]
    /\ UNCHANGED <<closed, app, dialed, retry_interval, sharedVars, taskVars,
                   historyVars>>

\* handle_reconnect: one request; the client may have been closed meanwhile.
\* The sleep of min_reconnect_interval is part of the step: nothing is read
\* again after it.
ReconnectRecv ==
    /\ connector["reconnector"] = "recv"
    /\ reconnect_chan > 0
    /\ reconnect_chan' = reconnect_chan - 1
    /\ connector' = [connector EXCEPT !["reconnector"] =
                       IF closed THEN "returned" ELSE "address"]
    /\ UNCHANGED <<closed, app, dialed, retry_interval, sharedVars, taskVars,
                   historyVars>>

\* get_ws_address answered with a node.  connect_to_node never fails, so that
\* connect does not read its retry interval again: the next call starts with
\* a fresh one.
GetWsAddress(t) ==
    /\ connector[t] = "address"
    /\ connector' = [connector EXCEPT ![t] = "dial"]
    /\ retry_interval' = [retry_interval EXCEPT ![t] = MinInterval]
    /\ UNCHANGED <<closed, app, reconnect_chan, dialed, sharedVars, taskVars,
                   historyVars>>

\* get_ws_address failed: sleep for the interval, double it up to its limit
\* and try again.  Both callers pass max_retries = 0: for ever.
Retry(t) ==
    /\ connector[t] = "address"
    /\ retry_interval' = [retry_interval EXCEPT ![t] =
                            IF 2 * @ > MaxInterval THEN MaxInterval ELSE 2 * @]
    /\ UNCHANGED <<closed, app, reconnect_chan, connector, dialed, sharedVars,
                   taskVars, historyVars>>

\* A task of rpc_call panicked in get_ws_address, or connect_async failed and
\* is expect()ed: the connector's task is over.
ConnectPanic(t) ==
    /\ connector[t] \in {"address", "dial"}
    /\ connector' = [connector EXCEPT ![t] = "panicked"]
    /\ retry_interval' = [retry_interval EXCEPT ![t] = MinInterval]
    /\ UNCHANGED <<closed, app, reconnect_chan, dialed, sharedVars, taskVars,
                   historyVars>>

\* Variant: the tasks are started without the node being installed.
DialSkipsInstall(t) ==
    LET c == conns + 1
    IN  /\ connector[t] = "dial"
        /\ conns < MaxConns
        /\ conns' = c
        /\ stdin_tx' = c
        /\ ws' = [ws EXCEPT ![c] = "up"]
        /\ dialed' = [dialed EXCEPT ![t] = c]
        /\ connector' = [connector EXCEPT ![t] = "node_state"]
        /\ UNCHANGED <<closed, app, reconnect_chan, retry_interval,
                       client_node, poisoned, handler, ping, challenge,
                       challenges, opened_late, overlapped>>

\* connect_async succeeded: the new sender replaces stdin_tx, which drops the
\* old one, and the websocket task is spawned.
Dial(t) ==
    LET c == conns + 1
    IN  /\ connector[t] = "dial"
        /\ conns < MaxConns
        /\ conns' = c
        /\ stdin_tx' = c
        /\ ws' = [ws EXCEPT ![c] = "up"]
        /\ dialed' = [dialed EXCEPT ![t] = c]
        /\ connector' = [connector EXCEPT ![t] = "install"]
        /\ opened_late' = [opened_late EXCEPT ![t] = IF closed THEN @ + 1 ELSE @]
        /\ overlapped' = (overlapped \/ \E u \in Connectors : connector[u] = "install")
        /\ UNCHANGED <<closed, app, reconnect_chan, retry_interval,
                       client_node, poisoned, handler, ping, challenge,
                       challenges>>

\* Variant: a node that is there is kept.
InstallNodeOnce(t) ==
    /\ connector[t] = "install"
    /\ connector' = [connector EXCEPT ![t] = "node_state"]
    /\ client_node' = IF client_node = 0 THEN dialed[t] ELSE client_node
    /\ UNCHANGED <<closed, app, reconnect_chan, retry_interval, dialed,
                   stdin_tx, poisoned, taskVars, historyVars>>

\* *client_node.lock().unwrap() = Some(node): a poisoned lock panics the
\* connector, so that the handler is never spawned.
InstallNode(t) ==
    LET c == dialed[t]
    IN  /\ connector[t] = "install"
        /\ \/ /\ poisoned
              /\ connector' = [connector EXCEPT ![t] = "panicked"]
              /\ dialed' = [dialed EXCEPT ![t] = 0]
              /\ handler' = [handler EXCEPT ![c] = "panicked"]
              /\ UNCHANGED client_node
           \/ /\ ~poisoned
              /\ connector' = [connector EXCEPT ![t] = "node_state"]
              /\ client_node' = c
              /\ UNCHANGED <<handler, dialed>>
        /\ UNCHANGED <<closed, app, reconnect_chan, retry_interval,
                       stdin_tx, poisoned, ws, ping, challenge, historyVars>>

\* Variant: handle_reconnect returns with its first connection.
StartTasksOnce(t) ==
    LET c == dialed[t]
    IN  /\ connector[t] = "node_state"
        /\ connector' = [connector EXCEPT ![t] = "returned"]
        /\ dialed' = [dialed EXCEPT ![t] = 0]
        /\ ping' = [ping EXCEPT ![c] = "check"]
        /\ challenge' = [challenge EXCEPT ![c] = "recv"]
        /\ handler' = [handler EXCEPT ![c] = "running"]
        /\ UNCHANGED <<closed, app, reconnect_chan, retry_interval,
                       stdin_tx, client_node, poisoned, ws,
                       historyVars>>

\* The node's state arrived: the wallet uses the node as its RPC server if
\* the node is in sync, then the tasks of the connection are spawned.
StartTasks(t) ==
    LET c == dialed[t]
    IN  /\ connector[t] = "node_state"
        /\ connector' = [connector EXCEPT ![t] =
                           IF t = "initial" THEN "returned" ELSE "recv"]
        /\ dialed' = [dialed EXCEPT ![t] = 0]
        /\ ping' = [ping EXCEPT ![c] = "check"]
        /\ challenge' = [challenge EXCEPT ![c] = "recv"]
        /\ handler' = [handler EXCEPT ![c] = "running"]
        /\ UNCHANGED <<closed, app, reconnect_chan, retry_interval,
                       stdin_tx, client_node, poisoned, ws,
                       historyVars>>

\* handle.await.unwrap(): the task that asked for the node's state panicked.
NodeStatePanic(t) ==
    /\ connector[t] = "node_state"
    /\ connector' = [connector EXCEPT ![t] = "panicked"]
    /\ dialed' = [dialed EXCEPT ![t] = 0]
    /\ handler' = [handler EXCEPT ![dialed[t]] = "panicked"]
    /\ UNCHANGED <<closed, app, reconnect_chan, retry_interval,
                   sharedVars, ws, ping, challenge, historyVars>>

-----------------------------------------------------------------------------
(* The websocket and handler tasks, as far as the others notice *)

\* The task ends with either half of its select: the stream is over, a write
\* fails, or handing a frame to a handler that is gone panics.
WsEnd(c) ==
    /\ ws[c] = "up"
    /\ ws' = [ws EXCEPT ![c] = "over"]
    /\ UNCHANGED <<closed, app, reconnect_chan, connectorVars, sharedVars,
                   handler, ping, challenge, historyVars>>

\* stdin_to_ws ends once its sender is dropped, that is, replaced.
WsReplaced(c) == stdin_tx # c /\ WsEnd(c)

\* break: the websocket task is over; only this way out sets done.
HandlerEnd(c) ==
    /\ handler[c] = "running"
    /\ ws[c] = "over"
    /\ handler' = [handler EXCEPT ![c] = "ended"]
    /\ UNCHANGED <<closed, app, reconnect_chan, connectorVars, sharedVars, ws,
                   ping, challenge, historyVars>>

\* return at the loop's head: the client is closed.
HandlerReturn(c) ==
    /\ handler[c] = "running"
    /\ closed
    /\ handler' = [handler EXCEPT ![c] = "returned"]
    /\ UNCHANGED <<closed, app, reconnect_chan, connectorVars, sharedVars, ws,
                   ping, challenge, historyVars>>

\* A frame handle_message cannot take: WrongNode is todo!(), malformed input
\* and a poisoned client_node are unwrapped.
HandlerPanic(c) ==
    /\ handler[c] = "running"
    /\ handler' = [handler EXCEPT ![c] = "panicked"]
    /\ UNCHANGED <<closed, app, reconnect_chan, connectorVars, sharedVars, ws,
                   ping, challenge, historyVars>>

\* handle_message got an authChallenge and queues it for the challenge task,
\* which takes only the first; a later one changes nothing.
AuthChallenge(c) ==
    /\ handler[c] = "running"
    /\ ~closed
    /\ challenge[c] = "recv"
    /\ challenges < MaxChallenges
    /\ challenges' = challenges + 1
    /\ challenge' = [challenge EXCEPT ![c] = "answer"]
    /\ UNCHANGED <<closed, app, reconnect_chan, connectorVars, sharedVars, ws,
                   handler, ping, conns, opened_late, overlapped>>

-----------------------------------------------------------------------------
(* The ping and challenge tasks *)

\* done is only set by a handler that ended.
Done(c) == handler[c] = "ended"

\* Variant: done is not read.
PingCheckUnchecked(c) ==
    /\ ping[c] = "check"
    /\ ping' = [ping EXCEPT ![c] = "sleep"]
    /\ UNCHANGED <<closed, app, reconnect_chan, connectorVars, sharedVars, ws,
                   handler, challenge, historyVars>>

PingCheck(c) ==
    /\ ping[c] = "check"
    /\ ping' = [ping EXCEPT ![c] = IF Done(c) THEN "ended" ELSE "sleep"]
    /\ UNCHANGED <<closed, app, reconnect_chan, connectorVars, sharedVars, ws,
                   handler, challenge, historyVars>>

\* Variant: a failed ping ends the task without a request.
PingSendGivesUp(c) ==
    /\ ping[c] = "sleep"
    /\ ping' = [ping EXCEPT ![c] = IF SocketUp THEN "check" ELSE "ended"]
    /\ UNCHANGED <<closed, app, reconnect_chan, connectorVars, sharedVars, ws,
                   handler, challenge, historyVars>>

\* The interval is over: a ping on the current socket, whichever it is.
PingSend(c) ==
    /\ ping[c] = "sleep"
    /\ ping' = [ping EXCEPT ![c] = IF SocketUp THEN "check" ELSE "request"]
    /\ UNCHANGED <<closed, app, reconnect_chan, connectorVars, sharedVars, ws,
                   handler, challenge, historyVars>>

\* reconnect_tx.send(()).expect(..): blocks while a request is queued, panics
\* when handle_reconnect is gone.
PingRequest(c) ==
    /\ ping[c] = "request"
    /\ \/ /\ ~ReconnectorUp
          /\ ping' = [ping EXCEPT ![c] = "panicked"]
          /\ UNCHANGED reconnect_chan
       \/ /\ ReconnectorUp
          /\ reconnect_chan = 0
          /\ reconnect_chan' = 1
          /\ ping' = [ping EXCEPT ![c] = "ended"]
    /\ UNCHANGED <<closed, app, connectorVars, sharedVars, ws, handler,
                   challenge, historyVars>>

\* The handler, and with it challenge_tx, is gone before any challenge came.
ChallengeGiveUp(c) ==
    /\ challenge[c] = "recv"
    /\ handler[c] # "running"
    /\ challenge' = [challenge EXCEPT ![c] = "ended"]
    /\ UNCHANGED <<closed, app, reconnect_chan, connectorVars, sharedVars, ws,
                   handler, ping, historyVars>>

\* setClient, on the current socket, whichever it is.
ChallengeAnswer(c) ==
    /\ challenge[c] = "answer"
    /\ challenge' = [challenge EXCEPT ![c] = IF SocketUp THEN "ended" ELSE "request"]
    /\ UNCHANGED <<closed, app, reconnect_chan, connectorVars, sharedVars, ws,
                   handler, ping, historyVars>>

ChallengeRequest(c) ==
    /\ challenge[c] = "request"
    /\ \/ /\ ~ReconnectorUp
          /\ challenge' = [challenge EXCEPT ![c] = "panicked"]
          /\ UNCHANGED reconnect_chan
       \/ /\ ReconnectorUp
          /\ reconnect_chan = 0
          /\ reconnect_chan' = 1
          /\ challenge' = [challenge EXCEPT ![c] = "ended"]
    /\ UNCHANGED <<closed, app, connectorVars, sharedVars, ws, handler, ping, historyVars>>

-----------------------------------------------------------------------------
(* The application *)

\* reconnect(): nothing when closed, else a blocking send.
Reconnect ==
    /\ app = "running"
    /\ ~closed
    /\ app' = "reconnecting"
    /\ UNCHANGED <<closed, reconnect_chan, connectorVars, sharedVars,
                   taskVars, historyVars>>

ReconnectSend ==
    /\ app = "reconnecting"
    /\ \/ /\ ~ReconnectorUp
          /\ app' = "gone"
          /\ UNCHANGED reconnect_chan
       \/ /\ ReconnectorUp
          /\ reconnect_chan = 0
          /\ reconnect_chan' = 1
          /\ app' = "running"
    /\ UNCHANGED <<closed, connectorVars, sharedVars, taskVars, historyVars>>

\* send_data with no node installed: create_outbound_message unwraps None
\* while it holds the lock of client_node.  The panic ends the caller, which
\* may or may not be the task that owns the Client.  With a node installed
\* nothing this module models changes.
SendPanics ==
    /\ app = "running"
    /\ client_node = 0 \/ poisoned
    /\ poisoned' = TRUE
    /\ app' \in {"running", "gone"}
    /\ UNCHANGED <<closed, reconnect_chan, connectorVars, stdin_tx,
                   client_node, taskVars, historyVars>>

Close ==
    /\ app = "running"
    /\ closed' = TRUE
    /\ UNCHANGED <<app, reconnect_chan, connectorVars, sharedVars, taskVars,
                   historyVars>>

-----------------------------------------------------------------------------
ConnectorStep(t) ==
    \/ GetWsAddress(t) \/ Retry(t) \/ ConnectPanic(t) \/ Dial(t)
    \/ InstallNode(t) \/ StartTasks(t) \/ NodeStatePanic(t)

HandlerStep(c) ==
    HandlerEnd(c) \/ HandlerReturn(c) \/ HandlerPanic(c) \/ AuthChallenge(c)

PingStep(c) == PingCheck(c) \/ PingSend(c) \/ PingRequest(c)

ChallengeStep(c) ==
    ChallengeGiveUp(c) \/ ChallengeAnswer(c) \/ ChallengeRequest(c)

AppStep == Reconnect \/ ReconnectSend \/ SendPanics \/ Close

Next ==
    \/ ReconnectRecv
    \/ \E t \in Connectors : ConnectorStep(t)
    \/ \E c \in Conns :
         WsEnd(c) \/ HandlerStep(c) \/ PingStep(c) \/ ChallengeStep(c)
    \/ AppStep

Spec == Init /\ [][Next]_vars

\* tokio runs every task that can go on, a seed server eventually answers and
\* an answered dial completes; the application keeps taking messages, so that
\* no handler waits for ever in a send.  Nothing is assumed of the failures.
Fairness ==
    /\ WF_vars(ReconnectRecv)
    /\ \A t \in Connectors :
         /\ WF_vars(GetWsAddress(t)) /\ WF_vars(Dial(t))
         /\ WF_vars(InstallNode(t)) /\ WF_vars(StartTasks(t))
    /\ \A c \in Conns :
         /\ WF_vars(WsReplaced(c)) /\ WF_vars(HandlerEnd(c))
         /\ WF_vars(PingStep(c)) /\ WF_vars(ChallengeStep(c))

FairSpec == Spec /\ Fairness

-----------------------------------------------------------------------------
(* Safety *)

\* The shared state a task unwraps is there: no task of a connection ever
\* finds stdin_tx or client_node still None (client.rs:690, 728, 843), and an
\* installed node always comes with a socket to write to (client.rs:1377).
UnwrapsFindSome ==
    /\ client_node # 0 => stdin_tx # 0
    /\ \A c \in Conns :
         ping[c] # "unborn" \/ handler[c] = "running" => client_node # 0

\* Messages are signed for client_node and written to stdin_tx: the two
\* belong to the same connection whenever no connector is between its dial
\* and the installation of its node, unless the two connectors overlapped
\* there or the lock of client_node is poisoned.
NodeMatchesSocket ==
    /\ \A t \in Connectors : connector[t] # "install"
    /\ ~overlapped
    /\ ~poisoned
    => client_node = stdin_tx

\* After close() each connector completes at most the connection it was
\* working on: handle_reconnect reads closed before every new one, and the
\* initial connector makes only one.
CloseStopsDialing == \A t \in Connectors : opened_late[t] <= 1

\* reconnect_tx.send(()).expect("TODO: panic message") in the ping and the
\* challenge task panics, but only once handle_reconnect has ended after close()
\* or has panicked with its dial: however many requests it has served, until
\* then it is there to be asked.
RequestsFailAfterTheEnd ==
    (\E c \in Conns : ping[c] = "panicked" \/ challenge[c] = "panicked") =>
        closed \/ connector["reconnector"] = "panicked"

-----------------------------------------------------------------------------
(* Liveness *)

\* The bound on dials holds up a connector, which the program does not know.
BoundReached == conns = MaxConns /\ \E t \in Connectors : connector[t] = "dial"

\* A socket that dies while its ping task sleeps is replaced: the next ping
\* fails and asks for a reconnection, unless the client is closed or
\* handle_reconnect is gone.
DeadSocketIsReplaced ==
    \A c \in Conns :
        (stdin_tx = c /\ ws[c] = "over" /\ ping[c] = "sleep")
            ~> (stdin_tx # c \/ closed \/ ~ReconnectorUp \/ BoundReached)

\* A replaced connection winds down: unless its handler panicked or returned
\* its ping task comes to an end.
ReplacedConnectionEnds ==
    \A c \in Conns :
        (handler[c] = "running" /\ stdin_tx # c)
            ~> \/ handler[c] \in {"returned", "panicked"}
               \/ ping[c] \in {"ended", "panicked"}
               \/ BoundReached

-----------------------------------------------------------------------------
(* What the code asserts of itself, and what does not hold *)

\* client_node.lock().unwrap() in connect_to_node: no connector ever finds
\* the lock poisoned.
NodeLockIsSound ==
    \A t \in Connectors : connector[t] = "install" => ~poisoned
=============================================================================
