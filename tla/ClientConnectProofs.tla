------------------------ MODULE ClientConnectProofs ------------------------
(***************************************************************************)
(* The safety of a Client's connection, for every number of connections,   *)
(* challenges and calls and all intervals.                                 *)
(***************************************************************************)
EXTENDS ClientConnect, TLAPS

ConnectorLabels ==
    {"recv", "address", "dial", "install", "node_state", "returned", "panicked"}
HandlerLabels == {"unborn", "running", "ended", "returned", "panicked"}
PingLabels == {"unborn", "check", "sleep", "request", "ended", "panicked"}
ChallengeLabels == {"unborn", "recv", "answer", "request", "ended", "panicked"}

ConnectorTypes ==
    /\ connector \in [Connectors -> ConnectorLabels]
    /\ dialed \in [Connectors -> 0 .. MaxConns]
    /\ retry_interval \in [Connectors -> MinInterval .. MaxInterval]
    /\ opened_late \in [Connectors -> 0 .. MaxConns]
    /\ conns \in 0 .. MaxConns
    /\ stdin_tx \in 0 .. MaxConns
    /\ client_node \in 0 .. MaxConns

TaskTypes ==
    /\ ws \in [Conns -> {"unborn", "up", "over"}]
    /\ handler \in [Conns -> HandlerLabels]
    /\ ping \in [Conns -> PingLabels]
    /\ challenge \in [Conns -> ChallengeLabels]
    /\ challenges \in 0 .. MaxChallenges
    /\ reconnect_chan \in 0 .. 1
    /\ app \in {"running", "reconnecting", "gone"}

Flags == closed \in BOOLEAN /\ poisoned \in BOOLEAN /\ overlapped \in BOOLEAN

\* The socket is that of the last dial.  A connector that works on a connection
\* has dialed it, and has installed a node before it asks for the node's state.
Work ==
    /\ stdin_tx = conns /\ client_node <= conns
    /\ \A t \in Connectors :
         /\ connector[t] \in {"install", "node_state"} => dialed[t] \in 1 .. conns
         /\ connector[t] = "node_state" => client_node # 0

\* The tasks of a connection come after the first node.
Served ==
    \A c \in Conns : ping[c] # "unborn" \/ handler[c] = "running" => client_node # 0

\* A connector that has dialed after close() is past its last dial.
Late ==
    \A t \in Connectors :
        opened_late[t] # 0 =>
            closed /\ opened_late[t] = 1 /\ connector[t] \notin {"address", "dial"}

\* handle_reconnect returns only after close(), and nobody panics in a request
\* before it has ended.
Ended ==
    /\ connector["reconnector"] = "returned" => closed
    /\ \A c \in Conns :
         ping[c] = "panicked" \/ challenge[c] = "panicked" => ~ReconnectorUp

\* Unless the connectors overlapped, the one about to install a node is alone
\* and its connection the current one.
Match ==
    ~overlapped =>
        /\ \A t \in Connectors : connector[t] = "install" =>
             /\ dialed[t] = stdin_tx
             /\ \A u \in Connectors : connector[u] = "install" => u = t
        /\ ~poisoned /\ (\A t \in Connectors : connector[t] # "install")
             => client_node = stdin_tx

Types == ConnectorTypes /\ TaskTypes
Links == Work /\ Served /\ Late /\ Ended /\ Match
IInv == Types /\ Flags /\ Links

-----------------------------------------------------------------------------
\* A new client has no connection.
LEMMA InitIInv == Init => IInv
<1> SUFFICES ASSUME Init PROVE IInv
  OBVIOUS
<1> USE ConnsAssumption, IntervalAssumption
<1>1. connector["reconnector"] = "recv" /\ connector["initial"] = "address"
  BY DEF Init, Connectors
<1>2. \A t \in Connectors : connector[t] \in {"recv", "address"}
  BY DEF Init, Connectors
<1>3. ConnectorTypes
  BY <1>2 DEF Init, ConnectorTypes, ConnectorLabels
<1>4. TaskTypes
  BY DEF Init, TaskTypes, HandlerLabels, PingLabels, ChallengeLabels
<1>5. Flags
  BY Zenon DEF Init, Flags
<1>6. Work /\ Served /\ Late /\ Ended /\ Match
  BY <1>1, <1>2 DEF Init, Work, Served, Late, Ended, Match
<1>7. QED
  BY <1>3, <1>4, <1>5, <1>6 DEF IInv, Types, Links

-----------------------------------------------------------------------------
(* Connectors *)

LEMMA ReconnectRecvPreserves == IInv /\ ReconnectRecv => IInv'
<1> SUFFICES ASSUME IInv, ReconnectRecv PROVE IInv'
  OBVIOUS
<1> USE DEF IInv, Types, Links
<1>1. "reconnector" \in Connectors
  BY DEF Connectors
<1>2. /\ UNCHANGED <<closed, app, dialed, retry_interval, sharedVars, taskVars, historyVars>>
      /\ connector["reconnector"] = "recv" /\ reconnect_chan' \in 0 .. 1
  BY DEF ReconnectRecv, TaskTypes
<1>3. Flags'
  BY <1>2, Zenon DEF Flags, sharedVars, historyVars
<1>4. CASE closed
  <2>1. connector' = [connector EXCEPT !["reconnector"] = "returned"]
    BY <1>4 DEF ReconnectRecv
  <2>2. Types'
    BY <1>1, <1>2, <2>1 DEF ConnectorTypes, TaskTypes, ConnectorLabels, sharedVars,
       taskVars, historyVars
  <2>3. Links'
    BY <1>1, <1>2, <1>4, <2>1 DEF ConnectorTypes, Work, Served, Late, Ended, Match,
       ReconnectorUp, sharedVars, taskVars, historyVars
  <2>4. QED
    BY <1>3, <2>2, <2>3
<1>5. CASE ~closed
  <2>1. connector' = [connector EXCEPT !["reconnector"] = "address"]
    BY <1>5 DEF ReconnectRecv
  <2>2. Types'
    BY <1>1, <1>2, <2>1 DEF ConnectorTypes, TaskTypes, ConnectorLabels, sharedVars,
       taskVars, historyVars
  <2>3. Links'
    BY <1>1, <1>2, <1>5, <2>1 DEF ConnectorTypes, Work, Served, Late, Ended, Match,
       ReconnectorUp, sharedVars, taskVars, historyVars
  <2>4. QED
    BY <1>3, <2>2, <2>3
<1>6. QED
  BY <1>4, <1>5

\* Looking for a node, with or without success, and giving up.
LEMMA SearchPreserves ==
    ASSUME IInv, NEW t \in Connectors, GetWsAddress(t) \/ Retry(t) \/ ConnectPanic(t)
    PROVE  IInv'
<1> USE IntervalAssumption DEF IInv, Types, Links
<1>1. /\ UNCHANGED <<closed, app, reconnect_chan, dialed, sharedVars, taskVars, historyVars>>
      /\ connector[t] \in {"address", "dial"}
  BY DEF GetWsAddress, Retry, ConnectPanic
<1>2. \E label \in {"address", "dial", "panicked"} :
         /\ connector' = [connector EXCEPT ![t] = label]
         /\ label \in {"address", "dial"} => connector[t] \in {"address", "dial"}
  BY DEF GetWsAddress, Retry, ConnectPanic, ConnectorTypes
<1>3. retry_interval' \in [Connectors -> MinInterval .. MaxInterval]
  BY DEF GetWsAddress, Retry, ConnectPanic, ConnectorTypes
<1>4. Flags'
  BY <1>1, Zenon DEF Flags, sharedVars, historyVars
<1>5. Types'
  BY <1>1, <1>2, <1>3 DEF ConnectorTypes, TaskTypes, ConnectorLabels, sharedVars,
     taskVars, historyVars
<1>6. Links'
  BY <1>1, <1>2 DEF ConnectorTypes, Work, Served, Late, Ended, Match, ReconnectorUp,
     sharedVars, taskVars, historyVars
<1>7. QED
  BY <1>4, <1>5, <1>6

\* A dial after close() is the connector's last.
LEMMA DialPreserves ==
    ASSUME IInv, NEW t \in Connectors, Dial(t)
    PROVE  IInv'
<1> USE ConnsAssumption DEF IInv, Types, Links
<1> DEFINE c == conns + 1
<1>1. /\ connector[t] = "dial" /\ conns' = c /\ stdin_tx' = c /\ c \in Conns
      /\ c \in 1 .. MaxConns
      /\ ws' = [ws EXCEPT ![c] = "up"]
      /\ dialed' = [dialed EXCEPT ![t] = c]
      /\ connector' = [connector EXCEPT ![t] = "install"]
      /\ UNCHANGED <<closed, app, reconnect_chan, retry_interval, client_node,
                     poisoned, handler, ping, challenge, challenges>>
  BY DEF Dial, ConnectorTypes, Conns
<1>2. overlapped' = (overlapped \/ \E u \in Connectors : connector[u] = "install")
  BY DEF Dial
<1>3. ~overlapped' => ~overlapped /\ \A u \in Connectors : connector[u] # "install"
  BY <1>2, Zenon
<1>4. Flags'
  BY <1>1, <1>2, Zenon DEF Flags
<1>5. opened_late[t] = 0
  BY <1>1 DEF Late
<1>6. /\ opened_late' = [opened_late EXCEPT ![t] = IF closed THEN 1 ELSE 0]
      /\ opened_late' \in [Connectors -> 0 .. MaxConns]
  BY <1>1, <1>5 DEF Dial, ConnectorTypes
<1>7. ConnectorTypes'
  BY <1>1, <1>6 DEF ConnectorTypes, ConnectorLabels
<1>8. TaskTypes'
  BY <1>1 DEF TaskTypes
<1>9. Work' /\ Served'
  BY <1>1 DEF ConnectorTypes, Work, Served
<1>10. Late'
  BY <1>1, <1>6 DEF ConnectorTypes, Late
<1>11. Ended'
  BY <1>1 DEF ConnectorTypes, Ended, ReconnectorUp
<1>12. Match'
  BY <1>1, <1>3 DEF ConnectorTypes, Match
<1>13. QED
  BY <1>4, <1>7, <1>8, <1>9, <1>10, <1>11, <1>12

\* The node is installed, or the connector panics on the poisoned lock.
LEMMA InstallNodePreserves ==
    ASSUME IInv, NEW t \in Connectors, InstallNode(t)
    PROVE  IInv'
<1> USE ConnsAssumption DEF IInv, Types, Links
<1> DEFINE c == dialed[t]
<1>1. /\ connector[t] = "install" /\ c \in Conns /\ c \in 1 .. conns
      /\ UNCHANGED <<closed, app, reconnect_chan, retry_interval,
                     stdin_tx, poisoned, ws, ping, challenge, historyVars>>
  BY DEF InstallNode, Work, ConnectorTypes, Conns
<1>2. Flags'
  BY <1>1, Zenon DEF Flags, historyVars
<1>3. CASE poisoned
  <2>1. /\ connector' = [connector EXCEPT ![t] = "panicked"]
        /\ dialed' = [dialed EXCEPT ![t] = 0]
        /\ handler' = [handler EXCEPT ![c] = "panicked"]
        /\ client_node' = client_node
    BY <1>3 DEF InstallNode
  <2>2. Types'
    BY <1>1, <2>1 DEF ConnectorTypes, TaskTypes, ConnectorLabels, HandlerLabels, historyVars
  <2>3. Work' /\ Served' /\ Late' /\ Ended'
    BY <1>1, <2>1 DEF ConnectorTypes, TaskTypes, Work, Served, Late, Ended,
       ReconnectorUp, historyVars
  <2>4. Match'
    BY <1>1, <1>3, <2>1 DEF ConnectorTypes, Match, historyVars
  <2>5. QED
    BY <1>2, <2>2, <2>3, <2>4
<1>4. CASE ~poisoned
  <2>1. /\ connector' = [connector EXCEPT ![t] = "node_state"]
        /\ client_node' = c
        /\ UNCHANGED <<handler, dialed>>
    BY <1>4 DEF InstallNode
  <2>2. Types'
    BY <1>1, <2>1 DEF ConnectorTypes, TaskTypes, ConnectorLabels, historyVars
  <2>3. Work' /\ Served' /\ Late' /\ Ended'
    BY <1>1, <2>1 DEF ConnectorTypes, Work, Served, Late, Ended, ReconnectorUp, historyVars
  <2>4. Match'
    BY <1>1, <2>1 DEF ConnectorTypes, Match, historyVars
  <2>5. QED
    BY <1>2, <2>2, <2>3, <2>4
<1>5. QED
  BY <1>3, <1>4

\* The connector is done with its connection, for better or worse.
LEMMA FinishPreserves ==
    ASSUME IInv, NEW t \in Connectors, StartTasks(t) \/ NodeStatePanic(t)
    PROVE  IInv'
<1> USE ConnsAssumption DEF IInv, Types, Links
<1> DEFINE c == dialed[t]
<1>1. /\ connector[t] = "node_state" /\ c \in Conns /\ client_node # 0
      /\ dialed' = [dialed EXCEPT ![t] = 0]
      /\ UNCHANGED <<closed, app, reconnect_chan, retry_interval, sharedVars, ws, historyVars>>
  BY DEF StartTasks, NodeStatePanic, Work, ConnectorTypes, Conns, sharedVars
<1>2. Flags'
  BY <1>1, Zenon DEF Flags, sharedVars, historyVars
<1>3. \E label \in {"returned", "recv", "panicked"} :
         /\ connector' = [connector EXCEPT ![t] = label]
         /\ label = "returned" => t # "reconnector"
  BY DEF StartTasks, NodeStatePanic
<1>4. ConnectorTypes'
  BY <1>1, <1>3 DEF ConnectorTypes, ConnectorLabels, sharedVars, historyVars
<1>5. TaskTypes'
  BY <1>1 DEF TaskTypes, StartTasks, NodeStatePanic, HandlerLabels, PingLabels,
     ChallengeLabels, historyVars
<1>6. Work' /\ Served' /\ Late' /\ Match'
  BY <1>1, <1>3 DEF ConnectorTypes, Work, Served, Late, Match, sharedVars, historyVars
<1>7. Ended'
  <2>1. connector'["reconnector"] = "returned" => closed'
    BY <1>1, <1>3 DEF Ended, ConnectorTypes, Connectors
  <2>2. \A d \in Conns :
           ping'[d] = "panicked" \/ challenge'[d] = "panicked" =>
               ping[d] = "panicked" \/ challenge[d] = "panicked"
    BY <1>1 DEF StartTasks, NodeStatePanic, TaskTypes
  <2>3. ~ReconnectorUp => ~ReconnectorUp'
    BY <1>1, <1>3 DEF ReconnectorUp, ConnectorTypes, Connectors
  <2>4. QED
    BY <2>1, <2>2, <2>3 DEF Ended
<1>8. QED
  BY <1>2, <1>4, <1>5, <1>6, <1>7

-----------------------------------------------------------------------------
(* The tasks of a connection *)

\* A websocket task ends, a handler ends or takes a challenge.
LEMMA HandlerPreserves ==
    ASSUME IInv, NEW c \in Conns, WsEnd(c) \/ HandlerStep(c)
    PROVE  IInv'
<1> USE ConnsAssumption DEF IInv, Types, Links
<1>1. /\ UNCHANGED <<closed, app, reconnect_chan, connectorVars, sharedVars, ping>>
      /\ UNCHANGED <<conns, opened_late, overlapped>>
  BY DEF WsEnd, HandlerStep, HandlerEnd, HandlerReturn, HandlerPanic, AuthChallenge, historyVars
<1>2. /\ TaskTypes'
      /\ \A d \in Conns : handler'[d] = "running" => handler[d] = "running"
      /\ \A d \in Conns : challenge'[d] = "panicked" => challenge[d] = "panicked"
  BY <1>1 DEF WsEnd, HandlerStep, HandlerEnd, HandlerReturn, HandlerPanic, AuthChallenge,
     TaskTypes, HandlerLabels, ChallengeLabels, historyVars
<1>3. Flags'
  BY <1>1, Zenon DEF Flags, sharedVars
<1>4. ConnectorTypes' /\ Links'
  BY <1>1, <1>2 DEF ConnectorTypes, Work, Served, Late, Ended, Match, ReconnectorUp,
     connectorVars, sharedVars
<1>5. QED
  BY <1>2, <1>3, <1>4

\* A ping or challenge task moves on, and panics only if handle_reconnect is
\* gone.
LEMMA RequestsPreserve ==
    ASSUME IInv, NEW c \in Conns, PingStep(c) \/ ChallengeStep(c)
    PROVE  IInv'
<1> USE ConnsAssumption DEF IInv, Types, Links
<1>1. UNCHANGED <<closed, app, connectorVars, sharedVars, ws, handler, historyVars>>
  BY DEF PingStep, PingCheck, PingSend, PingRequest, ChallengeStep, ChallengeGiveUp,
     ChallengeAnswer, ChallengeRequest
<1>2. CASE PingStep(c)
  <2>1. /\ ping[c] # "unborn" /\ challenge' = challenge
        /\ \E label \in PingLabels : /\ ping' = [ping EXCEPT ![c] = label]
                                     /\ label = "panicked" => ~ReconnectorUp
        /\ reconnect_chan' \in 0 .. 1
    BY <1>2 DEF PingStep, PingCheck, PingSend, PingRequest, PingLabels, TaskTypes
  <2>2. QED
    BY <1>1, <2>1 DEF ConnectorTypes, TaskTypes, Flags, Work, Served, Late, Ended, Match,
       ReconnectorUp, connectorVars, sharedVars, historyVars
<1>3. CASE ChallengeStep(c)
  <2>1. /\ ping' = ping
        /\ \E label \in ChallengeLabels :
               /\ challenge' = [challenge EXCEPT ![c] = label]
               /\ label = "panicked" => ~ReconnectorUp
        /\ reconnect_chan' \in 0 .. 1
    BY <1>3 DEF ChallengeStep, ChallengeGiveUp, ChallengeAnswer, ChallengeRequest,
       ChallengeLabels, TaskTypes
  <2>2. QED
    BY <1>1, <2>1 DEF ConnectorTypes, TaskTypes, Flags, Work, Served, Late, Ended, Match,
       ReconnectorUp, connectorVars, sharedVars, historyVars
<1>4. QED
  BY <1>2, <1>3

-----------------------------------------------------------------------------
(* The application *)

LEMMA AppPreserves == IInv /\ AppStep => IInv'
<1> SUFFICES ASSUME IInv, AppStep PROVE IInv'
  OBVIOUS
<1> USE DEF IInv, Types, Links
<1>1. /\ UNCHANGED <<connectorVars, stdin_tx, client_node, taskVars, historyVars>>
      /\ reconnect_chan' \in 0 .. 1 /\ app' \in {"running", "reconnecting", "gone"}
  BY DEF AppStep, Reconnect, ReconnectSend, SendPanics, Close, TaskTypes, sharedVars
<1>2. (closed => closed') /\ (poisoned => poisoned')
  <2>1. closed => closed'
    BY DEF AppStep, Reconnect, ReconnectSend, SendPanics, Close
  <2>2. poisoned => poisoned'
    BY DEF AppStep, Reconnect, ReconnectSend, SendPanics, Close, sharedVars
  <2>3. QED
    BY <2>1, <2>2
<1>3. Flags'
  BY <1>1, Zenon DEF Flags, AppStep, Reconnect, ReconnectSend, SendPanics, Close,
     sharedVars, historyVars
<1>4. Types' /\ Links'
  BY <1>1, <1>2 DEF ConnectorTypes, TaskTypes, Work, Served, Late, Ended, Match,
     ReconnectorUp, connectorVars, taskVars, historyVars
<1>5. QED
  BY <1>3, <1>4

-----------------------------------------------------------------------------
\* The invariant holds throughout the life of a client.
LEMMA AlwaysIInv == Spec => []IInv
<1>1. IInv /\ [Next]_vars => IInv'
  <2> SUFFICES ASSUME IInv, [Next]_vars PROVE IInv'
    OBVIOUS
  <2>1. CASE UNCHANGED vars
    BY <2>1 DEF IInv, Types, Links, Flags, ConnectorTypes, TaskTypes, Work, Served, Late,
       Ended, Match, ReconnectorUp, vars, connectorVars, sharedVars, taskVars, historyVars
  <2>2. QED
    BY <2>1, ReconnectRecvPreserves, SearchPreserves, DialPreserves, InstallNodePreserves,
       FinishPreserves, HandlerPreserves, RequestsPreserve, AppPreserves
       DEF Next, ConnectorStep
<1>2. QED
  BY <1>1, InitIInv, PTL DEF Spec

\* For every number of connections and all intervals the state of a client is
\* well-typed; the retry interval stays between its limits.
THEOREM TypesAreCorrect == Spec => []TypeOK
<1>1. IInv => TypeOK
  <2> SUFFICES ASSUME IInv PROVE TypeOK
    OBVIOUS
  <2>1. closed \in BOOLEAN /\ poisoned \in BOOLEAN /\ overlapped \in BOOLEAN
    BY Zenon DEF IInv, Flags
  <2>2. ConnectorTypes /\ TaskTypes
    BY DEF IInv, Types
  <2>3. QED
    BY <2>1, <2>2 DEF ConnectorTypes, TaskTypes, ConnectorLabels, HandlerLabels,
       PingLabels, ChallengeLabels, TypeOK
<1>2. QED
  BY <1>1, AlwaysIInv, PTL

\* However often a client reconnects, its tasks find the socket and the node
\* they unwrap.
THEOREM TasksFindTheirNode == Spec => []UnwrapsFindSome
<1>1. IInv => UnwrapsFindSome
  BY DEF IInv, Types, Links, ConnectorTypes, Work, Served, UnwrapsFindSome
<1>2. QED
  BY <1>1, AlwaysIInv, PTL

\* The installed node is the one of the socket whenever no connector is about
\* to install another, unless the connectors overlapped or the lock is
\* poisoned, for every number of reconnections.
THEOREM NodeIsThatOfTheSocket == Spec => []NodeMatchesSocket
<1>1. IInv => NodeMatchesSocket
  BY DEF IInv, Links, Match, NodeMatchesSocket
<1>2. QED
  BY <1>1, AlwaysIInv, PTL

\* After close() each connector opens at most one more connection, for every
\* number of reconnections and requests.
THEOREM ClosedClientStopsDialing == Spec => []CloseStopsDialing
<1>1. IInv => CloseStopsDialing
  BY ConnsAssumption DEF IInv, Types, Links, ConnectorTypes, Late, CloseStopsDialing
<1>2. QED
  BY <1>1, AlwaysIInv, PTL

\* No task panics in its request for a reconnection before handle_reconnect has
\* panicked or the client is closed, for every number of requests.
THEOREM RequestsAreServed == Spec => []RequestsFailAfterTheEnd
<1>1. IInv => RequestsFailAfterTheEnd
  BY DEF IInv, Links, Ended, ReconnectorUp, RequestsFailAfterTheEnd
<1>2. QED
  BY <1>1, AlwaysIInv, PTL

-----------------------------------------------------------------------------
(* A replacement that is under way *)

\* The tasks of a connection are started once: as long as a connector works on
\* it, and before it is dialed, it has none.
Settling == {"install", "node_state"}
Fresh ==
    /\ \A t \in Connectors : connector[t] \in Settling =>
         /\ ping[dialed[t]] = "unborn" /\ challenge[dialed[t]] = "unborn"
         /\ \A u \in Connectors :
              u # t /\ connector[u] \in Settling => dialed[u] # dialed[t]
    /\ \A c \in Conns : c > conns => ping[c] = "unborn" /\ challenge[c] = "unborn"

\* Somebody is at it: the ping task of c, whose next ping will fail, a request
\* that is being made or is queued, or handle_reconnect.
Repairing(c) ==
    \/ ping[c] = "sleep"
    \/ \E d \in Conns : ping[d] = "request" \/ challenge[d] = "request"
    \/ reconnect_chan = 1
    \/ connector["reconnector"] \in {"address", "dial"}

\* What ends it: another socket, close() or the end of handle_reconnect.
Settled(c) == stdin_tx # c \/ closed \/ ~ReconnectorUp

\* Whoever is at it, no step drops the replacement of a dead socket on the way
\* from one task to the next.
ReplacementGoesOn ==
    \A c \in Conns :
        stdin_tx = c /\ ws[c] = "over" /\ Repairing(c) /\ ~Settled(c) =>
            (ws'[c] = "over" /\ Repairing(c)') \/ Settled(c)'

\* Nobody starts the tasks of a connection twice.
LEMMA AlwaysFresh == Spec => []Fresh
<1>1. Init => Fresh
  BY DEF Init, Fresh, Settling, Connectors
<1>2. IInv /\ Fresh /\ [Next]_vars => Fresh'
  <2> SUFFICES ASSUME IInv, Fresh, [Next]_vars PROVE Fresh'
    OBVIOUS
  <2>0. /\ ConnectorTypes /\ TaskTypes /\ Work
        /\ "reconnector" \in Connectors /\ "initial" \in Connectors
    BY DEF IInv, Types, Links, Connectors
  <2>a. \A u \in Connectors : connector[u] \in Settling => dialed[u] \in Conns
    BY <2>0, ConnsAssumption DEF Work, ConnectorTypes, Conns, Settling
  <2>1. CASE UNCHANGED vars
    BY <2>1 DEF vars, connectorVars, taskVars, historyVars, Fresh
  <2>2. CASE ReconnectRecv
    <3>1. PICK l \in {"returned", "address"} :
             connector' = [connector EXCEPT !["reconnector"] = l]
      BY <2>2 DEF ReconnectRecv
    <3>2. UNCHANGED <<dialed, ping, challenge, conns>>
      BY <2>2 DEF ReconnectRecv, taskVars, historyVars
    <3> QED
      BY <2>0, <3>1, <3>2 DEF Fresh, ConnectorTypes, Settling
  <2>3. ASSUME NEW t \in Connectors, GetWsAddress(t) \/ Retry(t) \/ ConnectPanic(t)
        PROVE  Fresh'
    <3>1. connector' = connector \/ \E l \in {"dial", "panicked"} :
             connector' = [connector EXCEPT ![t] = l]
      BY <2>3 DEF GetWsAddress, Retry, ConnectPanic
    <3>2. UNCHANGED <<dialed, ping, challenge, conns>>
      BY <2>3 DEF GetWsAddress, Retry, ConnectPanic, taskVars, historyVars
    <3> QED
      BY <2>0, <3>1, <3>2 DEF Fresh, ConnectorTypes, Settling
  <2>4. ASSUME NEW t \in Connectors, Dial(t) PROVE Fresh'
    <3>1. /\ connector' = [connector EXCEPT ![t] = "install"]
          /\ dialed' = [dialed EXCEPT ![t] = conns + 1]
          /\ conns' = conns + 1 /\ conns < MaxConns
          /\ UNCHANGED <<ping, challenge>>
      BY <2>4 DEF Dial
    <3>2. /\ conns + 1 \in Conns /\ conns \in Nat
          /\ \A c \in Conns : c > conns + 1 => c > conns
      BY <2>0, <3>1, ConnsAssumption DEF ConnectorTypes, Conns
    <3>3. ping[conns + 1] = "unborn" /\ challenge[conns + 1] = "unborn"
      BY <3>2 DEF Fresh
    <3>4. \A u \in Connectors : u # t =>
             /\ connector'[u] = connector[u] /\ dialed'[u] = dialed[u]
             /\ connector[u] \in Settling => dialed[u] # conns + 1
      BY <2>0, <3>1, <3>2 DEF ConnectorTypes, Work, Settling
    <3>5. connector'[t] = "install" /\ dialed'[t] = conns + 1
      BY <2>0, <3>1 DEF ConnectorTypes
    <3> QED
      BY <3>1, <3>2, <3>3, <3>4, <3>5 DEF Fresh
  <2>5. ASSUME NEW t \in Connectors, InstallNode(t) \/ NodeStatePanic(t) PROVE Fresh'
    <3>1. /\ UNCHANGED <<ping, challenge, conns>>
          /\ connector[t] \in Settling
          /\ \/ connector' = [connector EXCEPT ![t] = "node_state"] /\ UNCHANGED dialed
             \/ /\ connector' = [connector EXCEPT ![t] = "panicked"]
                /\ dialed' = [dialed EXCEPT ![t] = 0]
      BY <2>5 DEF InstallNode, NodeStatePanic, historyVars, Settling
    <3> QED
      BY <2>0, <3>1 DEF Fresh, ConnectorTypes, Settling
  <2>6. ASSUME NEW t \in Connectors, StartTasks(t) PROVE Fresh'
    <3>1. PICK l \in {"returned", "recv"} : connector' = [connector EXCEPT ![t] = l]
      BY <2>6 DEF StartTasks
    <3>2. /\ connector[t] = "node_state" /\ dialed' = [dialed EXCEPT ![t] = 0]
          /\ ping' = [ping EXCEPT ![dialed[t]] = "check"]
          /\ challenge' = [challenge EXCEPT ![dialed[t]] = "recv"]
          /\ UNCHANGED conns
      BY <2>6 DEF StartTasks, historyVars
    <3>3. dialed[t] \in 1 .. conns
      BY <2>0, <3>2 DEF Work
    <3>4. \A u \in Connectors : connector'[u] \in Settling =>
             /\ u # t /\ connector[u] \in Settling /\ dialed'[u] = dialed[u]
             /\ dialed[u] # dialed[t] /\ dialed[u] \in Conns
      <4>1. \A u \in Connectors : connector'[u] \in Settling =>
               u # t /\ connector[u] \in Settling /\ dialed'[u] = dialed[u]
        BY <2>0, <3>1, <3>2 DEF ConnectorTypes, Settling
      <4>2. connector[t] \in Settling
        BY <3>2 DEF Settling
      <4> QED
        BY <2>a, <4>1, <4>2 DEF Fresh
    <3>5. \A c \in Conns : c # dialed[t] => ping'[c] = ping[c] /\ challenge'[c] = challenge[c]
      BY <2>0, <3>2 DEF TaskTypes
    <3>6. \A c \in Conns : c > conns => c # dialed[t]
      BY <2>0, <3>3 DEF ConnectorTypes
    <3> QED
      BY <3>2, <3>4, <3>5, <3>6 DEF Fresh
  <2>7. ASSUME NEW c \in Conns, WsEnd(c) \/ HandlerStep(c) PROVE Fresh'
    <3>1. /\ UNCHANGED <<connector, dialed, ping, conns>>
          /\ \/ UNCHANGED challenge
             \/ challenge[c] # "unborn" /\ challenge' = [challenge EXCEPT ![c] = "answer"]
      BY <2>7 DEF WsEnd, HandlerStep, HandlerEnd, HandlerReturn, HandlerPanic, AuthChallenge,
                  connectorVars, historyVars
    <3>2. \A d \in Conns : challenge[d] = "unborn" => challenge'[d] = "unborn"
      BY <2>0, <3>1 DEF TaskTypes
    <3> QED
      BY <2>a, <3>1, <3>2 DEF Fresh
  <2>8. ASSUME NEW c \in Conns, PingStep(c) PROVE Fresh'
    <3>1. UNCHANGED <<connector, dialed, challenge, conns>>
      BY <2>8 DEF PingStep, PingCheck, PingSend, PingRequest, connectorVars, historyVars
    <3>2. ping[c] # "unborn" /\ \E l \in PingLabels : ping' = [ping EXCEPT ![c] = l]
      BY <2>8 DEF PingStep, PingCheck, PingSend, PingRequest, PingLabels
    <3> QED
      BY <2>0, <3>1, <3>2 DEF Fresh, TaskTypes
  <2>9. ASSUME NEW c \in Conns, ChallengeStep(c) PROVE Fresh'
    <3>1. UNCHANGED <<connector, dialed, ping, conns>>
      BY <2>9 DEF ChallengeStep, ChallengeGiveUp, ChallengeAnswer, ChallengeRequest,
                  connectorVars, historyVars
    <3>2. /\ challenge[c] # "unborn"
          /\ \E l \in ChallengeLabels : challenge' = [challenge EXCEPT ![c] = l]
      BY <2>9 DEF ChallengeStep, ChallengeGiveUp, ChallengeAnswer, ChallengeRequest,
                  ChallengeLabels
    <3> QED
      BY <2>0, <3>1, <3>2 DEF Fresh, TaskTypes
  <2>10. CASE AppStep
    BY <2>10 DEF AppStep, Reconnect, ReconnectSend, SendPanics, Close, connectorVars,
                 taskVars, historyVars, Fresh
  <2> QED
    BY <2>1, <2>2, <2>3, <2>4, <2>5, <2>6, <2>7, <2>8, <2>9, <2>10 DEF Next, ConnectorStep
<1> QED
  BY <1>1, <1>2, AlwaysIInv, PTL DEF Spec

\* A step that leaves the socket dead, and whoever is at its replacement where
\* they are.
LEMMA RepairsStay ==
    ASSUME NEW c \in Conns, Repairing(c), ws[c] = "over", ws'[c] = "over",
           ping[c] = "sleep" => ping'[c] = "sleep",
           \A d \in Conns : ping[d] = "request" => ping'[d] = "request",
           \A d \in Conns : challenge[d] = "request" => challenge'[d] = "request",
           reconnect_chan = 1 => reconnect_chan' = 1,
           connector["reconnector"] \in {"address", "dial"}
             => connector'["reconnector"] \in {"address", "dial"}
    PROVE  ws'[c] = "over" /\ Repairing(c)'
BY DEF Repairing

\* The steps of the two connectors: they dial, which replaces the socket, or
\* are not what the replacement waits for.
LEMMA ConnectorsGoOn ==
    ASSUME IInv, Fresh, NEW c \in Conns, NEW t \in Connectors, ConnectorStep(t),
           stdin_tx = c, ws[c] = "over", Repairing(c), ~Settled(c)
    PROVE  (ws'[c] = "over" /\ Repairing(c)') \/ Settled(c)'
<1>0. /\ ConnectorTypes /\ TaskTypes /\ Work
      /\ "reconnector" \in Connectors /\ "initial" \in Connectors
  BY DEF IInv, Types, Links, Connectors
<1>1. CASE GetWsAddress(t) \/ Retry(t)
  <2>1. UNCHANGED <<ws, ping, challenge, reconnect_chan>>
    BY <1>1 DEF GetWsAddress, Retry, taskVars
  <2>2. connector' = connector \/ connector' = [connector EXCEPT ![t] = "dial"]
    BY <1>1 DEF GetWsAddress, Retry
  <2>3. connector["reconnector"] \in {"address", "dial"}
          => connector'["reconnector"] \in {"address", "dial"}
    BY <1>0, <2>2 DEF ConnectorTypes
  <2> QED
    BY <2>1, <2>3, RepairsStay
<1>2. CASE ConnectPanic(t)
  <2>1. /\ UNCHANGED <<ws, ping, challenge, reconnect_chan>>
        /\ connector' = [connector EXCEPT ![t] = "panicked"]
    BY <1>2 DEF ConnectPanic, taskVars
  <2>2. CASE t = "reconnector"
    <3>1. ~ReconnectorUp'
      BY <1>0, <2>1, <2>2 DEF ConnectorTypes, ReconnectorUp
    <3> QED
      BY <3>1 DEF Settled
  <2>3. CASE t # "reconnector"
    <3>1. connector'["reconnector"] = connector["reconnector"]
      BY <1>0, <2>1, <2>3 DEF ConnectorTypes
    <3> QED
      BY <2>1, <3>1, RepairsStay
  <2> QED
    BY <2>2, <2>3
<1>3. CASE Dial(t)
  <2>1. stdin_tx' = conns + 1 /\ conns = stdin_tx /\ conns \in Nat
    BY <1>0, <1>3, ConnsAssumption DEF Dial, Work, ConnectorTypes
  <2>2. stdin_tx' # c
    BY <2>1
  <2> QED
    BY <2>2 DEF Settled
<1>4. CASE InstallNode(t) \/ NodeStatePanic(t) \/ StartTasks(t)
  <2>1. /\ UNCHANGED <<ws, reconnect_chan>>
        /\ connector[t] \in Settling
        /\ \E l \in ConnectorLabels : connector' = [connector EXCEPT ![t] = l]
    BY <1>4 DEF InstallNode, NodeStatePanic, StartTasks, Settling, ConnectorLabels
  <2>2. connector["reconnector"] \in {"address", "dial"}
          => connector'["reconnector"] = connector["reconnector"]
    BY <1>0, <2>1 DEF ConnectorTypes, Settling
  <2>3. \A d \in Conns : /\ ping[d] # "unborn" => ping'[d] = ping[d]
                         /\ challenge[d] # "unborn" => challenge'[d] = challenge[d]
    <3>1. CASE InstallNode(t) \/ NodeStatePanic(t)
      BY <3>1 DEF InstallNode, NodeStatePanic
    <3>2. CASE StartTasks(t)
      <4>1. /\ ping' = [ping EXCEPT ![dialed[t]] = "check"]
            /\ challenge' = [challenge EXCEPT ![dialed[t]] = "recv"]
        BY <3>2 DEF StartTasks
      <4>2. ping[dialed[t]] = "unborn" /\ challenge[dialed[t]] = "unborn"
        BY <2>1 DEF Fresh
      <4> QED
        BY <1>0, <4>1, <4>2 DEF TaskTypes
    <3> QED
      BY <1>4, <3>1, <3>2
  <2> QED
    BY <2>1, <2>2, <2>3, RepairsStay
<1> QED
  BY <1>1, <1>2, <1>3, <1>4 DEF ConnectorStep

\* The ping and challenge tasks: a ping over the dead socket fails, and a
\* request waits for room in the channel.
LEMMA RequestsGoOn ==
    ASSUME IInv, NEW c \in Conns, NEW d \in Conns, PingStep(d) \/ ChallengeStep(d),
           stdin_tx = c, ws[c] = "over", Repairing(c), ~Settled(c)
    PROVE  (ws'[c] = "over" /\ Repairing(c)') \/ Settled(c)'
<1>0. TaskTypes /\ ReconnectorUp /\ ~SocketUp
  BY DEF IInv, Types, Settled, SocketUp
<1>1. UNCHANGED <<ws, connector>>
  BY DEF PingStep, PingCheck, PingSend, PingRequest, ChallengeStep, ChallengeGiveUp,
         ChallengeAnswer, ChallengeRequest, connectorVars
<1>2. CASE PingCheck(d)
  <2>1. /\ ping[d] = "check" /\ UNCHANGED <<challenge, reconnect_chan>>
        /\ \E l \in {"ended", "sleep"} : ping' = [ping EXCEPT ![d] = l]
    BY <1>2 DEF PingCheck
  <2>2. \A e \in Conns : ping[e] \in {"sleep", "request"} => ping'[e] = ping[e]
    BY <1>0, <2>1 DEF TaskTypes
  <2> QED
    BY <1>1, <2>1, <2>2, RepairsStay
<1>3. CASE PingSend(d)
  <2>1. ping' = [ping EXCEPT ![d] = "request"]
    BY <1>0, <1>3 DEF PingSend
  <2>2. ping'[d] = "request"
    BY <1>0, <2>1 DEF TaskTypes
  <2> QED
    BY <1>1, <2>2 DEF Repairing
<1>4. CASE PingRequest(d) \/ ChallengeRequest(d)
  <2>1. reconnect_chan' = 1
    BY <1>0, <1>4 DEF PingRequest, ChallengeRequest
  <2> QED
    BY <1>1, <2>1 DEF Repairing
<1>5. CASE ChallengeGiveUp(d)
  <2>1. /\ challenge[d] = "recv" /\ challenge' = [challenge EXCEPT ![d] = "ended"]
        /\ UNCHANGED <<ping, reconnect_chan>>
    BY <1>5 DEF ChallengeGiveUp
  <2>2. \A e \in Conns : challenge[e] = "request" => challenge'[e] = "request"
    BY <1>0, <2>1 DEF TaskTypes
  <2> QED
    BY <1>1, <2>1, <2>2, RepairsStay
<1>6. CASE ChallengeAnswer(d)
  <2>1. challenge' = [challenge EXCEPT ![d] = "request"]
    BY <1>0, <1>6 DEF ChallengeAnswer
  <2>2. challenge'[d] = "request"
    BY <1>0, <2>1 DEF TaskTypes
  <2> QED
    BY <1>1, <2>2 DEF Repairing
<1> QED
  BY <1>2, <1>3, <1>4, <1>5, <1>6 DEF PingStep, ChallengeStep

\* However many connections, requests and calls there are: once the ping task
\* of a dead socket sleeps, or anybody has asked for a reconnection, every step
\* passes the matter on until there is a new socket, the client is closed or
\* handle_reconnect has ended.  A request is neither lost in a full channel nor
\* by a task that ends.
THEOREM ReplacementIsNotDropped == Spec => [][ReplacementGoesOn]_vars
<1>1. IInv /\ Fresh /\ [Next]_vars => [ReplacementGoesOn]_vars
  <2> SUFFICES ASSUME IInv, Fresh, Next, NEW c \in Conns,
                      stdin_tx = c, ws[c] = "over", Repairing(c), ~Settled(c)
               PROVE  (ws'[c] = "over" /\ Repairing(c)') \/ Settled(c)'
    BY DEF ReplacementGoesOn
  <2>0. TaskTypes /\ ConnectorTypes /\ "reconnector" \in Connectors
    BY DEF IInv, Types, Connectors
  <2>1. CASE ReconnectRecv
    <3>1. connector' = [connector EXCEPT !["reconnector"] = "address"] /\ UNCHANGED ws
      BY <2>1 DEF ReconnectRecv, Settled, taskVars
    <3>2. connector'["reconnector"] = "address"
      BY <2>0, <3>1 DEF ConnectorTypes
    <3> QED
      BY <3>1, <3>2 DEF Repairing
  <2>2. ASSUME NEW t \in Connectors, ConnectorStep(t)
        PROVE  (ws'[c] = "over" /\ Repairing(c)') \/ Settled(c)'
    BY <2>2, ConnectorsGoOn
  <2>3. ASSUME NEW d \in Conns, WsEnd(d) \/ HandlerStep(d)
        PROVE  (ws'[c] = "over" /\ Repairing(c)') \/ Settled(c)'
    <3>1. /\ UNCHANGED <<connector, ping, reconnect_chan>>
          /\ UNCHANGED challenge
               \/ (challenge[d] = "recv" /\ challenge' = [challenge EXCEPT ![d] = "answer"])
          /\ UNCHANGED ws \/ ws' = [ws EXCEPT ![d] = "over"]
      BY <2>3 DEF WsEnd, HandlerStep, HandlerEnd, HandlerReturn, HandlerPanic, AuthChallenge,
                  connectorVars
    <3>2. ws'[c] = "over" /\ \A e \in Conns : challenge[e] = "request" => challenge'[e] = "request"
      BY <2>0, <3>1 DEF TaskTypes
    <3> QED
      BY <3>1, <3>2, RepairsStay
  <2>4. ASSUME NEW d \in Conns, PingStep(d) \/ ChallengeStep(d)
        PROVE  (ws'[c] = "over" /\ Repairing(c)') \/ Settled(c)'
    BY <2>4, RequestsGoOn
  <2>5. CASE AppStep
    <3>1. /\ UNCHANGED <<connector, ws, ping, challenge>>
          /\ reconnect_chan = 1 => reconnect_chan' = 1
      BY <2>5 DEF AppStep, Reconnect, ReconnectSend, SendPanics, Close, connectorVars, taskVars
    <3> QED
      BY <3>1, RepairsStay
  <2> QED
    BY <2>1, <2>2, <2>3, <2>4, <2>5 DEF Next
<1> QED
  BY <1>1, AlwaysIInv, AlwaysFresh, PTL DEF Spec
=============================================================================
