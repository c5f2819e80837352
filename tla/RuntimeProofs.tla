--------------------------- MODULE RuntimeProofs ---------------------------
(***************************************************************************)
(* Proofs about the tasks that block the threads they run on: those of     *)
(* clients on the workers of the runtime (Workers), for every number of    *)
(* clients, connections and workers, and those of the sub-clients of a     *)
(* MultiClient, for every set of sub-clients and number of calls.          *)
(***************************************************************************)
EXTENDS Workers, MultiClient, TLAPS

Labels == {"off", "ready", "wait", "busy", "recv", "send", "done", "returned", "panicked"}
Conns == 1 .. MaxConns

-----------------------------------------------------------------------------
(* Moving a task *)

\* The tasks of a client and of its connections.
LEMMA TaskNames ==
    /\ \A n \in OwnTasks : <<n, 0>> \in Tasks
    /\ \A n \in ConnTasks, k \in Conns : <<n, k>> \in Tasks
BY DEF Tasks, Conns

\* A step of one task leaves the others where they are.
LEMMA Moves ==
    ASSUME pc \in [Clients -> [Tasks -> Labels]], NEW c \in Clients, NEW t \in Tasks,
           NEW l \in Labels, Goto(c, t, l)
    PROVE  /\ pc' \in [Clients -> [Tasks -> Labels]]
           /\ pc'[c][t] = l
           /\ \A d \in Clients, u \in Tasks : d # c \/ u # t => pc'[d][u] = pc[d][u]
BY DEF Goto

\* connect_to_node starts the tasks of the next connection, besides moving on.
LEMMA Spawns ==
    ASSUME pc \in [Clients -> [Tasks -> Labels]], conns \in [Clients -> 0 .. MaxConns],
           NEW c \in Clients, NEW n \in OwnTasks, NEW l \in Labels, Connect(c, <<n, 0>>, l)
    PROVE  /\ pc' \in [Clients -> [Tasks -> Labels]]
           /\ conns[c] + 1 \in Conns
           /\ pc'[c][<<n, 0>>] = l
           /\ pc'[c][<<"ws", conns[c] + 1>>] = "wait"
           /\ pc'[c][<<"ping", conns[c] + 1>>] = "wait"
           /\ pc'[c][<<"challenge", conns[c] + 1>>] = "ready"
           /\ pc'[c][<<"handler", conns[c] + 1>>] = "ready"
           /\ \A u \in Tasks : u # <<n, 0>> /\ u[2] # conns[c] + 1 => pc'[c][u] = pc[c][u]
           /\ \A d \in Clients : d # c => pc'[d] = pc[d]
<1>1. conns[c] + 1 \in Conns
  BY WorkersAssumption DEF Connect, Conns
<1>2. \A m \in ConnTasks : <<m, conns[c] + 1>> \in Tasks /\ <<m, conns[c] + 1>> # <<n, 0>>
  BY <1>1, TaskNames, WorkersAssumption DEF Conns
<1>3. <<n, 0>> \in Tasks
  BY TaskNames
<1>4. pc' = [pc EXCEPT ![c] = Spawned(c, <<n, 0>>, l)]
  BY DEF Connect
<1>5. pc'[c] = Spawned(c, <<n, 0>>, l)
  BY <1>4
<1>6. Spawned(c, <<n, 0>>, l) \in [Tasks -> Labels]
  <2>1. pc[c] \in [Tasks -> Labels]
    OBVIOUS
  <2> QED
    BY <2>1 DEF Spawned, Labels
<1>7. /\ \A m \in {"ws", "ping"} : pc'[c][<<m, conns[c] + 1>>] = "wait"
      /\ \A m \in {"challenge", "handler"} : pc'[c][<<m, conns[c] + 1>>] = "ready"
      /\ pc'[c][<<n, 0>>] = l
      /\ \A u \in Tasks : u # <<n, 0>> /\ u[2] # conns[c] + 1 => pc'[c][u] = pc[c][u]
  BY <1>2, <1>3, <1>5 DEF Spawned, ConnTasks
<1> QED
  BY <1>1, <1>4, <1>5, <1>6, <1>7

-----------------------------------------------------------------------------
(* Types *)

\* Something of one connection of one client is replaced.
LEMMA PutTypes ==
    ASSUME NEW S, NEW f \in [Clients -> [1 .. MaxConns -> S]], NEW c \in Clients,
           NEW k \in 1 .. MaxConns, NEW x \in S, NEW g,
           g = [f EXCEPT ![c][k] = x] \/ g = f
    PROVE  g \in [Clients -> [1 .. MaxConns -> S]]
<1>1. [f EXCEPT ![c][k] = x] \in [Clients -> [1 .. MaxConns -> S]]
  OBVIOUS
<1> QED
  BY <1>1, Zenon

\* Init makes well-typed clients.
LEMMA InitTypes == Init => TypeOK
<1> SUFFICES ASSUME Init PROVE TypeOK
  OBVIOUS
<1>1. pc \in [Clients -> [Tasks -> Labels]]
  BY DEF Init, Labels
<1>2. /\ conns \in [Clients -> 0 .. MaxConns]
      /\ connect_chan \in [Clients -> 0 .. 1] /\ message_chan \in [Clients -> 0 .. 1]
      /\ reconnect_chan \in [Clients -> 0 .. 1] /\ requests \in [Clients -> 0 .. MaxRequests]
  BY WorkersAssumption DEF Init
<1>3. /\ challenged \in [Clients -> [1 .. MaxConns -> BOOLEAN]]
      /\ closed \in [Clients -> BOOLEAN] /\ user \in [Clients -> {"idle", "reconnect"}]
  BY DEF Init
<1> QED
  BY <1>1, <1>2, <1>3 DEF Init, TypeOK, Labels, Frames

\* A task that only moves.
LEMMA MoveTypes ==
    ASSUME TypeOK, NEW c \in Clients, NEW t \in Tasks, NEW l \in Labels, Goto(c, t, l),
           UNCHANGED <<conns, frameVars, chanVars, userVars>>
    PROVE  TypeOK'
<1>1. pc' \in [Clients -> [Tasks -> Labels]]
  BY Moves DEF TypeOK, Labels
<1> QED
  BY <1>1 DEF TypeOK, Labels, frameVars, chanVars, userVars

\* A request for a reconnection, which leaves at most one in the channel.
LEMMA AskTypes ==
    ASSUME TypeOK, NEW c \in Clients, NEW t \in Tasks, AskForReconnect(c, t)
    PROVE  TypeOK'
<1>1. PICK l \in Labels : Goto(c, t, l)
  BY DEF AskForReconnect, Labels
<1>2. pc' \in [Clients -> [Tasks -> Labels]]
  BY <1>1, Moves DEF TypeOK, Labels
<1>3. reconnect_chan' \in [Clients -> 0 .. 1]
  BY DEF AskForReconnect, TypeOK
<1> QED
  BY <1>2, <1>3 DEF AskForReconnect, TypeOK, Labels, frameVars, userVars

\* The steps of Client::new's own tasks and of the application.
LEMMA OwnStepTypes ==
    ASSUME TypeOK, NEW c \in Clients, OwnStep(c) \/ EnvStep(c) \/ AppStep(c)
    PROVE  TypeOK'
<1> USE TaskNames DEF OwnTasks, Labels
<1>1. CASE FirstConnect(c) \/ Reconnect(c)
  <2>1. PICK n \in OwnTasks, l \in Labels : Connect(c, <<n, 0>>, l)
    BY <1>1 DEF FirstConnect, Reconnect
  <2>2. pc' \in [Clients -> [Tasks -> Labels]] /\ conns[c] + 1 \in Conns
    <3> HIDE DEF OwnTasks
    <3>1. pc \in [Clients -> [Tasks -> Labels]] /\ conns \in [Clients -> 0 .. MaxConns]
      BY DEF TypeOK
    <3> HIDE DEF Labels
    <3> QED
      BY <2>1, <3>1, Spawns
  <2>3. conns' \in [Clients -> 0 .. MaxConns]
    BY <2>1, <2>2, WorkersAssumption DEF Connect, TypeOK, Conns
  <2> QED
    BY <2>1, <2>2, <2>3 DEF Connect, TypeOK, frameVars, chanVars, userVars
<1>2. CASE ReconnectRecv(c)
  BY <1>2, MoveTypes DEF ReconnectRecv
<1>3. CASE ReconnectGo(c)
  <2>1. pc' \in [Clients -> [Tasks -> Labels]]
    BY <1>3, Moves DEF ReconnectGo, TypeOK
  <2>2. reconnect_chan' \in [Clients -> 0 .. 1]
    BY <1>3 DEF ReconnectGo, TypeOK
  <2> QED
    BY <1>3, <2>1, <2>2 DEF ReconnectGo, TypeOK, frameVars, userVars
<1>4. CASE \E k \in Conns : WsEnd(c, k)
  BY <1>4, MoveTypes DEF WsEnd, ConnTasks
<1>5. CASE AppConnect(c)
  BY <1>5 DEF AppConnect, TypeOK, frameVars, userVars
<1>6. CASE AppMessage(c)
  BY <1>6 DEF AppMessage, TypeOK, frameVars, userVars
<1>7. CASE AppReconnect(c)
  <2>1. requests' \in [Clients -> 0 .. MaxRequests]
    BY <1>7, WorkersAssumption DEF AppReconnect, TypeOK
  <2>2. user' \in [Clients -> {"idle", "reconnect"}]
    BY <1>7 DEF AppReconnect, TypeOK
  <2> QED
    BY <1>7, <2>1, <2>2 DEF AppReconnect, TypeOK, frameVars, chanVars
<1>8. CASE AppReconnectSend(c)
  <2>1. reconnect_chan' \in [Clients -> 0 .. 1]
    BY <1>8 DEF AppReconnectSend, TypeOK
  <2>2. user' \in [Clients -> {"idle", "reconnect"}]
    BY <1>8 DEF AppReconnectSend, TypeOK
  <2> QED
    BY <1>8, <2>1, <2>2 DEF AppReconnectSend, TypeOK, frameVars
<1>9. CASE AppClose(c)
  <2>1. closed' \in [Clients -> BOOLEAN]
    BY <1>9 DEF AppClose, TypeOK
  <2> QED
    BY <1>9, <2>1 DEF AppClose, TypeOK, frameVars, chanVars
<1> QED
  BY <1>1, <1>2, <1>3, <1>4, <1>5, <1>6, <1>7, <1>8, <1>9
     DEF OwnStep, ReconnectStep, EnvStep, AppStep, Conns

\* The steps of the tasks of a connection.
LEMMA ConnStepTypes ==
    ASSUME TypeOK, NEW c \in Clients, NEW k \in Conns, ConnStep(c, k)
    PROVE  TypeOK'
<1>0. <<"ws", k>> \in Tasks /\ <<"ping", k>> \in Tasks /\ <<"challenge", k>> \in Tasks
      /\ <<"handler", k>> \in Tasks
  BY TaskNames DEF ConnTasks
<1>1. /\ pc \in [Clients -> [Tasks -> Labels]] /\ k \in 1 .. MaxConns
      /\ {"wait", "busy", "recv", "send", "done", "returned", "panicked"} \subseteq Labels
  BY DEF TypeOK, Labels, Conns
<1>2. CASE WsFrame(c, k)
  <2>1. pc' \in [Clients -> [Tasks -> Labels]]
    BY <1>0, <1>1, <1>2, Moves DEF WsFrame
  <2>2. /\ node[c][k] \in Frames
        /\ AfterFrame(node[c][k]) \in Frames \cup {NoFrame, Quiet}
    <3>1. node[c][k] \in Frames
      BY <1>2 DEF WsFrame
    <3> QED
      BY <3>1 DEF AfterFrame, Frames, NoFrame, Quiet
  <2>3. /\ node' \in [Clients -> [1 .. MaxConns -> Frames \cup {NoFrame, Quiet}]]
        /\ rxx' \in [Clients -> [1 .. MaxConns -> Frames \cup {NoFrame}]]
        /\ held' \in [Clients -> [1 .. MaxConns -> Frames \cup {NoFrame}]]
    <3>1. /\ node' = [node EXCEPT ![c][k] = AfterFrame(node[c][k])]
          /\ rxx' = [rxx EXCEPT ![c][k] = node[c][k]] \/ rxx' = rxx
          /\ held' = [held EXCEPT ![c][k] = node[c][k]] \/ held' = held
      BY <1>2 DEF WsFrame
    <3>2. /\ node \in [Clients -> [1 .. MaxConns -> Frames \cup {NoFrame, Quiet}]]
          /\ rxx \in [Clients -> [1 .. MaxConns -> Frames \cup {NoFrame}]]
          /\ held \in [Clients -> [1 .. MaxConns -> Frames \cup {NoFrame}]]
          /\ node[c][k] \in Frames \cup {NoFrame}
      BY <2>2 DEF TypeOK
    <3> QED
      BY <1>1, <2>2, <3>1, <3>2, PutTypes, Zenon
  <2> QED
    BY <1>2, <2>1, <2>3 DEF WsFrame, TypeOK, Labels, chanVars, userVars
<1>3. CASE WsSend(c, k)
  <2>1. pc' \in [Clients -> [Tasks -> Labels]]
    BY <1>0, <1>1, <1>3, Moves DEF WsSend
  <2>2. /\ rxx' \in [Clients -> [1 .. MaxConns -> Frames \cup {NoFrame}]]
        /\ held' \in [Clients -> [1 .. MaxConns -> Frames \cup {NoFrame}]]
    <3>1. /\ rxx' = [rxx EXCEPT ![c][k] = held[c][k]] \/ rxx' = rxx
          /\ held' = [held EXCEPT ![c][k] = NoFrame]
      BY <1>3 DEF WsSend
    <3>2. /\ rxx \in [Clients -> [1 .. MaxConns -> Frames \cup {NoFrame}]]
          /\ held \in [Clients -> [1 .. MaxConns -> Frames \cup {NoFrame}]]
      BY DEF TypeOK
    <3>3. held[c][k] \in Frames \cup {NoFrame} /\ NoFrame \in Frames \cup {NoFrame}
      BY <1>1, <3>2
    <3> QED
      BY <1>1, <3>1, <3>2, <3>3, PutTypes, Zenon
  <2> QED
    BY <1>3, <2>1, <2>2 DEF WsSend, TypeOK, Labels, chanVars, userVars
<1>4. CASE PingFails(c, k) \/ ChallengeFails(c, k)
           \/ \E t \in {"ping", "challenge"} : RequestSend(c, <<t, k>>)
  BY <1>0, <1>4, AskTypes DEF PingFails, ChallengeFails, RequestSend
<1>5. CASE PingEnd(c, k) \/ ChallengeRecv(c, k) \/ ChallengeEnd(c, k)
           \/ HandlerLoop(c, k) \/ HandlerEnd(c, k)
  BY <1>0, <1>1, <1>5, MoveTypes
     DEF PingEnd, ChallengeRecv, ChallengeEnd, HandlerLoop, HandlerEnd
<1>6. CASE ChallengeGo(c, k)
  <2>1. pc' \in [Clients -> [Tasks -> Labels]]
    BY <1>0, <1>1, <1>6, Moves DEF ChallengeGo
  <2>2. node' \in [Clients -> [1 .. MaxConns -> Frames \cup {NoFrame, Quiet}]]
    <3>1. /\ node \in [Clients -> [1 .. MaxConns -> Frames \cup {NoFrame, Quiet}]]
          /\ node' = [node EXCEPT ![c][k] = "accept"] \/ node' = [node EXCEPT ![c][k] = node[c][k]]
      BY <1>6 DEF ChallengeGo, TypeOK
    <3>2. node[c][k] \in Frames \cup {NoFrame, Quiet} /\ "accept" \in Frames \cup {NoFrame, Quiet}
      BY <1>1, <3>1 DEF Frames
    <3> QED
      BY <1>1, <3>1, <3>2, PutTypes, Zenon
  <2> QED
    BY <1>6, <2>1, <2>2 DEF ChallengeGo, TypeOK, Labels, chanVars, userVars
<1>7. CASE HandlerTake(c, k)
  <2>1. pc' \in [Clients -> [Tasks -> Labels]]
    BY <1>0, <1>1, <1>7, Moves DEF HandlerTake
  <2>2. /\ handling' \in [Clients -> [1 .. MaxConns -> Frames \cup {NoFrame}]]
        /\ rxx' \in [Clients -> [1 .. MaxConns -> Frames \cup {NoFrame}]]
    <3>1. /\ rxx' = [rxx EXCEPT ![c][k] = NoFrame]
          /\ handling' = [handling EXCEPT ![c][k] = rxx[c][k]] \/ handling' = handling
      BY <1>7 DEF HandlerTake
    <3>2. /\ handling \in [Clients -> [1 .. MaxConns -> Frames \cup {NoFrame}]]
          /\ rxx \in [Clients -> [1 .. MaxConns -> Frames \cup {NoFrame}]]
      BY DEF TypeOK
    <3>3. rxx[c][k] \in Frames \cup {NoFrame} /\ NoFrame \in Frames \cup {NoFrame}
      BY <1>1, <3>2
    <3> QED
      BY <1>1, <3>1, <3>2, <3>3, PutTypes, Zenon
  <2>3. challenged' \in [Clients -> [1 .. MaxConns -> BOOLEAN]]
    <3>1. /\ challenged \in [Clients -> [1 .. MaxConns -> BOOLEAN]]
          /\ challenged' = [challenged EXCEPT ![c][k] = TRUE] \/ challenged' = challenged
      BY <1>7 DEF HandlerTake, TypeOK
    <3> QED
      BY <1>1, <3>1, PutTypes, Zenon
  <2> QED
    BY <1>7, <2>1, <2>2, <2>3 DEF HandlerTake, TypeOK, Labels, chanVars, userVars
<1>8. CASE HandlerSend(c, k)
  <2>1. pc' \in [Clients -> [Tasks -> Labels]]
    BY <1>0, <1>1, <1>8, Moves DEF HandlerSend
  <2>2. handling' \in [Clients -> [1 .. MaxConns -> Frames \cup {NoFrame}]]
    BY <1>1, <1>8 DEF HandlerSend, TypeOK
  <2>3. connect_chan' \in [Clients -> 0 .. 1] /\ message_chan' \in [Clients -> 0 .. 1]
    <3>1. /\ connect_chan \in [Clients -> 0 .. 1] /\ message_chan \in [Clients -> 0 .. 1]
          /\ connect_chan' = [connect_chan EXCEPT ![c] = 1] \/ connect_chan' = connect_chan
          /\ message_chan' = [message_chan EXCEPT ![c] = 1] \/ message_chan' = message_chan
      BY <1>8 DEF HandlerSend, TypeOK
    <3> QED
      BY <3>1
  <2> QED
    BY <1>8, <2>1, <2>2, <2>3 DEF HandlerSend, TypeOK, Labels, userVars
<1> QED
  BY <1>2, <1>3, <1>4, <1>5, <1>6, <1>7, <1>8
     DEF ConnStep, WsStep, PingStep, ChallengeStep, HandlerStep

\* However many clients, connections and workers there are: channels hold at
\* most one item, no client counts more connections than it may have, and every
\* task is at one of its labels.
THEOREM WorkersTypesAreCorrect == Spec => []TypeOK
<1>1. TypeOK /\ [Next]_vars => TypeOK'
  <2> SUFFICES ASSUME TypeOK, [Next]_vars PROVE TypeOK'
    OBVIOUS
  <2>1. CASE UNCHANGED vars
    BY <2>1 DEF vars, frameVars, chanVars, userVars, TypeOK
  <2> QED
    BY <2>1, OwnStepTypes, ConnStepTypes DEF Next, Conns
<1> QED
  BY <1>1, InitTypes, PTL DEF Spec

-----------------------------------------------------------------------------
(* What the websocket task hands over has a handler *)

\* The websocket task and the handler of one connection.  Besides what
\* FramesHaveAHandler says of them: they exist from the same dial on, a frame in
\* hand means that the task is blocked with it, and the handler never gives its
\* worker back before it ends.
PartnersAt(c, k) ==
    /\ pc[c][<<"ws", k>>] = "send" <=> held[c][k] # NoFrame
    /\ pc[c][<<"handler", k>>] = "done" => pc[c][<<"ws", k>>] = "done" /\ rxx[c][k] = NoFrame
    /\ pc[c][<<"handler", k>>] = "returned" => closed[c]
    /\ pc[c][<<"handler", k>>] # "wait"
    /\ pc[c][<<"handler", k>>] = "off" <=> conns[c] < k
    /\ pc[c][<<"ws", k>>] = "off" <=> conns[c] < k
    /\ conns[c] < k => rxx[c][k] = NoFrame

Partners == \A c \in Clients, k \in Conns : PartnersAt(c, k)

\* A connection that a step does not touch.
SameAt(c, k) ==
    /\ pc'[c][<<"ws", k>>] = pc[c][<<"ws", k>>]
    /\ pc'[c][<<"handler", k>>] = pc[c][<<"handler", k>>]
    /\ held'[c][k] = held[c][k] /\ rxx'[c][k] = rxx[c][k]
    /\ conns'[c] < k <=> conns[c] < k
    /\ closed[c] => closed'[c]

LEMMA SameStayPartners ==
    ASSUME NEW c \in Clients, NEW k \in Conns, PartnersAt(c, k), SameAt(c, k)
    PROVE  PartnersAt(c, k)'
BY DEF PartnersAt, SameAt

\* A step of a task other than these two that keeps to its own business.
LEMMA OthersKeepPartners ==
    ASSUME TypeOK, Partners, NEW c \in Clients, NEW t \in Tasks, NEW l \in Labels,
           Goto(c, t, l), t[1] \notin {"ws", "handler"},
           UNCHANGED <<conns, held, rxx, closed>>
    PROVE  Partners'
<1> SUFFICES ASSUME NEW d \in Clients, NEW j \in Conns PROVE PartnersAt(d, j)'
  BY DEF Partners
<1>1. <<"ws", j>> \in Tasks /\ <<"handler", j>> \in Tasks
  BY TaskNames DEF ConnTasks
<1>2. <<"ws", j>> # t /\ <<"handler", j>> # t
  OBVIOUS
<1>3. \A u \in Tasks : u # t => pc'[d][u] = pc[d][u]
  BY Moves DEF TypeOK, Labels
<1>4. SameAt(d, j)
  BY <1>1, <1>2, <1>3 DEF SameAt
<1> QED
  BY <1>4, SameStayPartners DEF Partners

\* A step that stays within one connection.
LEMMA LocalStepKeepsPartners ==
    ASSUME TypeOK, Partners, NEW c \in Clients, NEW k \in Conns, PartnersAt(c, k)',
           NEW n \in {"ws", "handler"}, NEW l \in Labels,
           Goto(c, <<n, k>>, l) \/ UNCHANGED pc, UNCHANGED <<conns, closed>>,
           NEW x, NEW y,
           held' = [held EXCEPT ![c][k] = x] \/ held' = held,
           rxx' = [rxx EXCEPT ![c][k] = y] \/ rxx' = rxx
    PROVE  Partners'
<1> SUFFICES ASSUME NEW d \in Clients, NEW j \in Conns, d # c \/ j # k
             PROVE  PartnersAt(d, j)'
  BY DEF Partners
<1>1. <<"ws", j>> \in Tasks /\ <<"handler", j>> \in Tasks /\ <<n, k>> \in Tasks
  BY TaskNames DEF ConnTasks
<1>2. pc'[d][<<"ws", j>>] = pc[d][<<"ws", j>>] /\ pc'[d][<<"handler", j>>] = pc[d][<<"handler", j>>]
  <2>1. CASE UNCHANGED pc
    BY <2>1
  <2>2. CASE Goto(c, <<n, k>>, l)
    <3>1. \A e \in Clients, u \in Tasks : e # c \/ u # <<n, k>> => pc'[e][u] = pc[e][u]
      BY <1>1, <2>2, Moves DEF TypeOK, Labels
    <3> QED
      BY <1>1, <3>1
  <2> QED
    BY <2>1, <2>2
<1>3. held'[d][j] = held[d][j] /\ rxx'[d][j] = rxx[d][j]
  <2>1. /\ held \in [Clients -> [1 .. MaxConns -> Frames \cup {NoFrame}]]
        /\ rxx \in [Clients -> [1 .. MaxConns -> Frames \cup {NoFrame}]]
    BY DEF TypeOK
  <2>2. held'[d][j] = held[d][j]
    BY <2>1 DEF Conns
  <2>3. rxx'[d][j] = rxx[d][j]
    BY <2>1 DEF Conns
  <2> QED
    BY <2>2, <2>3
<1>4. SameAt(d, j)
  BY <1>2, <1>3 DEF SameAt
<1> QED
  BY <1>4, SameStayPartners DEF Partners

\* What the tasks of a client that serve all its connections do, a dial first
\* of all, and what the application does.
LEMMA OwnStepKeepsPartners ==
    ASSUME TypeOK, Partners, NEW c \in Clients, OwnStep(c) \/ AppStep(c)
    PROVE  Partners'
<1>0. /\ <<"connect", 0>> \in Tasks /\ <<"reconnect", 0>> \in Tasks
      /\ {"ready", "wait", "recv", "send", "done"} \subseteq Labels
  BY TaskNames DEF OwnTasks, Labels
<1>1. CASE FirstConnect(c) \/ Reconnect(c)
  <2>1. PICK n \in OwnTasks, l \in Labels : Connect(c, <<n, 0>>, l)
    BY <1>1 DEF FirstConnect, Reconnect, OwnTasks, Labels
  <2>2. pc \in [Clients -> [Tasks -> Labels]] /\ conns \in [Clients -> 0 .. MaxConns]
    BY DEF TypeOK, Labels
  <2> SUFFICES ASSUME NEW d \in Clients, NEW j \in Conns PROVE PartnersAt(d, j)'
    BY DEF Partners
  <2>3. PartnersAt(d, j)
    BY DEF Partners
  <2>4. UNCHANGED <<held, rxx, closed>> /\ conns' = [conns EXCEPT ![c] = @ + 1]
    BY <2>1 DEF Connect, frameVars, userVars
  <2>5. CASE d = c /\ j = conns[c] + 1
    <3>1. pc[d][<<"ws", j>>] = "off" /\ pc[d][<<"handler", j>>] = "off"
      BY <2>2, <2>3, <2>5 DEF PartnersAt
    <3>2. pc'[d][<<"ws", j>>] = "wait" /\ pc'[d][<<"handler", j>>] = "ready"
      BY <2>1, <2>2, <2>5, Spawns
    <3>3. ~(conns'[d] < j)
      BY <2>2, <2>4, <2>5
    <3>4. held'[d][j] = NoFrame
      BY <2>3, <2>4, <3>1 DEF PartnersAt
    <3> QED
      BY <3>2, <3>3, <3>4 DEF PartnersAt
  <2>6. CASE ~(d = c /\ j = conns[c] + 1)
    <3>1. /\ <<"ws", j>> \in Tasks /\ <<"handler", j>> \in Tasks
          /\ <<"ws", j>> # <<n, 0>> /\ <<"handler", j>> # <<n, 0>>
      BY TaskNames DEF ConnTasks, OwnTasks
    <3>2. pc'[d][<<"ws", j>>] = pc[d][<<"ws", j>>]
          /\ pc'[d][<<"handler", j>>] = pc[d][<<"handler", j>>]
      <4>1. CASE d # c
        BY <2>1, <2>2, <4>1, Spawns
      <4>2. CASE d = c
        <5>1. \A u \in Tasks : u # <<n, 0>> /\ u[2] # conns[c] + 1 => pc'[c][u] = pc[c][u]
          BY <2>1, <2>2, Spawns
        <5> QED
          BY <2>6, <3>1, <4>2, <5>1
      <4> QED
        BY <4>1, <4>2
    <3>3. conns'[d] < j <=> conns[d] < j
      <4>1. conns[c] \in Nat /\ conns'[c] = conns[c] + 1 /\ j \in Nat
        BY <2>2, <2>4, WorkersAssumption DEF Conns
      <4>2. d # c => conns'[d] = conns[d]
        BY <2>2, <2>4
      <4> QED
        BY <2>6, <4>1, <4>2
    <3> QED
      BY <2>3, <2>4, <3>2, <3>3, SameStayPartners DEF SameAt
  <2> QED
    BY <2>5, <2>6
<1>2. CASE ReconnectRecv(c) \/ ReconnectGo(c)
  <2>1. PICK l \in Labels : Goto(c, <<"reconnect", 0>>, l)
    BY <1>0, <1>2 DEF ReconnectRecv, ReconnectGo
  <2>2. UNCHANGED <<conns, held, rxx, closed>>
    BY <1>2 DEF ReconnectRecv, ReconnectGo, frameVars, userVars
  <2> QED
    BY <1>0, <2>1, <2>2, OthersKeepPartners
<1>3. CASE AppStep(c)
  <2>1. UNCHANGED <<pc, conns, held, rxx>>
    BY <1>3 DEF AppStep, AppConnect, AppMessage, AppReconnect, AppReconnectSend, AppClose, frameVars
  <2>2. \A d \in Clients : closed[d] => closed'[d]
    <3>1. UNCHANGED closed \/ closed' = [closed EXCEPT ![c] = TRUE]
      BY <1>3 DEF AppStep, AppConnect, AppMessage, AppReconnect, AppReconnectSend, AppClose, userVars
    <3> QED
      BY <3>1 DEF TypeOK
  <2>3. \A d \in Clients, j \in Conns : SameAt(d, j)
    BY <2>1, <2>2 DEF SameAt
  <2> QED
    BY <2>3, SameStayPartners DEF Partners
<1> QED
  BY <1>1, <1>2, <1>3 DEF OwnStep, ReconnectStep

\* The ping and challenge tasks, which share no channel with these two but the
\* challenge's own.
LEMMA SideTasksKeepPartners ==
    ASSUME TypeOK, Partners, NEW c \in Clients, NEW k \in Conns,
           \/ PingFails(c, k) \/ PingEnd(c, k) \/ ChallengeRecv(c, k) \/ ChallengeGo(c, k)
           \/ ChallengeFails(c, k) \/ ChallengeEnd(c, k)
           \/ \E t \in {"ping", "challenge"} : RequestSend(c, <<t, k>>)
    PROVE  Partners'
<1>1. /\ <<"ping", k>> \in Tasks /\ <<"challenge", k>> \in Tasks
      /\ {"ready", "wait", "recv", "send", "done"} \subseteq Labels
  BY TaskNames DEF ConnTasks, Labels
<1>2. PICK n \in {"ping", "challenge"}, l \in Labels : Goto(c, <<n, k>>, l)
  BY <1>1 DEF PingFails, PingEnd, ChallengeRecv, ChallengeGo, ChallengeFails, ChallengeEnd,
              RequestSend, AskForReconnect
<1>3. UNCHANGED <<conns, held, rxx, closed>>
  BY DEF PingFails, PingEnd, ChallengeRecv, ChallengeGo, ChallengeFails, ChallengeEnd,
         RequestSend, AskForReconnect, frameVars, userVars
<1> QED
  BY <1>1, <1>2, <1>3, OthersKeepPartners

\* The websocket task: it puts a frame into rxx or blocks with it in hand, and
\* ends with none, of itself or in a panic because the handler is gone.
LEMMA WsKeepsPartners ==
    ASSUME TypeOK, Partners, NEW c \in Clients, NEW k \in Conns,
           WsFrame(c, k) \/ WsSend(c, k) \/ WsEnd(c, k)
    PROVE  Partners'
<1>1. /\ <<"ws", k>> \in Tasks /\ <<"handler", k>> \in Tasks /\ k \in 1 .. MaxConns
      /\ {"ready", "wait", "recv", "send", "done"} \subseteq Labels
      /\ pc \in [Clients -> [Tasks -> Labels]]
      /\ held \in [Clients -> [1 .. MaxConns -> Frames \cup {NoFrame}]]
      /\ rxx \in [Clients -> [1 .. MaxConns -> Frames \cup {NoFrame}]]
  BY TaskNames DEF ConnTasks, Labels, TypeOK, Conns
<1>2. PartnersAt(c, k)
  BY DEF Partners
<1>3. UNCHANGED <<conns, closed>>
  BY DEF WsFrame, WsSend, WsEnd, userVars
<1>4. CASE WsFrame(c, k) /\ UNCHANGED pc
  <2>1. /\ UNCHANGED held /\ rxx' = [rxx EXCEPT ![c][k] = node[c][k]]
        /\ pc[c][<<"ws", k>>] = "wait" /\ RxxUp(c, k)
    <3>1. pc[c][<<"ws", k>>] = "wait" /\ pc'[c][<<"ws", k>>] = "wait"
      BY <1>4 DEF WsFrame
    <3>2. ~Goto(c, <<"ws", k>>, "done") /\ ~Goto(c, <<"ws", k>>, "send")
      BY <1>1, <3>1, Moves
    <3> QED
      BY <1>4, <3>1, <3>2 DEF WsFrame
  <2>2. pc[c][<<"handler", k>>] # "done" /\ ~(conns[c] < k)
    BY <1>2, <2>1 DEF RxxUp, PartnersAt
  <2>3. PartnersAt(c, k)'
    BY <1>2, <1>3, <1>4, <2>1, <2>2 DEF PartnersAt
  <2> QED
    BY <1>1, <1>3, <1>4, <2>1, <2>3, LocalStepKeepsPartners
<1>5. CASE WsFrame(c, k) /\ Goto(c, <<"ws", k>>, "send")
  <2>1. /\ UNCHANGED rxx /\ held' = [held EXCEPT ![c][k] = node[c][k]]
        /\ node[c][k] # NoFrame
        /\ pc[c][<<"ws", k>>] = "wait" /\ RxxUp(c, k)
    <3>1. pc[c][<<"ws", k>>] = "wait" /\ pc'[c][<<"ws", k>>] = "send"
      BY <1>1, <1>5, Moves DEF WsFrame
    <3>2. ~Goto(c, <<"ws", k>>, "done") /\ pc' # pc
      BY <1>1, <3>1, Moves
    <3> QED
      BY <1>5, <3>1, <3>2 DEF WsFrame, Frames, NoFrame
  <2>2. pc'[c][<<"ws", k>>] = "send" /\ pc'[c][<<"handler", k>>] = pc[c][<<"handler", k>>]
    BY <1>1, <1>5, Moves
  <2>3. held'[c][k] # NoFrame
    BY <1>1, <2>1
  <2>4. pc[c][<<"handler", k>>] # "done"
    BY <2>1 DEF RxxUp
  <2>5. PartnersAt(c, k)'
    BY <1>2, <1>3, <2>1, <2>2, <2>3, <2>4 DEF PartnersAt
  <2> QED
    BY <1>1, <1>3, <1>5, <2>1, <2>5, LocalStepKeepsPartners
<1>6. CASE WsSend(c, k) /\ Goto(c, <<"ws", k>>, "wait")
  <2>1. /\ rxx' = [rxx EXCEPT ![c][k] = held[c][k]] /\ held' = [held EXCEPT ![c][k] = NoFrame]
        /\ pc[c][<<"ws", k>>] = "send" /\ RxxUp(c, k)
    <3>1. ~Goto(c, <<"ws", k>>, "done")
      BY <1>1, <1>6, Moves
    <3> QED
      BY <1>6, <3>1 DEF WsSend
  <2>2. pc'[c][<<"ws", k>>] = "wait" /\ pc'[c][<<"handler", k>>] = pc[c][<<"handler", k>>]
    BY <1>1, <1>6, Moves
  <2>3. held'[c][k] = NoFrame
    BY <1>1, <2>1
  <2>4. pc[c][<<"handler", k>>] # "done" /\ ~(conns[c] < k)
    BY <1>2, <2>1 DEF RxxUp, PartnersAt
  <2>5. PartnersAt(c, k)'
    BY <1>2, <1>3, <2>2, <2>3, <2>4 DEF PartnersAt
  <2> QED
    BY <1>1, <1>3, <1>6, <2>1, <2>5, LocalStepKeepsPartners
<1>7. CASE /\ WsFrame(c, k) \/ WsSend(c, k) \/ WsEnd(c, k)
           /\ Goto(c, <<"ws", k>>, "done")
  <2>1. pc'[c][<<"ws", k>>] = "done" /\ pc'[c][<<"handler", k>>] = pc[c][<<"handler", k>>]
    BY <1>1, <1>7, Moves
  <2>2. /\ UNCHANGED rxx
        /\ held' = [held EXCEPT ![c][k] = NoFrame] \/ UNCHANGED held
        /\ pc[c][<<"ws", k>>] = "send" => held' = [held EXCEPT ![c][k] = NoFrame]
        /\ pc[c][<<"ws", k>>] \in {"send", "wait"}
    <3>1. ~Goto(c, <<"ws", k>>, "send") /\ ~Goto(c, <<"ws", k>>, "wait")
      BY <1>1, <2>1, Moves
    <3>2. CASE WsSend(c, k)
      BY <3>1, <3>2 DEF WsSend
    <3>3. CASE WsEnd(c, k)
      BY <3>3 DEF WsEnd, frameVars
    <3>4. CASE WsFrame(c, k)
      <4>1. pc[c][<<"ws", k>>] = "wait" /\ pc' # pc
        BY <2>1, <3>4 DEF WsFrame
      <4> QED
        BY <3>1, <3>4, <4>1 DEF WsFrame
    <3> QED
      BY <1>7, <3>2, <3>3, <3>4
  <2>3. held'[c][k] = NoFrame
    BY <1>1, <1>2, <2>2 DEF PartnersAt
  <2>4. PartnersAt(c, k)'
    BY <1>2, <1>3, <2>1, <2>2, <2>3 DEF PartnersAt
  <2> QED
    BY <1>1, <1>3, <1>7, <2>2, <2>4, LocalStepKeepsPartners
<1> QED
  BY <1>4, <1>5, <1>6, <1>7 DEF WsFrame, WsSend, WsEnd

\* The handler: it returns when the client is closed or panics, or else ends
\* only when rxx is empty and the websocket task cannot fill it again.
LEMMA HandlerKeepsPartners ==
    ASSUME TypeOK, Partners, NEW c \in Clients, NEW k \in Conns,
           HandlerStep(c, k) \/ HandlerSend(c, k)
    PROVE  Partners'
<1>1. /\ <<"ws", k>> \in Tasks /\ <<"handler", k>> \in Tasks /\ k \in 1 .. MaxConns
      /\ {"busy", "recv", "send", "done", "returned", "panicked"} \subseteq Labels
      /\ pc \in [Clients -> [Tasks -> Labels]]
      /\ rxx \in [Clients -> [1 .. MaxConns -> Frames \cup {NoFrame}]]
  BY TaskNames DEF ConnTasks, Labels, TypeOK, Conns
<1>2. PartnersAt(c, k)
  BY DEF Partners
<1>3. UNCHANGED <<conns, held, closed>>
  BY DEF HandlerStep, HandlerLoop, HandlerTake, HandlerSend, HandlerEnd, frameVars, userVars
<1>4. PICK l \in {"busy", "recv", "send", "done", "returned", "panicked"} :
         /\ Goto(c, <<"handler", k>>, l)
         /\ l = "done" => pc[c][<<"ws", k>>] = "done" /\ rxx[c][k] = NoFrame /\ UNCHANGED rxx
         /\ l = "returned" => closed[c]
         /\ UNCHANGED rxx \/ rxx' = [rxx EXCEPT ![c][k] = NoFrame]
         /\ pc[c][<<"handler", k>>] \in {"ready", "busy", "recv", "send"}
  <2>1. CASE HandlerLoop(c, k)
    BY <2>1 DEF HandlerLoop, frameVars
  <2>2. CASE HandlerTake(c, k)
    BY <2>2 DEF HandlerTake
  <2>3. CASE HandlerSend(c, k)
    BY <2>3 DEF HandlerSend
  <2>4. CASE HandlerEnd(c, k)
    BY <2>4 DEF HandlerEnd, frameVars
  <2> QED
    BY <2>1, <2>2, <2>3, <2>4 DEF HandlerStep
<1>5. pc'[c][<<"handler", k>>] = l /\ pc'[c][<<"ws", k>>] = pc[c][<<"ws", k>>]
  BY <1>1, <1>4, Moves
<1>6. rxx'[c][k] \in {rxx[c][k], NoFrame}
  BY <1>1, <1>4
<1>7. PartnersAt(c, k)'
  BY <1>2, <1>3, <1>4, <1>5, <1>6 DEF PartnersAt
<1> QED
  BY <1>1, <1>3, <1>4, <1>7, LocalStepKeepsPartners

\* The partners invariant, from Init on.
LEMMA AlwaysPartners == Spec => []Partners
<1>1. Init => Partners
  <2> SUFFICES ASSUME Init, NEW c \in Clients, NEW k \in Conns PROVE PartnersAt(c, k)
    BY DEF Partners
  <2>1. <<"ws", k>> \in Tasks /\ <<"handler", k>> \in Tasks /\ k # 0 /\ 0 < k
    BY TaskNames, WorkersAssumption DEF ConnTasks, Conns
  <2>2. pc[c][<<"ws", k>>] = "off" /\ pc[c][<<"handler", k>>] = "off"
    BY <2>1 DEF Init
  <2>3. held[c][k] = NoFrame /\ rxx[c][k] = NoFrame /\ conns[c] = 0
    BY DEF Init, Conns
  <2> QED
    BY <2>1, <2>2, <2>3 DEF PartnersAt
<1>2. TypeOK /\ Partners /\ [Next]_vars => Partners'
  <2> SUFFICES ASSUME TypeOK, Partners, [Next]_vars PROVE Partners'
    OBVIOUS
  <2>1. CASE UNCHANGED vars
    BY <2>1 DEF vars, frameVars, userVars, Partners, PartnersAt
  <2>2. ASSUME NEW c \in Clients, OwnStep(c) \/ EnvStep(c) \/ AppStep(c) PROVE Partners'
    BY <2>2, OwnStepKeepsPartners, WsKeepsPartners DEF EnvStep, Conns
  <2>3. ASSUME NEW c \in Clients, NEW k \in Conns, ConnStep(c, k) PROVE Partners'
    <3>1. CASE WsStep(c, k)
      BY <3>1, WsKeepsPartners DEF WsStep
    <3>2. CASE HandlerStep(c, k) \/ HandlerSend(c, k)
      BY <3>2, HandlerKeepsPartners
    <3>3. CASE PingStep(c, k) \/ ChallengeStep(c, k)
      BY <3>3, SideTasksKeepPartners DEF PingStep, ChallengeStep
    <3> QED
      BY <2>3, <3>1, <3>2, <3>3 DEF ConnStep
  <2> QED
    BY <2>1, <2>2, <2>3 DEF Next, Conns
<1> QED
  BY <1>1, <1>2, WorkersTypesAreCorrect, PTL DEF Spec

\* However many clients share the runtime, and whenever they reconnect or are
\* closed: no frame is without a handler but by close() or a panic, and a
\* handler that ends by itself ends after its websocket task.
THEOREM FramesAreTaken == Spec => []FramesHaveAHandler
<1>1. TypeOK /\ Partners => FramesHaveAHandler
  <2> SUFFICES ASSUME TypeOK, Partners, NEW c \in Clients, NEW k \in Conns
               PROVE  /\ rxx[c][k] # NoFrame \/ held[c][k] # NoFrame =>
                            \/ pc[c][<<"handler", k>>] \in {"ready", "busy", "recv", "send"}
                            \/ pc[c][<<"handler", k>>] = "returned" /\ closed[c]
                            \/ pc[c][<<"handler", k>>] = "panicked"
                      /\ pc[c][<<"handler", k>>] = "done" => pc[c][<<"ws", k>>] = "done"
    BY DEF FramesHaveAHandler, Conns
  <2>1. PartnersAt(c, k)
    BY DEF Partners
  <2>2. pc[c][<<"handler", k>>] \in Labels
    BY TaskNames DEF TypeOK, Labels, ConnTasks
  <2> QED
    BY <2>1, <2>2 DEF PartnersAt, Labels
<1> QED
  BY <1>1, AlwaysPartners, WorkersTypesAreCorrect, PTL

-----------------------------------------------------------------------------
(***************************************************************************)
(* The tasks of sub-clients, which block threads on the lock of clients    *)
(* and on the connect channel.                                             *)
(***************************************************************************)

\* The inductive invariant: whoever is registered has the lock, hence while
\* the lock is free nobody is registered.
Registered == SubTypeOK /\ OneSubClientHasTheLock /\ SendDataFindsNobody

\* It holds when new() returns.
LEMMA InitRegistered ==
    ASSUME SubInit
    PROVE  Registered
<1>1. OneSubClientHasTheLock /\ SendDataFindsNobody
  BY DEF SubInit, OneSubClientHasTheLock, SendDataFindsNobody
<1>2. sub_pc \in [Subs -> {"new", "connecting", "lock", "send", "recv", "failed"}]
  BY DEF SubInit
<1>3. reported \in BOOLEAN
  BY Zenon DEF SubInit
<1>4. calls \in 0 .. MaxCalls /\ node_chan \in 0 .. 1
  BY MultiClientAssumption DEF SubInit
<1>5. SubTypeOK
  BY <1>2, <1>3, <1>4 DEF SubInit, SubTypeOK
<1>6. QED
  BY <1>1, <1>5 DEF Registered

\* A lock that is free says that clients is empty.
LEMMA FreeMeansEmpty ==
    ASSUME Registered, lock = NoSub
    PROVE  clients = {}
BY MultiClientAssumption DEF Registered, SubTypeOK, OneSubClientHasTheLock

\* Every step of a task and of the application preserves it.
LEMMA NextRegistered ==
    ASSUME Registered, [SubNext]_subVars
    PROVE  Registered'
<1> USE MultiClientAssumption DEF Registered
<1>1. ASSUME NEW i \in Subs, Create(i) PROVE Registered'
  BY <1>1 DEF Create, SubTypeOK, OneSubClientHasTheLock, SendDataFindsNobody, appVars
<1>2. ASSUME NEW i \in Subs, Connected(i) PROVE Registered'
  BY <1>2 DEF Connected, SubTypeOK, OneSubClientHasTheLock, SendDataFindsNobody, appVars
<1>3. ASSUME NEW i \in Subs, Register(i) PROVE Registered'
  <2>1. clients' = {i} /\ lock' = i
    BY <1>3, FreeMeansEmpty DEF Register
  <2>2. QED
    BY <1>3, <2>1 DEF Register, SubTypeOK, OneSubClientHasTheLock, SendDataFindsNobody, appVars
<1>4. ASSUME NEW i \in Subs, Report(i) PROVE Registered'
  BY <1>4 DEF Report, SubTypeOK, OneSubClientHasTheLock, SendDataFindsNobody, appVars
<1>5. CASE Call
  BY <1>5 DEF Call, SubTypeOK, OneSubClientHasTheLock, SendDataFindsNobody
<1>6. CASE WaitForConnect
  BY <1>6 DEF WaitForConnect, SubTypeOK, OneSubClientHasTheLock, SendDataFindsNobody
<1>7. CASE SendLen
  BY <1>7 DEF SendLen, SubTypeOK, OneSubClientHasTheLock, SendDataFindsNobody
<1>8. CASE SendIterate
  <2>1. sent' = {}
    BY <1>8, FreeMeansEmpty DEF SendIterate, SendDataFindsNobody
  <2>2. QED
    BY <1>8, <2>1 DEF SendIterate, SubTypeOK, OneSubClientHasTheLock, SendDataFindsNobody
<1>9. CASE UNCHANGED subVars
  BY <1>9 DEF subVars, SubTypeOK, OneSubClientHasTheLock, SendDataFindsNobody
<1>10. QED
  BY <1>1, <1>2, <1>3, <1>4, <1>5, <1>6, <1>7, <1>8, <1>9 DEF SubNext, SubStep

\* It holds in every reachable state.
LEMMA AlwaysRegistered == SubSpec => []Registered
<1>1. SubInit => Registered
  BY InitRegistered
<1>2. Registered /\ [SubNext]_subVars => Registered'
  BY NextRegistered
<1> QED
  BY <1>1, <1>2, PTL DEF SubSpec

\* The variables of the tasks, the lock and the application keep their types.
THEOREM SubClientTypesAreCorrect == SubSpec => []SubTypeOK
BY AlwaysRegistered, PTL DEF Registered

\* However many sub-clients there are and connect, at most one is ever
\* registered in clients: the task of the first keeps the lock.
THEOREM OneIsRegistered == SubSpec => []OneSubClientHasTheLock
BY AlwaysRegistered, PTL DEF Registered

\* For every number of sub-clients and every sequence of calls, send_data
\* never sends anything.
THEOREM NothingIsSent == SubSpec => []SendDataFindsNobody
BY AlwaysRegistered, PTL DEF Registered

\* Where a report stands: nobody has the lock and none was made, or its owner
\* is about to make one, has made it, or wait_for_connect has returned it.
ReportIsUnderWay ==
    /\ \A i \in Subs : sub_pc[i] \in {"send", "recv"} => lock = i
    /\ lock = NoSub => node_chan = 0 /\ ~reported
    /\ lock \in Subs => sub_pc[lock] \in {"send", "recv"}
    /\ lock \in Subs /\ sub_pc[lock] = "send" => node_chan = 0 /\ ~reported
    /\ lock \in Subs /\ sub_pc[lock] = "recv" => (node_chan = 1 <=> ~reported)

\* The task that reports a sub-client never finds the connect channel full: it
\* has the lock, and nobody has reported before it.
ReportNeverBlocks ==
    \A i \in Subs : sub_pc[i] = "send" => lock = i /\ node_chan = 0 /\ ~reported

\* Whoever has reported is in the channel or was returned, and once
\* wait_for_connect has returned, nothing is in the channel for another call.
OneReportForAll ==
    /\ \A i \in Subs : sub_pc[i] = "recv" => node_chan = 1 \/ reported
    /\ reported => node_chan = 0

\* The steps of the task of sub-client i.
LEMMA SubStepsKeepReport ==
    ASSUME Registered, ReportIsUnderWay, NEW i \in Subs, SubStep(i)
    PROVE  ReportIsUnderWay'
<1>1. /\ sub_pc \in [Subs -> {"new", "connecting", "lock", "send", "recv", "failed"}]
      /\ lock \in Subs \cup {NoSub}
  BY DEF Registered, SubTypeOK
<1> USE MultiClientAssumption
<1>2. CASE Create(i) \/ Connected(i)
  <2>1. PICK l \in {"connecting", "failed", "lock"} :
           sub_pc' = [sub_pc EXCEPT ![i] = l] /\ sub_pc[i] \in {"new", "connecting"}
    BY <1>2 DEF Create, Connected
  <2>2. UNCHANGED <<lock, node_chan, reported>>
    BY <1>2 DEF Create, Connected, appVars
  <2>3. lock # i
    BY <2>1 DEF ReportIsUnderWay
  <2>4. \A j \in Subs : j # i => sub_pc'[j] = sub_pc[j]
    BY <1>1, <2>1
  <2>5. sub_pc'[i] \notin {"send", "recv"}
    BY <1>1, <2>1
  <2> QED
    BY <1>1, <2>2, <2>3, <2>4, <2>5 DEF ReportIsUnderWay
<1>3. CASE Register(i)
  <2>1. /\ lock = NoSub /\ lock' = i /\ sub_pc' = [sub_pc EXCEPT ![i] = "send"]
        /\ UNCHANGED <<node_chan, reported>>
    BY <1>3 DEF Register, appVars
  <2>2. \A j \in Subs : sub_pc[j] \notin {"send", "recv"}
    BY <2>1 DEF ReportIsUnderWay
  <2>3. sub_pc'[i] = "send" /\ \A j \in Subs : j # i => sub_pc'[j] \notin {"send", "recv"}
    BY <1>1, <2>1, <2>2
  <2> QED
    BY <2>1, <2>3 DEF ReportIsUnderWay
<1>4. CASE Report(i)
  <2>1. /\ sub_pc[i] = "send" /\ sub_pc' = [sub_pc EXCEPT ![i] = "recv"]
        /\ node_chan' = 1 /\ UNCHANGED <<lock, reported>>
    BY <1>4 DEF Report, appVars
  <2>2. lock = i /\ ~reported
    BY <2>1 DEF ReportIsUnderWay
  <2>3. sub_pc'[i] = "recv" /\ \A j \in Subs : j # i => sub_pc'[j] = sub_pc[j]
    BY <1>1, <2>1
  <2> QED
    BY <2>1, <2>2, <2>3 DEF ReportIsUnderWay
<1> QED
  BY <1>2, <1>3, <1>4 DEF SubStep

\* However many sub-clients and calls there are: reporting a sub-client never
\* blocks its task, so that the first to connect is reported whoever else
\* waits for the lock; and only one is: a second wait_for_connect finds the
\* channel empty for ever.
THEOREM OnlyTheFirstIsReported == SubSpec => [](ReportNeverBlocks /\ OneReportForAll)
<1>1. SubInit => ReportIsUnderWay
  BY MultiClientAssumption DEF SubInit, ReportIsUnderWay
<1>2. Registered /\ ReportIsUnderWay /\ [SubNext]_subVars => ReportIsUnderWay'
  <2> SUFFICES ASSUME Registered, ReportIsUnderWay, [SubNext]_subVars PROVE ReportIsUnderWay'
    OBVIOUS
  <2>1. CASE Call \/ SendLen \/ SendIterate \/ UNCHANGED subVars
    <3>1. UNCHANGED <<sub_pc, lock, node_chan, reported>>
      BY <2>1 DEF Call, SendLen, SendIterate, subVars
    <3> QED
      BY <3>1 DEF ReportIsUnderWay
  <2>2. CASE WaitForConnect
    <3>1. /\ node_chan = 1 /\ node_chan' = 0 /\ reported' = TRUE
          /\ UNCHANGED <<sub_pc, lock>>
      BY <2>2 DEF WaitForConnect
    <3>2. lock \in Subs /\ sub_pc[lock] = "recv"
      BY <3>1 DEF ReportIsUnderWay, Registered, SubTypeOK
    <3> QED
      BY <3>1, <3>2 DEF ReportIsUnderWay
  <2> QED
    BY <2>1, <2>2, SubStepsKeepReport DEF SubNext
<1>3. Registered /\ ReportIsUnderWay => ReportNeverBlocks /\ OneReportForAll
  <2> SUFFICES ASSUME Registered, ReportIsUnderWay PROVE ReportNeverBlocks /\ OneReportForAll
    OBVIOUS
  <2>1. lock \in Subs \cup {NoSub} /\ node_chan \in 0 .. 1
    BY DEF Registered, SubTypeOK
  <2> QED
    BY <2>1 DEF ReportIsUnderWay, ReportNeverBlocks, OneReportForAll
<1> QED
  BY <1>1, <1>2, <1>3, AlwaysRegistered, PTL DEF SubSpec
=============================================================================
