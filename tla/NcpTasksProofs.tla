--------------------------- MODULE NcpTasksProofs ---------------------------
(***************************************************************************)
(* Proofs about start_session, for every number of connections, window     *)
(* and sequence of calls: who gets the session's mutex, that tx finds the  *)
(* data of the ids it takes, and what send_ack collects.                   *)
(***************************************************************************)
EXTENDS NcpTasks, SequenceTheorems, WellFoundedInduction, TLAPS

Privileged == {App, Start, Flush}

\* Flush waits for the session or has it.
Queued == \E j \in DOMAIN session : session[j] = Flush

\* Every other future waits behind flush.
Behind ==
    \A i \in DOMAIN session :
        session[i] \in Privileged \/ \E j \in 1 .. i - 1 : session[j] = Flush

\* A call of the application in the middle of flush_send_buffer has the
\* session.
InCall == pc[App] \in {"data", "send"} => session # <<>> /\ Head(session) = App

\* Flush is in the queue once it was polled, and until a panic drops it,
\* along with the future that polls the others.
Started ==
    /\ pc[Flush] \notin {"new", "dropped"} => Queued
    /\ pc[Flush] = "dropped" => pc[Start] = "dropped"

Types == session \in Seq(Tasks) /\ DOMAIN pc = Tasks /\ pc = [t \in Tasks |-> pc[t]]

IInv == Types /\ Behind /\ InCall /\ Started

-----------------------------------------------------------------------------
(* The names of the futures *)

\* The names are those of tasks, and different.
LEMMA Names ==
    /\ App \in Tasks /\ Start \in Tasks /\ Flush \in Tasks /\ Check \in Tasks
    /\ App # Start /\ App # Flush /\ App # Check /\ Start # Flush
    /\ Check # Start /\ Check # Flush
BY DEF App, Start, Flush, Check, Tasks

\* So are the names of the futures of a connection.
LEMMA ConnNames ==
    ASSUME NEW c \in Conns
    PROVE  /\ Tx(c) \in Tasks /\ Ack(c) \in Tasks /\ Timeout(c) \in Tasks
           /\ Tx(c) \notin Privileged /\ Ack(c) \notin Privileged
           /\ Timeout(c) \notin Privileged
BY DEF Tx, Ack, Timeout, App, Start, Flush, Tasks, Privileged

-----------------------------------------------------------------------------
(* The queue of the session *)

\* Joining the queue: a future other than flush needs flush before it.
LEMMA Join ==
    ASSUME Types, Behind, NEW t \in Tasks, t \in Privileged \/ Queued,
           session' = Append(session, t)
    PROVE  /\ session' \in Seq(Tasks) /\ Behind'
           /\ Queued \/ t = Flush => Queued'
           /\ session # <<>> => session' # <<>> /\ Head(session') = Head(session)
<1>1. /\ session' \in Seq(Tasks) /\ Len(session') = Len(session) + 1
      /\ \A i \in 1 .. Len(session) : session'[i] = session[i]
      /\ session'[Len(session) + 1] = t
      /\ Len(session) \in Nat
  BY DEF Types
<1>2. Behind'
  <2> SUFFICES ASSUME NEW i \in 1 .. Len(session) + 1
               PROVE  session'[i] \in Privileged
                      \/ \E j \in 1 .. i - 1 : session'[j] = Flush
    BY <1>1 DEF Behind, Privileged
  <2>1. CASE i \in 1 .. Len(session)
    BY <1>1, <2>1 DEF Behind, Types
  <2>2. CASE i = Len(session) + 1
    BY <1>1, <2>2 DEF Queued, Types
  <2>3. QED
    BY <1>1, <2>1, <2>2
<1>3. Queued \/ t = Flush => Queued'
  BY <1>1 DEF Queued, Types
<1>4. session # <<>> => session' # <<>> /\ Head(session') = Head(session)
  BY <1>1 DEF Types
<1>5. QED
  BY <1>1, <1>2, <1>3, <1>4

\* Leaving the queue, which is not for flush.
LEMMA Leave ==
    ASSUME Types, Behind, session # <<>>, Head(session) # Flush, session' = Tail(session)
    PROVE  session' \in Seq(Tasks) /\ Behind' /\ (Queued => Queued')
<1>1. /\ session' \in Seq(Tasks) /\ Len(session') = Len(session) - 1
      /\ \A i \in 1 .. Len(session) - 1 : session'[i] = session[i + 1]
      /\ session[1] # Flush /\ Len(session) \in Nat /\ Len(session) > 0
  BY DEF Types
<1> DOMAIN session' = 1 .. Len(session) - 1
  BY <1>1
<1>2. Behind'
  <2> SUFFICES ASSUME NEW i \in 1 .. Len(session) - 1
               PROVE  session'[i] \in Privileged
                      \/ \E j \in 1 .. i - 1 : session'[j] = Flush
    BY <1>1 DEF Behind, Privileged
  <2>1. i + 1 \in DOMAIN session /\ session'[i] = session[i + 1]
    BY <1>1 DEF Types
  <2>2. CASE session[i + 1] \in Privileged
    BY <2>1, <2>2
  <2>3. CASE \E j \in 1 .. (i + 1) - 1 : session[j] = Flush
    <3>1. PICK j \in 1 .. (i + 1) - 1 : session[j] = Flush
      BY <2>3
    <3>2. j # 1 /\ j - 1 \in 1 .. i - 1 /\ session'[j - 1] = session[j]
      BY <1>1, <3>1
    <3>3. QED
      BY <3>1, <3>2
  <2>4. QED
    BY <2>1, <2>2, <2>3 DEF Behind
<1>3. ASSUME Queued PROVE Queued'
  <2>1. PICK j \in 1 .. Len(session) : session[j] = Flush
    BY <1>3 DEF Queued, Types
  <2>2. j # 1 /\ j - 1 \in 1 .. Len(session) - 1 /\ session'[j - 1] = session[j]
    BY <1>1, <2>1
  <2>3. QED
    BY <1>1, <2>1, <2>2 DEF Queued
<1>4. QED
  BY <1>1, <1>2, <1>3

-----------------------------------------------------------------------------
(* Steps *)

\* What a step of one future does to the labels.
LEMMA Moves ==
    ASSUME Types, NEW t \in Tasks, NEW label, Goto(t, label)
    PROVE  /\ DOMAIN pc' = Tasks /\ pc' = [u \in Tasks |-> pc'[u]]
           /\ \A u \in Tasks : pc'[u] = IF u = t THEN label ELSE pc[u]
BY DEF Types, Goto

\* A step that leaves the queue alone.
LEMMA StepStays ==
    ASSUME IInv, NEW t \in Tasks, NEW label, Goto(t, label), session' = session,
           label \notin {"new", "dropped"}, t # Start,
           t = App => HasSession(App),
           t = Flush => pc[Flush] \notin {"new", "dropped"}
    PROVE  IInv'
<1>1. Types' /\ \A u \in Tasks : pc'[u] = IF u = t THEN label ELSE pc[u]
  BY Moves DEF IInv, Types
<1>2. Behind' /\ (Queued => Queued')
  BY DEF IInv, Behind, Queued
<1>3. InCall'
  BY <1>1, Names DEF IInv, InCall, HasSession
<1>4. Started'
  BY <1>1, <1>2, Names DEF IInv, Started
<1>5. QED
  BY <1>1, <1>2, <1>3, <1>4 DEF IInv

\* A step that joins the queue.
LEMMA StepJoins ==
    ASSUME IInv, NEW t \in Tasks, NEW label, Goto(t, label),
           session' = Append(session, t), t \in Privileged \/ Queued,
           label \in {"lock", "send"}, t = App => label = "lock",
           t = Start => pc[Start] = "new"
    PROVE  IInv'
<1>1. /\ session' \in Seq(Tasks) /\ Behind' /\ (Queued \/ t = Flush => Queued')
      /\ session # <<>> => session' # <<>> /\ Head(session') = Head(session)
  BY Join DEF IInv
<1>2. Types' /\ \A u \in Tasks : pc'[u] = IF u = t THEN label ELSE pc[u]
  BY <1>1, Moves DEF IInv, Types
<1>3. InCall'
  BY <1>1, <1>2, Names DEF IInv, InCall
<1>4. Started'
  BY <1>1, <1>2, Names DEF IInv, Started
<1>5. QED
  BY <1>1, <1>2, <1>3, <1>4 DEF IInv

\* A step of the application or of start_session that leaves the queue.
LEMMA StepLeaves ==
    ASSUME IInv, NEW t \in {App, Start}, NEW label, Goto(t, label), HasSession(t),
           session' = Tail(session), label \in {"new", "returned"},
           t = Start => pc[Start] # "dropped"
    PROVE  IInv'
<1>1. t \in Tasks /\ session # <<>> /\ Head(session) = t /\ Head(session) # Flush
  BY Names DEF HasSession
<1>2. session' \in Seq(Tasks) /\ Behind' /\ (Queued => Queued')
  BY <1>1, Leave DEF IInv
<1>3. Types' /\ \A u \in Tasks : pc'[u] = IF u = t THEN label ELSE pc[u]
  BY <1>1, <1>2, Moves DEF IInv, Types
<1>4. InCall'
  BY <1>1, <1>3, Names DEF IInv, InCall
<1>5. Started'
  BY <1>1, <1>2, <1>3, Names DEF IInv, Started
<1>6. QED
  BY <1>2, <1>3, <1>4, <1>5 DEF IInv

\* A future that is polled after flush finds flush in the queue.
LEMMA PolledBehind ==
    ASSUME IInv, NEW t, Polled(t), t # Flush
    PROVE  Queued
BY DEF IInv, Started, Polled

\* The panic of send_ack leaves at most the application in the queue.
LEMMA PanicPreserves ==
    ASSUME IInv, NEW c \in Conns, AckPanic(c)
    PROVE  IInv'
<1>1. /\ session' = OnlyApp(session)
      /\ pc' = [t \in Tasks |-> IF t = App THEN pc[App] ELSE "dropped"]
  BY DEF AckPanic
<1>2. DOMAIN pc' = Tasks /\ pc' = [t \in Tasks |-> pc'[t]]
      /\ pc'[App] = pc[App] /\ pc'[Flush] = "dropped" /\ pc'[Start] = "dropped"
  BY <1>1, Names
<1>3. CASE \E i \in DOMAIN session : session[i] = App
  <2>1. session' = <<App>>
    BY <1>1, <1>3 DEF OnlyApp
  <2>2. session' \in Seq(Tasks) /\ Behind' /\ InCall'
    BY <2>1, Names DEF Behind, InCall, Privileged
  <2>3. QED
    BY <1>2, <2>2 DEF IInv, Types, Started
<1>4. CASE ~ \E i \in DOMAIN session : session[i] = App
  <2>1. session' = <<>>
    BY <1>1, <1>4 DEF OnlyApp
  <2>2. session' \in Seq(Tasks) /\ Behind'
    BY <2>1 DEF Behind
  <2>3. pc[App] \notin {"data", "send"}
    <3>1. session # <<>> => 1 \in DOMAIN session /\ Head(session) = session[1]
      BY DEF IInv, Types
    <3>2. QED
      BY <1>4, <3>1 DEF IInv, InCall
  <2>4. QED
    BY <1>2, <2>2, <2>3 DEF IInv, Types, Started, InCall
<1>5. QED
  BY <1>3, <1>4

\* Every step preserves the invariant.
LEMMA NextIInv ==
    ASSUME IInv, [Next]_vars
    PROVE  IInv'
<1> USE Names
<1>1. CASE AppLock
  BY <1>1, StepJoins DEF AppLock, Privileged
<1>2. CASE AppWrite
  <2>1. HasSession(App) /\ session' = session
    BY <1>2 DEF AppWrite
  <2>2. Goto(App, "data") \/ Goto(App, "stuck")
    BY <1>2 DEF AppWrite
  <2>3. QED
    BY <2>1, <2>2, StepStays
<1>3. CASE AppReceiveAck
  BY <1>3, StepLeaves DEF AppReceiveAck
<1>4. CASE AppInsert
  <2>1. HasSession(App)
    BY <1>4 DEF AppInsert, IInv, InCall, HasSession
  <2>2. CASE send_chan = <<>>
    BY <1>4, <2>1, <2>2, StepLeaves DEF AppInsert
  <2>3. CASE send_chan # <<>>
    BY <1>4, <2>1, <2>3, StepStays DEF AppInsert
  <2>4. QED
    BY <2>2, <2>3
<1>5. CASE AppSend
  <2>1. HasSession(App)
    BY <1>5 DEF AppSend, IInv, InCall, HasSession
  <2>2. QED
    BY <1>5, <2>1, StepLeaves DEF AppSend
<1>6. ASSUME NEW c \in Conns, NEW seq \in DataIds, AppReceiveData(c, seq) PROVE IInv'
  BY <1>6, StepLeaves DEF AppReceiveData
<1>7. CASE StartLock
  BY <1>7, StepJoins DEF StartLock, Privileged
<1>8. CASE StartClone
  BY <1>8, StepLeaves DEF StartClone
<1>9. CASE FlushStart
  BY <1>9, StepJoins DEF FlushStart, Privileged
<1>10. CASE FlushLocked
  BY <1>10, StepStays DEF FlushLocked, lockVars
<1>11. CASE FlushWake
  BY <1>11, StepStays DEF FlushWake
<1>12. CASE FlushInsert
  <2>1. pc[Flush] = "data" /\ session' = session
    BY <1>12 DEF FlushInsert
  <2>2. Goto(Flush, "sleep") \/ Goto(Flush, "send")
    BY <1>12 DEF FlushInsert
  <2>3. QED
    BY <2>1, <2>2, StepStays
<1>13. CASE CheckWake
  <2>1. Queued
    BY <1>13, PolledBehind DEF CheckWake
  <2>2. QED
    BY <1>13, <2>1, StepJoins DEF CheckWake
<1>14. ASSUME NEW c \in Conns,
              TxStart(c) \/ TxTimeout(c) \/ TxTake(c) \/ AckWake(c) \/ AckLocked(c)
       PROVE  IInv'
  <2> DEFINE calm == {"window", "select", "returned", "data", "lock", "sleep", "collect"}
  <2>1. PICK t \in {Tx(c), Ack(c)}, l \in calm : Goto(t, l)
    BY <1>14 DEF TxStart, TxTimeout, TxTake, AckWake, AckLocked
  <2>2. session' = session
    BY <1>14 DEF TxStart, TxTimeout, TxTake, AckWake, AckLocked
  <2>3. t \in Tasks /\ t \notin Privileged /\ l \notin {"new", "dropped"}
    BY ConnNames
  <2>4. QED
    BY <2>1, <2>2, <2>3, StepStays DEF Privileged
<1>15. ASSUME NEW c \in Conns, TxData(c) PROVE IInv'
  <2>1. Tx(c) \in Tasks /\ Tx(c) \notin Privileged
    BY ConnNames
  <2>2. Queued
    BY <1>15, <2>1, PolledBehind DEF TxData, Privileged
  <2>3. QED
    BY <1>15, <2>1, <2>2, StepJoins DEF TxData, Privileged
<1>16. ASSUME NEW c \in Conns, AckCollect(c) PROVE IInv'
  BY <1>16 DEF AckCollect, lockVars, IInv, Types, Behind, InCall, Started, Queued
<1>17. ASSUME NEW c \in Conns, AckDone(c) PROVE IInv'
  <2>1. Ack(c) \in Tasks /\ Ack(c) \notin Privileged
    BY ConnNames
  <2>2. Queued
    BY <1>17, <2>1, PolledBehind DEF AckDone, Privileged
  <2>3. QED
    BY <1>17, <2>1, <2>2, StepJoins DEF AckDone, Privileged
<1>18. ASSUME NEW c \in Conns, TimeoutStart(c) PROVE IInv'
  <2>1. Timeout(c) \in Tasks /\ Timeout(c) \notin Privileged
    BY ConnNames
  <2>2. Queued
    BY <1>18, <2>1, PolledBehind DEF TimeoutStart, Privileged
  <2>3. QED
    BY <1>18, <2>1, <2>2, StepJoins DEF TimeoutStart, Privileged
<1>19. CASE UNCHANGED vars
  BY <1>19 DEF vars, lockVars, IInv, Types, Behind, InCall, Started, Queued
<1>20. QED
  BY <1>1, <1>2, <1>3, <1>4, <1>5, <1>6, <1>7, <1>8, <1>9, <1>10, <1>11, <1>12, <1>13,
     <1>14, <1>15, <1>16, <1>17, <1>18, <1>19, PanicPreserves DEF Next

\* The invariant holds when start_session begins.
LEMMA InitIInv == Init => IInv
<1> SUFFICES ASSUME Init PROVE IInv
  OBVIOUS
<1>1. pc = [t \in Tasks |-> "new"] /\ session = <<>>
  BY DEF Init
<1>2. pc[App] = "new" /\ pc[Flush] = "new"
  BY <1>1, Names
<1>3. QED
  BY <1>1, <1>2 DEF IInv, Types, Behind, InCall, Started

\* For every number of connections, windows and calls of the application, the
\* session's mutex goes to the application, to start_session and to flush,
\* and to no other future: each of them waits behind flush, who keeps it.
THEOREM SessionIsForFlush == Spec => []OnlyFlushGetsTheSession
<1>1. IInv => OnlyFlushGetsTheSession
  <2> SUFFICES ASSUME IInv, session # <<>> PROVE Head(session) \in Privileged
    BY DEF OnlyFlushGetsTheSession, Privileged
  <2>1. 1 \in DOMAIN session /\ Head(session) = session[1]
    BY DEF IInv, Types
  <2>2. QED
    BY <2>1 DEF IInv, Behind
<1>2. QED
  BY <1>1, InitIInv, NextIInv, PTL DEF Spec

-----------------------------------------------------------------------------
(* The data of the ids tx takes *)

\* next_seq returns an id, and goes back from where it went: the id a blocked
\* write sends is the one it has inserted.
LEMMA BackAndForth ==
    ASSUME NEW s \in SeqIds
    PROVE  NextSeq(s, 1) \in SeqIds /\ NextSeq(NextSeq(s, 1), -1) = s
<1> USE MaxSeqAssumption DEF MinSeq, SeqIds
<1>1. CASE s = MaxSeq
  <2>1. (s - MinSeq + 1) % MaxSeq = 0
    BY <1>1
  <2>2. NextSeq(s, 1) = MinSeq
    BY <2>1 DEF NextSeq
  <2>3. (MinSeq - MinSeq + (-1)) % MaxSeq = MaxSeq - 1
    BY <1>1
  <2>4. NextSeq(MinSeq, -1) = MaxSeq
    BY <2>3 DEF NextSeq
  <2>5. QED
    BY <1>1, <2>2, <2>4
<1>2. CASE s < MaxSeq
  <2>1. (s - MinSeq + 1) % MaxSeq = s
    BY <1>2
  <2>2. NextSeq(s, 1) = s + 1
    BY <2>1 DEF NextSeq
  <2>3. ((s + 1) - MinSeq + (-1)) % MaxSeq = s - 1
    BY <1>2
  <2>4. NextSeq(s + 1, -1) = s
    BY <2>3 DEF NextSeq
  <2>5. QED
    BY <1>2, <2>2, <2>4
<1>3. QED
  BY <1>1, <1>2

\* What is on its way to tx, and what tx has taken, is in the window.
ChanHasData == send_chan = <<>> \/ \E s \in window_data : send_chan = <<s>>
DataInv ==
    /\ end_seq \in SeqIds
    /\ taken = [c \in Conns |-> taken[c]]
    /\ ChanHasData
    /\ pc[App] = "send" => NextSeq(end_seq, -1) \in window_data
    /\ TxFindsData

\* flush_send_buffer adds the id it sends.
LEMMA InsertKeepsData ==
    ASSUME DataInv, InsertData, taken' = taken
    PROVE  /\ end_seq' \in SeqIds /\ taken' = [c \in Conns |-> taken'[c]]
           /\ ChanHasData' /\ NextSeq(end_seq, -1)' \in window_data' /\ TxFindsData'
<1>1. end_seq' \in SeqIds /\ NextSeq(end_seq', -1) = end_seq
  BY BackAndForth DEF DataInv, InsertData
<1>2. end_seq \in window_data' /\ window_data \subseteq window_data'
  BY DEF InsertData
<1>3. ChanHasData'
  BY <1>2 DEF DataInv, InsertData, ChanHasData
<1>4. TxFindsData'
  BY <1>2 DEF DataInv, TxFindsData
<1>5. QED
  BY <1>1, <1>2, <1>3, <1>4 DEF DataInv

\* A step that does not touch the window, the channel or the application.
LEMMA DataStays ==
    ASSUME IInv, DataInv, NEW t \in Tasks, NEW label, Goto(t, label),
           UNCHANGED sendVars, t = App => label # "send"
    PROVE  DataInv'
<1>1. pc'[App] = "send" => pc[App] = "send"
  BY Moves, Names DEF IInv
<1>2. send_chan' = send_chan /\ window_data' = window_data /\ end_seq' = end_seq
      /\ taken' = taken
  BY DEF sendVars
<1>3. QED
  BY <1>1, <1>2 DEF DataInv, ChanHasData, TxFindsData

\* Every step preserves it.
LEMMA NextDataInv ==
    ASSUME IInv, DataInv, [Next]_vars
    PROVE  DataInv'
<1> USE Names
<1>1. CASE AppLock \/ AppWrite \/ AppReceiveAck \/ (\E c \in Conns, seq \in DataIds :
           AppReceiveData(c, seq))
  <2>1. Goto(App, "lock") \/ Goto(App, "data") \/ Goto(App, "stuck") \/ Goto(App, "new")
    BY <1>1 DEF AppLock, AppWrite, AppReceiveAck, AppReceiveData
  <2>2. UNCHANGED sendVars
    BY <1>1 DEF AppLock, AppWrite, AppReceiveAck, AppReceiveData
  <2>3. QED
    BY <2>1, <2>2, DataStays
<1>2. CASE AppInsert
  <2>1. InsertData /\ taken' = taken
    BY <1>2 DEF AppInsert
  <2>2. QED
    BY <2>1, InsertKeepsData DEF DataInv
<1>3. CASE FlushInsert
  <2>1. InsertData /\ taken' = taken
    BY <1>3 DEF FlushInsert
  <2>2. QED
    BY <2>1, InsertKeepsData DEF DataInv
<1>4. CASE AppSend
  <2>1. /\ send_chan' = <<NextSeq(end_seq, -1)>> /\ NextSeq(end_seq, -1) \in window_data
        /\ window_data' = window_data /\ end_seq' = end_seq /\ taken' = taken
    BY <1>4 DEF AppSend, DataInv
  <2>2. pc'[App] = "new"
    BY <1>4, Moves DEF AppSend, IInv
  <2>3. ChanHasData'
    BY <2>1 DEF ChanHasData
  <2>4. QED
    BY <2>1, <2>2, <2>3 DEF DataInv, TxFindsData
<1>5. CASE StartLock \/ StartClone
  <2>1. Goto(Start, "lock") \/ Goto(Start, "returned")
    BY <1>5 DEF StartLock, StartClone
  <2>2. UNCHANGED sendVars
    BY <1>5 DEF StartLock, StartClone
  <2>3. QED
    BY <2>1, <2>2, DataStays
<1>6. CASE FlushStart \/ FlushLocked \/ FlushWake \/ CheckWake
  <2>1. Goto(Flush, "lock") \/ Goto(Flush, "sleep") \/ Goto(Flush, "data")
        \/ Goto(Check, "lock")
    BY <1>6 DEF FlushStart, FlushLocked, FlushWake, CheckWake
  <2>2. UNCHANGED sendVars
    BY <1>6 DEF FlushStart, FlushLocked, FlushWake, CheckWake
  <2>3. QED
    BY <2>1, <2>2, DataStays
<1>7. ASSUME NEW c \in Conns, TxTake(c) PROVE DataInv'
  <2>1. /\ taken' = [taken EXCEPT ![c] = Head(send_chan)] /\ send_chan' = <<>>
        /\ send_chan # <<>> /\ window_data' = window_data /\ end_seq' = end_seq
    BY <1>7 DEF TxTake
  <2>2. Head(send_chan) \in window_data
    BY <2>1 DEF DataInv, ChanHasData
  <2>3. taken' = [d \in Conns |-> taken'[d]]
        /\ \A d \in Conns : taken'[d] = IF d = c THEN Head(send_chan) ELSE taken[d]
    BY <2>1 DEF DataInv
  <2>4. pc'[App] = pc[App]
    BY <1>7, Moves, ConnNames DEF TxTake, IInv, Privileged
  <2>5. TxFindsData'
    BY <2>1, <2>2, <2>3 DEF DataInv, TxFindsData
  <2>6. QED
    BY <2>1, <2>3, <2>4, <2>5 DEF DataInv, ChanHasData
<1>8. ASSUME NEW c \in Conns,
             \/ TxStart(c) \/ TxTimeout(c) \/ TxData(c)
             \/ AckWake(c) \/ AckLocked(c) \/ AckDone(c) \/ TimeoutStart(c)
      PROVE  DataInv'
  <2>1. \E t \in {Tx(c), Ack(c), Timeout(c)},
           l \in {"window", "select", "returned", "lock", "sleep", "collect", "send"} :
              Goto(t, l)
    BY <1>8 DEF TxStart, TxTimeout, TxData, AckWake, AckLocked, AckDone, TimeoutStart
  <2>2. UNCHANGED sendVars
    BY <1>8 DEF TxStart, TxTimeout, TxData, AckWake, AckLocked, AckDone, TimeoutStart
  <2>3. QED
    BY <2>1, <2>2, ConnNames, DataStays DEF Privileged
<1>9. ASSUME NEW c \in Conns, AckCollect(c) \/ AckPanic(c) PROVE DataInv'
  <2>1. pc'[App] = pc[App]
    BY <1>9 DEF AckCollect, AckPanic
  <2>2. send_chan' = send_chan /\ window_data' = window_data /\ end_seq' = end_seq
        /\ taken' = taken
    BY <1>9 DEF AckCollect, AckPanic, sendVars
  <2>3. QED
    BY <2>1, <2>2 DEF DataInv, ChanHasData, TxFindsData
<1>10. CASE UNCHANGED vars
  BY <1>10 DEF vars, sendVars, DataInv, ChanHasData, TxFindsData
<1>11. QED
  BY <1>1, <1>2, <1>3, <1>4, <1>5, <1>6, <1>7, <1>8, <1>9, <1>10 DEF Next

\* Nothing is sent or taken at the start.
LEMMA InitDataInv == Init => DataInv
<1> SUFFICES ASSUME Init PROVE DataInv
  OBVIOUS
<1>1. pc[App] = "new" /\ taken = [c \in Conns |-> 0]
  BY Names DEF Init
<1>2. QED
  BY <1>1, MaxSeqAssumption DEF Init, DataInv, ChanHasData, TxFindsData, SeqIds, MinSeq

\* For every number of connections and every interleaving of the
\* application, flush and tx, an id that tx takes has data, across the wrap
\* of the ids too.
THEOREM TakenHasData == Spec => []TxFindsData
<1>1. IInv /\ DataInv /\ [Next]_vars => IInv' /\ DataInv'
  BY NextIInv, NextDataInv
<1>2. DataInv => TxFindsData
  BY DEF DataInv
<1>3. QED
  BY <1>1, <1>2, InitIInv, InitDataInv, PTL DEF Spec

-----------------------------------------------------------------------------
(* The connections *)

\* The futures of connections have names of their own.
LEMMA FutureNames ==
    /\ \A c, d \in Conns :
         /\ Tx(c) = Tx(d) => c = d
         /\ Ack(c) = Ack(d) => c = d
         /\ Tx(c) # Ack(d) /\ Timeout(c) # Tx(d) /\ Timeout(c) # Ack(d)
    /\ \A c \in Conns : {Tx(c), Ack(c), Timeout(c)} \cap {App, Start, Flush, Check} = {}
BY DEF Tx, Ack, Timeout, App, Start, Flush, Check

Holding == {"window", "select", "data", "lock"}

\* Who has a connection: nobody before tx, then tx until its wait for a window
\* of 0 times out, and send_ack only after that.
Holds(c) ==
    /\ pc[Tx(c)] \in Holding \cup {"new", "returned", "dropped"}
    /\ pc[Tx(c)] = "new" => conn[c] = <<>>
    /\ pc[Tx(c)] \in Holding => conn[c] # <<>> /\ Head(conn[c]) = Tx(c)
    /\ pc[Tx(c)] \in {"window", "returned"} => clone_window[c] = 0
    /\ pc[Ack(c)] \in {"collect", "send"} => pc[Tx(c)] = "returned"
    /\ pc[Ack(c)] = "collect" => conn[c] # <<>>

\* The clones are made before any future starts, and a panic is one of a
\* send_ack that got its connection.
Cloned ==
    /\ pc[Start] \in {"new", "lock", "returned", "dropped"}
    /\ \A c \in Conns :
         /\ pc[Start] \in {"new", "lock"} => pc[Tx(c)] = "new"
         /\ pc[Tx(c)] = "dropped" => pc[Start] = "dropped"
    /\ pc[Flush] = "dropped" => pc[Start] = "dropped"
    /\ pc[Flush] = "dropped" => \E c \in Conns : clone_window[c] = 0

ConnTypes ==
    /\ DOMAIN pc = Tasks /\ pc = [t \in Tasks |-> pc[t]]
    /\ conn \in [Conns -> Seq(Tasks)]
    /\ window \in [Conns -> Nat] /\ clone_window \in [Conns -> Nat]

ConnInv == ConnTypes /\ Cloned /\ \A c \in Conns : Holds(c)

\* What a step of one future does to the labels.
LEMMA LabelMoves ==
    ASSUME ConnTypes, NEW t \in Tasks, NEW label, Goto(t, label)
    PROVE  /\ DOMAIN pc' = Tasks /\ pc' = [u \in Tasks |-> pc'[u]]
           /\ \A u \in Tasks : pc'[u] = IF u = t THEN label ELSE pc[u]
BY DEF ConnTypes, Goto

\* A step of the application, of flush, of check or of a check_timeout leaves
\* the connections alone.
LEMMA OthersHold ==
    ASSUME ConnInv, NEW t \in Tasks, NEW label, Goto(t, label),
           t # Start, \A c \in Conns : t # Tx(c) /\ t # Ack(c),
           label # "dropped", UNCHANGED <<conn, clone_window>>,
           window' \in [Conns -> Nat]
    PROVE  ConnInv'
<1>1. /\ DOMAIN pc' = Tasks /\ pc' = [u \in Tasks |-> pc'[u]]
      /\ \A u \in Tasks : pc'[u] = IF u = t THEN label ELSE pc[u]
  BY LabelMoves DEF ConnInv
<1>2. ConnTypes'
  BY <1>1 DEF ConnInv, ConnTypes
<1>3. \A c \in Conns : pc'[Tx(c)] = pc[Tx(c)] /\ pc'[Ack(c)] = pc[Ack(c)]
  BY <1>1, ConnNames
<1>4. pc'[Start] = pc[Start] /\ (pc'[Flush] = "dropped" => pc[Flush] = "dropped")
  BY <1>1, Names
<1>5. Cloned'
  BY <1>3, <1>4 DEF ConnInv, Cloned
<1>6. \A c \in Conns : Holds(c)'
  BY <1>3 DEF ConnInv, Holds
<1> QED
  BY <1>2, <1>5, <1>6 DEF ConnInv

\* A step of tx or send_ack of connection c, once started: it suffices to look
\* at that connection.
LEMMA OneHolds ==
    ASSUME ConnInv, NEW c \in Conns, NEW t \in {Tx(c), Ack(c)}, NEW label,
           Goto(t, label), label # "dropped", pc[Start] \notin {"new", "lock"},
           conn' \in [Conns -> Seq(Tasks)],
           \A d \in Conns \ {c} : conn'[d] = conn[d],
           UNCHANGED windowVars, Holds(c)'
    PROVE  ConnInv'
<1>0. t \in Tasks /\ t # Start /\ t # Flush
  BY ConnNames DEF Privileged
<1>1. /\ DOMAIN pc' = Tasks /\ pc' = [u \in Tasks |-> pc'[u]]
      /\ \A u \in Tasks : pc'[u] = IF u = t THEN label ELSE pc[u]
  BY <1>0, LabelMoves DEF ConnInv
<1>2. ConnTypes'
  BY <1>1 DEF ConnInv, ConnTypes, windowVars
<1>3. \A d \in Conns \ {c} : pc'[Tx(d)] = pc[Tx(d)] /\ pc'[Ack(d)] = pc[Ack(d)]
  BY <1>1, ConnNames, FutureNames
<1>4. pc'[Start] = pc[Start] /\ pc'[Flush] = pc[Flush]
  BY <1>0, <1>1, Names
<1>5. pc'[Tx(c)] = "dropped" => pc[Tx(c)] = "dropped"
  BY <1>1, ConnNames
<1>6. Cloned'
  BY <1>3, <1>4, <1>5 DEF ConnInv, Cloned, windowVars
<1>7. \A d \in Conns \ {c} : Holds(d)'
  BY <1>3 DEF ConnInv, Holds, windowVars
<1> QED
  BY <1>2, <1>6, <1>7 DEF ConnInv

\* Appending to the queue of a connection, and taking its head off.
LEMMA QueueFacts ==
    ASSUME NEW q \in Seq(Tasks), NEW t \in Tasks
    PROVE  /\ Append(q, t) \in Seq(Tasks) /\ Append(q, t) # <<>>
           /\ q = <<>> => Head(Append(q, t)) = t
           /\ q # <<>> => Head(Append(q, t)) = Head(q) /\ Tail(q) \in Seq(Tasks)
BY AppendProperties, HeadTailAppend, HeadTailProperties

\* tx takes its connection, and gives it back only when its window is 0.
LEMMA TxHolds ==
    ASSUME ConnInv, NEW c \in Conns, TxStart(c) \/ TxTimeout(c) \/ TxTake(c) \/ TxData(c)
    PROVE  ConnInv'
<1>0. /\ Tx(c) \in Tasks /\ Ack(c) \in Tasks /\ Tx(c) # Ack(c)
      /\ conn[c] \in Seq(Tasks) /\ clone_window[c] \in Nat
      /\ Holds(c) /\ Cloned /\ ConnTypes
  BY ConnNames, FutureNames DEF ConnInv, ConnTypes
<1>1. CASE TxStart(c)
  <2>1. PICK label \in {"window", "select"} :
          /\ Goto(Tx(c), label)
          /\ label = "window" => 0 >= clone_window[c]
    BY <1>1 DEF TxStart
  <2>2. /\ pc[Tx(c)] = "new" /\ pc[Start] = "returned" /\ UNCHANGED windowVars
        /\ conn' = [conn EXCEPT ![c] = Append(@, Tx(c))]
    BY <1>1 DEF TxStart, Polled
  <2>3. /\ conn' \in [Conns -> Seq(Tasks)]
        /\ \A d \in Conns \ {c} : conn'[d] = conn[d]
        /\ conn'[c] = Append(conn[c], Tx(c))
    BY <1>0, <2>2, QueueFacts DEF ConnTypes
  <2>4. pc'[Tx(c)] = label /\ pc'[Ack(c)] = pc[Ack(c)]
    BY <1>0, <2>1, LabelMoves
  <2>5. conn[c] = <<>> /\ conn'[c] # <<>> /\ Head(conn'[c]) = Tx(c)
    BY <1>0, <2>2, <2>3, QueueFacts DEF Holds
  <2>6. label = "window" => clone_window'[c] = 0
    BY <1>0, <2>1, <2>2 DEF windowVars
  <2>7. Holds(c)'
    BY <1>0, <2>1, <2>2, <2>4, <2>5, <2>6 DEF Holds, Holding
  <2> QED
    BY <2>1, <2>2, <2>3, <2>7, OneHolds
<1>2. CASE TxTimeout(c)
  <2>1. /\ pc[Tx(c)] = "window" /\ Goto(Tx(c), "returned") /\ UNCHANGED windowVars
        /\ conn' = [conn EXCEPT ![c] = Tail(@)]
    BY <1>2 DEF TxTimeout
  <2>2. pc[Start] \notin {"new", "lock"}
    BY <1>0, <2>1 DEF Cloned
  <2>3. /\ conn' \in [Conns -> Seq(Tasks)]
        /\ \A d \in Conns \ {c} : conn'[d] = conn[d]
    <3>1. conn[c] # <<>>
      BY <1>0, <2>1 DEF Holds, Holding
    <3>2. Tail(conn[c]) \in Seq(Tasks)
      BY <1>0, <3>1, QueueFacts
    <3> QED
      BY <1>0, <2>1, <3>2 DEF ConnTypes
  <2>4. pc'[Tx(c)] = "returned" /\ pc'[Ack(c)] = pc[Ack(c)]
    BY <1>0, <2>1, LabelMoves
  <2>5. Holds(c)'
    BY <1>0, <2>1, <2>4 DEF Holds, Holding, windowVars
  <2> QED
    BY <2>1, <2>2, <2>3, <2>5, OneHolds
<1>3. CASE TxTake(c) \/ TxData(c)
  <2>1. PICK label \in {"data", "lock"} : Goto(Tx(c), label)
    BY <1>3 DEF TxTake, TxData
  <2>2. /\ pc[Tx(c)] \in {"select", "data"} /\ UNCHANGED <<conn, windowVars>>
    BY <1>3 DEF TxTake, TxData
  <2>3. pc[Start] \notin {"new", "lock"}
    BY <1>0, <2>2 DEF Cloned
  <2>4. pc'[Tx(c)] = label /\ pc'[Ack(c)] = pc[Ack(c)]
    BY <1>0, <2>1, LabelMoves
  <2>5. Holds(c)'
    BY <1>0, <2>2, <2>4 DEF Holds, Holding, windowVars
  <2> QED
    BY <1>0, <2>1, <2>2, <2>3, <2>5, OneHolds DEF ConnTypes
<1> QED
  BY <1>1, <1>2, <1>3

\* send_ack gets the connection after tx has returned.
LEMMA AckHolds ==
    ASSUME ConnInv, NEW c \in Conns, AckWake(c) \/ AckLocked(c) \/ AckDone(c)
    PROVE  ConnInv'
<1>0. /\ Tx(c) \in Tasks /\ Ack(c) \in Tasks /\ Tx(c) # Ack(c)
      /\ conn[c] \in Seq(Tasks)
      /\ Holds(c) /\ Cloned /\ ConnTypes
  BY ConnNames, FutureNames DEF ConnInv, ConnTypes
<1>1. pc[Start] = "returned" /\ UNCHANGED windowVars
  BY DEF AckWake, AckLocked, AckDone, Polled
<1>2. CASE AckWake(c)
  <2>1. /\ Goto(Ack(c), "lock") /\ pc[Tx(c)] # "new"
        /\ conn' = [conn EXCEPT ![c] = Append(@, Ack(c))]
    BY <1>2 DEF AckWake
  <2>2. /\ conn' \in [Conns -> Seq(Tasks)]
        /\ \A d \in Conns \ {c} : conn'[d] = conn[d]
        /\ conn'[c] = Append(conn[c], Ack(c))
    BY <1>0, <2>1, QueueFacts DEF ConnTypes
  <2>3. pc'[Ack(c)] = "lock" /\ pc'[Tx(c)] = pc[Tx(c)]
    BY <1>0, <2>1, LabelMoves
  <2>4. /\ conn'[c] # <<>>
        /\ conn[c] # <<>> => Head(conn'[c]) = Head(conn[c])
    BY <1>0, <2>2, QueueFacts
  <2>5. Holds(c)'
    BY <1>0, <1>1, <2>1, <2>3, <2>4 DEF Holds, windowVars
  <2> QED
    BY <1>1, <2>1, <2>2, <2>5, OneHolds
<1>3. CASE AckLocked(c)
  <2>1. PICK label \in {"sleep", "collect"} : Goto(Ack(c), label)
    BY <1>3 DEF AckLocked
  <2>2. conn[c] # <<>> /\ Head(conn[c]) = Ack(c)
    BY <1>3 DEF AckLocked
  <2>3. pc[Tx(c)] = "returned"
    BY <1>0, <1>1, <2>2 DEF Holds, Cloned
  <2>4. /\ conn' \in [Conns -> Seq(Tasks)]
        /\ \A d \in Conns \ {c} : conn'[d] = conn[d]
    <3>1. Tail(conn[c]) \in Seq(Tasks)
      BY <1>0, <2>2, QueueFacts
    <3>2. conn' = conn \/ conn' = [conn EXCEPT ![c] = Tail(@)]
      BY <1>3 DEF AckLocked
    <3> QED
      BY <1>0, <3>1, <3>2 DEF ConnTypes
  <2>5. /\ pc'[Ack(c)] = label /\ pc'[Tx(c)] = pc[Tx(c)]
        /\ label = "collect" => conn'[c] = conn[c]
    <3>1. pc'[Ack(c)] = label /\ pc'[Tx(c)] = pc[Tx(c)]
      BY <1>0, <2>1, LabelMoves
    <3>2. ack_queue[c] = <<>> => pc'[Ack(c)] = "sleep"
      BY <1>0, <1>3, LabelMoves DEF AckLocked
    <3> QED
      BY <1>3, <3>1, <3>2 DEF AckLocked
  <2>6. Holds(c)'
    BY <1>0, <1>1, <2>2, <2>3, <2>5 DEF Holds, Holding, windowVars
  <2> QED
    BY <1>1, <2>1, <2>4, <2>6, OneHolds
<1>4. CASE AckDone(c)
  <2>1. /\ Goto(Ack(c), "send") /\ pc[Ack(c)] = "collect"
        /\ conn' = [conn EXCEPT ![c] = Tail(@)]
    BY <1>4 DEF AckDone
  <2>2. pc[Tx(c)] = "returned"
    BY <1>0, <2>1 DEF Holds
  <2>3. pc'[Ack(c)] = "send" /\ pc'[Tx(c)] = pc[Tx(c)]
    BY <1>0, <2>1, LabelMoves
  <2>4. Holds(c)'
    BY <1>0, <1>1, <2>2, <2>3 DEF Holds, Holding, windowVars
  <2>5. /\ conn' \in [Conns -> Seq(Tasks)]
        /\ \A d \in Conns \ {c} : conn'[d] = conn[d]
    <3>1. conn[c] # <<>>
      BY <1>0, <2>1 DEF Holds
    <3>2. Tail(conn[c]) \in Seq(Tasks)
      BY <1>0, <3>1, QueueFacts
    <3> QED
      BY <1>0, <2>1, <3>2 DEF ConnTypes
  <2> QED
    BY <1>1, <2>1, <2>4, <2>5, OneHolds
<1> QED
  BY <1>2, <1>3, <1>4

\* After a panic all the futures are dropped.
LEMMA PanicHolds ==
    ASSUME ConnInv, NEW c \in Conns, AckPanic(c)
    PROVE  ConnInv'
<1>1. /\ pc' = [t \in Tasks |-> IF t = App THEN pc[App] ELSE "dropped"]
      /\ conn' = [d \in Conns |-> <<>>]
      /\ UNCHANGED windowVars
      /\ pc[Ack(c)] = "collect"
  BY DEF AckPanic
<1>2. /\ pc'[Start] = "dropped" /\ pc'[Flush] = "dropped"
      /\ \A d \in Conns : pc'[Tx(d)] = "dropped" /\ pc'[Ack(d)] = "dropped"
  BY <1>1, Names, ConnNames DEF Privileged
<1>3. clone_window[c] = 0
  BY <1>1 DEF ConnInv, Holds
<1>4. ConnTypes'
  BY <1>1 DEF ConnInv, ConnTypes, windowVars
<1>5. Cloned'
  BY <1>1, <1>2, <1>3 DEF Cloned, windowVars
<1>6. \A d \in Conns : Holds(d)'
  BY <1>1, <1>2 DEF Holds, Holding
<1> QED
  BY <1>4, <1>5, <1>6 DEF ConnInv

\* start_session clones the connections while no future of them exists.
LEMMA StartHolds ==
    ASSUME ConnInv, StartLock \/ StartClone
    PROVE  ConnInv'
<1>0. Start \in Tasks /\ ConnTypes /\ Cloned
  BY Names DEF ConnInv
<1>1. PICK label \in {"lock", "returned"} : Goto(Start, label)
  BY DEF StartLock, StartClone
<1>2. /\ pc[Start] \in {"new", "lock"} /\ UNCHANGED <<conn, window>>
      /\ clone_window' \in {clone_window, window}
  BY DEF StartLock, StartClone, windowVars
<1>3. /\ DOMAIN pc' = Tasks /\ pc' = [u \in Tasks |-> pc'[u]]
      /\ \A u \in Tasks : pc'[u] = IF u = Start THEN label ELSE pc[u]
  BY <1>0, <1>1, LabelMoves
<1>4. \A c \in Conns : /\ pc'[Tx(c)] = "new" /\ pc'[Ack(c)] = pc[Ack(c)]
                       /\ pc[Tx(c)] = "new"
  BY <1>0, <1>2, <1>3, ConnNames DEF Cloned, Privileged
<1>5. pc'[Start] = label /\ pc'[Flush] # "dropped"
  BY <1>0, <1>2, <1>3, Names DEF Cloned
<1>6. ConnTypes'
  BY <1>0, <1>2, <1>3 DEF ConnTypes
<1>7. Cloned'
  BY <1>4, <1>5 DEF Cloned
<1>8. \A c \in Conns : Holds(c)'
  BY <1>2, <1>4 DEF ConnInv, Holds, Holding
<1> QED
  BY <1>6, <1>7, <1>8 DEF ConnInv

\* Every step preserves the invariant of the connections.
LEMMA NextConnInv == ConnInv /\ [Next]_vars => ConnInv'
<1> SUFFICES ASSUME ConnInv, [Next]_vars PROVE ConnInv'
  OBVIOUS
<1>1. CASE AppLock \/ AppWrite \/ AppReceiveAck \/ AppInsert \/ AppSend
           \/ \E c \in Conns, seq \in DataIds : AppReceiveData(c, seq)
  <2> DEFINE Effect == /\ \E label \in {"new", "lock", "data", "stuck", "send"} : Goto(App, label)
                       /\ UNCHANGED <<conn, clone_window>>
                       /\ window' \in [Conns -> Nat]
  <2>0. window \in [Conns -> Nat]
    BY DEF ConnInv, ConnTypes
  <2>1. AppLock \/ AppSend => Effect
    BY <2>0 DEF AppLock, AppSend, windowVars
  <2>2. AppWrite => Effect
    BY <2>0 DEF AppWrite, windowVars
  <2>3. AppReceiveAck => Effect
    BY <2>0 DEF AppReceiveAck, SetWindowSize
  <2>4. AppInsert => Effect
    BY <2>0 DEF AppInsert, windowVars
  <2>5. ASSUME NEW c \in Conns, NEW seq \in DataIds, AppReceiveData(c, seq) PROVE Effect
    BY <2>0, <2>5 DEF AppReceiveData, windowVars
  <2>6. Effect
    BY <1>1, <2>1, <2>2, <2>3, <2>4, <2>5
  <2>7. App \in Tasks /\ App # Start /\ \A c \in Conns : App # Tx(c) /\ App # Ack(c)
    BY Names, FutureNames
  <2> QED
    BY <2>6, <2>7, OthersHold
<1>2. CASE FlushStart \/ FlushLocked \/ FlushWake \/ FlushInsert
  <2>1. PICK label \in {"lock", "sleep", "data", "send"} : Goto(Flush, label)
    BY <1>2 DEF FlushStart, FlushLocked, FlushWake, FlushInsert
  <2>2. UNCHANGED <<conn, clone_window, window>>
    BY <1>2 DEF FlushStart, FlushLocked, FlushWake, FlushInsert, windowVars, lockVars
  <2>3. Flush \in Tasks /\ Flush # Start /\ \A c \in Conns : Flush # Tx(c) /\ Flush # Ack(c)
    BY Names, FutureNames
  <2> QED
    BY <2>1, <2>2, <2>3, OthersHold DEF ConnInv, ConnTypes
<1>3. CASE CheckWake
  <2>1. Goto(Check, "lock") /\ UNCHANGED <<conn, clone_window, window>>
    BY <1>3 DEF CheckWake, windowVars
  <2>2. Check \in Tasks /\ Check # Start /\ \A c \in Conns : Check # Tx(c) /\ Check # Ack(c)
    BY Names, FutureNames
  <2> QED
    BY <2>1, <2>2, OthersHold DEF ConnInv, ConnTypes
<1>4. ASSUME NEW c \in Conns, TimeoutStart(c) PROVE ConnInv'
  <2>1. Goto(Timeout(c), "lock") /\ UNCHANGED <<conn, clone_window, window>>
    BY <1>4 DEF TimeoutStart, windowVars
  <2>2. /\ Timeout(c) \in Tasks /\ Timeout(c) # Start
        /\ \A d \in Conns : Timeout(c) # Tx(d) /\ Timeout(c) # Ack(d)
    BY ConnNames, FutureNames DEF Privileged
  <2> QED
    BY <2>1, <2>2, OthersHold DEF ConnInv, ConnTypes
<1>5. CASE UNCHANGED vars \/ \E c \in Conns : AckCollect(c)
  <2>1. UNCHANGED <<pc, conn, window, clone_window>>
    BY <1>5 DEF vars, AckCollect, lockVars, windowVars
  <2> QED
    BY <2>1 DEF ConnInv, ConnTypes, Cloned, Holds
<1> QED
  BY <1>1, <1>2, <1>3, <1>4, <1>5, StartHolds, TxHolds, AckHolds, PanicHolds DEF Next

\* No connection is held at the start.
LEMMA InitConnInv == Init => ConnInv
<1> SUFFICES ASSUME Init PROVE ConnInv
  OBVIOUS
<1>1. /\ pc = [t \in Tasks |-> "new"] /\ conn = [c \in Conns |-> <<>>]
      /\ window \in [Conns -> Nat] /\ clone_window = window
  BY NcpTasksAssumption DEF Init
<1>2. /\ pc[Start] = "new" /\ pc[Flush] = "new"
      /\ \A c \in Conns : pc[Tx(c)] = "new" /\ pc[Ack(c)] = "new"
  BY <1>1, Names, ConnNames
<1>3. ConnTypes
  BY <1>1 DEF ConnTypes
<1> QED
  BY <1>1, <1>2, <1>3 DEF ConnInv, Cloned, Holds, Holding

\* For every number of connections and windows: a connection whose window is
\* open when start_session clones it is kept by tx, its send_ack collects
\* nothing, and the futures are never ended by the panic of send_ack unless
\* some window was 0.
THEOREM AcksWaitForTx == Spec => []AcksNeedAClosedWindow
<1>1. ConnInv => AcksNeedAClosedWindow
  BY DEF ConnInv, Cloned, Holds, AcksNeedAClosedWindow
<1> QED
  BY <1>1, InitConnInv, NextConnInv, PTL DEF Spec

-----------------------------------------------------------------------------
(* The acks *)

\* The queues hold ids, and the lists runs of ids.
AckTypes ==
    /\ ack_queue \in [Conns -> Seq(SeqIds)]
    /\ ack_list \in [Conns -> Seq(Run)]

Elements(s) == {s[i] : i \in DOMAIN s}

\* A set of natural numbers has a least one.
LEMMA Least ==
    ASSUME NEW T, T \subseteq Nat, T # {}
    PROVE  \E n \in T : \A m \in T : n <= m
<1>1. IsWellFoundedOn(OpToRel(<, Nat), Nat)
  BY NatLessThanWellFounded
<1>2. PICK n \in T : \A m \in T : ~ (<<m, n>> \in OpToRel(<, Nat))
  BY <1>1, WFMin
<1>3. \A m \in T : ~(m < n)
  BY <1>2 DEF OpToRel
<1>4. QED
  BY <1>3

\* push finds a place, and the queue stays one of ids.
LEMMA PushedIsQueue ==
    ASSUME NEW q \in Seq(SeqIds), NEW s \in SeqIds
    PROVE  Pushed(q, s) \in Seq(SeqIds)
<1> DEFINE P(i) == /\ \A j \in 1 .. i - 1 : ~ Before(s, q[j])
                   /\ i <= Len(q) => Before(s, q[i])
           T == {i \in 1 .. Len(q) + 1 : i <= Len(q) => Before(s, q[i])}
<1> Len(q) \in Nat
  OBVIOUS
<1>1. PICK n \in T : \A m \in T : n <= m
  <2>1. Len(q) + 1 \in T /\ T \subseteq Nat
    OBVIOUS
  <2>2. QED
    BY <2>1, Least
<1>2. \E i \in 1 .. Len(q) + 1 : P(i)
  <2>1. ASSUME NEW j \in 1 .. n - 1 PROVE ~ Before(s, q[j])
    BY <1>1
  <2>2. QED
    BY <1>1, <2>1
<1>3. PICK i \in 1 .. Len(q) + 1 :
         Pushed(q, s) = SubSeq(q, 1, i - 1) \o <<s>> \o SubSeq(q, i, Len(q))
  BY <1>2 DEF Pushed
<1>4. /\ SubSeq(q, 1, i - 1) \in Seq(SeqIds) /\ <<s>> \in Seq(SeqIds)
      /\ SubSeq(q, i, Len(q)) \in Seq(SeqIds)
  <2>1. \A m, n1 \in Int : m \in 1 .. Len(q) + 1 /\ n1 \in 0 .. Len(q)
           => SubSeq(q, m, n1) \in Seq(SeqIds)
    BY SubSeqProperties
  <2>2. QED
    BY <2>1
<1>5. QED
  BY <1>3, <1>4

\* No step forward leads to the id itself.
LEMMA NextOfZero ==
    ASSUME NEW s \in SeqIds
    PROVE  NextSeq(s, 0) = s
<1>1. (s - 1 + 0) % MaxSeq = s - 1
  BY MaxSeqAssumption DEF SeqIds, MinSeq
<1>2. QED
  BY <1>1 DEF NextSeq, SeqIds, MinSeq

\* The inner loop of send_ack ends, after ids that follow each other.
LEMMA RunOfQueue ==
    ASSUME NEW q \in Seq(SeqIds), q # <<>>
    PROVE  /\ RunLength(q) \in 1 .. Len(q)
           /\ \A k \in 1 .. RunLength(q) - 1 : q[k + 1] = NextSeq(q[1], k)
<1> DEFINE P(n) == /\ \A k \in 1 .. n - 1 : q[k + 1] = NextSeq(q[1], k)
                   /\ n < Len(q) => q[n + 1] # NextSeq(q[1], n)
           T == {n \in 1 .. Len(q) : n < Len(q) => q[n + 1] # NextSeq(q[1], n)}
<1> Len(q) \in Nat /\ Len(q) > 0
  OBVIOUS
<1>1. PICK n \in T : \A m \in T : n <= m
  <2>1. Len(q) \in T /\ T \subseteq Nat
    OBVIOUS
  <2>2. QED
    BY <2>1, Least
<1>2. P(n)
  <2>1. ASSUME NEW k \in 1 .. n - 1 PROVE q[k + 1] = NextSeq(q[1], k)
    BY <1>1
  <2>2. QED
    BY <1>1, <2>1
<1>3. \E i \in 1 .. Len(q) : P(i)
  BY <1>2
<1>4. QED
  BY <1>3 DEF RunLength

\* What is left of the queue, and the run, are the ids of the queue.
LEMMA RunAndRest ==
    ASSUME NEW q \in Seq(SeqIds), q # <<>>
    PROVE  /\ SubSeq(q, RunLength(q) + 1, Len(q)) \in Seq(SeqIds)
           /\ Elements(q) = Elements(SubSeq(q, RunLength(q) + 1, Len(q)))
                            \cup {NextSeq(q[1], k) : k \in 0 .. RunLength(q) - 1}
<1>1. PICK n \in 1 .. Len(q) :
         n = RunLength(q) /\ \A k \in 1 .. n - 1 : q[k + 1] = NextSeq(q[1], k)
  BY RunOfQueue
<1>2. PICK r : r = SubSeq(q, n + 1, Len(q))
  OBVIOUS
<1> Len(q) \in Nat /\ q[1] \in SeqIds
  OBVIOUS
<1>3. /\ r \in Seq(SeqIds) /\ Len(r) = Len(q) - n
      /\ \A i \in 1 .. Len(q) - n : r[i] = q[n + i]
  BY <1>1, <1>2
<1>4. \A k \in 0 .. n - 1 : q[k + 1] = NextSeq(q[1], k)
  BY <1>1, NextOfZero
<1>5. \A i \in 1 .. Len(q) :
         q[i] \in Elements(r) \/ \E k \in 0 .. n - 1 : q[i] = NextSeq(q[1], k)
  <2> SUFFICES ASSUME NEW i \in 1 .. Len(q)
               PROVE  q[i] \in Elements(r) \/ \E k \in 0 .. n - 1 : q[i] = NextSeq(q[1], k)
    OBVIOUS
  <2>1. CASE i <= n
    <3>1. i - 1 \in 0 .. n - 1 /\ q[(i - 1) + 1] = NextSeq(q[1], i - 1)
      BY <1>4, <2>1
    <3>2. QED
      BY <3>1
  <2>2. CASE i > n
    <3>1. i - n \in DOMAIN r /\ r[i - n] = q[i]
      BY <1>3, <2>2
    <3>2. QED
      BY <3>1 DEF Elements
  <2>3. QED
    BY <2>1, <2>2
<1>6. Elements(r) \subseteq Elements(q)
  <2> SUFFICES ASSUME NEW i \in 1 .. Len(q) - n PROVE r[i] \in Elements(q)
    BY <1>3 DEF Elements
  <2>1. n + i \in DOMAIN q /\ r[i] = q[n + i]
    BY <1>3
  <2>2. QED
    BY <2>1 DEF Elements
<1>7. \A k \in 0 .. n - 1 : NextSeq(q[1], k) \in Elements(q)
  <2> SUFFICES ASSUME NEW k \in 0 .. n - 1 PROVE NextSeq(q[1], k) \in Elements(q)
    OBVIOUS
  <2>1. k + 1 \in DOMAIN q /\ q[k + 1] = NextSeq(q[1], k)
    BY <1>4
  <2>2. QED
    BY <2>1 DEF Elements
<1>8. Elements(q) = Elements(r) \cup {NextSeq(q[1], k) : k \in 0 .. n - 1}
  <2>1. \A x \in Elements(q) : \E i \in 1 .. Len(q) : x = q[i]
    BY DEF Elements
  <2>2. QED
    BY <1>5, <1>6, <1>7, <2>1
<1>9. QED
  BY <1>1, <1>2, <1>3, <1>8

\* A run at the end of the list adds its ids.
LEMMA ListedAppend ==
    ASSUME NEW list \in Seq(Run), NEW r \in Run
    PROVE  /\ Append(list, r) \in Seq(Run)
           /\ Listed(Append(list, r))
                = Listed(list) \cup {NextSeq(r.start, k) : k \in 0 .. r.count - 1}
<1> DEFINE Ids(x) == {NextSeq(x.start, k) : k \in 0 .. x.count - 1}
<1>1. PICK new : new = Append(list, r)
  OBVIOUS
<1>2. /\ new \in Seq(Run) /\ DOMAIN new = 1 .. Len(list) + 1
      /\ \A i \in 1 .. Len(list) : new[i] = list[i]
      /\ new[Len(list) + 1] = r /\ DOMAIN list = 1 .. Len(list) /\ Len(list) \in Nat
  BY <1>1
<1>3. Listed(new) = UNION {Ids(new[i]) : i \in 1 .. Len(list) + 1}
  BY <1>2 DEF Listed
<1>4. Listed(list) = UNION {Ids(list[i]) : i \in 1 .. Len(list)}
  BY <1>2 DEF Listed
<1> HIDE DEF Ids
<1>5. Listed(new) = Listed(list) \cup Ids(r)
  <2>1. \A x : x \in Listed(new) <=> \E i \in 1 .. Len(list) + 1 : x \in Ids(new[i])
    BY <1>3
  <2>2. \A x : x \in Listed(list) <=> \E i \in 1 .. Len(list) : x \in Ids(list[i])
    BY <1>4
  <2>3. \A x : x \in Listed(new) <=> x \in Listed(list) \/ x \in Ids(r)
    <3> SUFFICES ASSUME NEW x
                 PROVE  x \in Listed(new) <=> x \in Listed(list) \/ x \in Ids(r)
      OBVIOUS
    <3>1. ASSUME NEW i \in 1 .. Len(list) + 1, x \in Ids(new[i])
          PROVE  x \in Listed(list) \/ x \in Ids(r)
      <4>1. CASE i = Len(list) + 1
        BY <1>2, <3>1, <4>1
      <4>2. CASE i \in 1 .. Len(list)
        BY <1>2, <2>2, <3>1, <4>2
      <4>3. QED
        BY <1>2, <4>1, <4>2
    <3>2. ASSUME NEW i \in 1 .. Len(list), x \in Ids(list[i]) PROVE x \in Listed(new)
      BY <1>2, <2>1, <3>2
    <3>3. ASSUME x \in Ids(r) PROVE x \in Listed(new)
      BY <1>2, <2>1, <3>3
    <3>4. QED
      BY <2>1, <2>2, <3>1, <3>2, <3>3
  <2>4. QED
    BY <2>3
<1>6. QED
  BY <1>1, <1>2, <1>5 DEF Ids

\* One turn of the loop over the queue of c.
LEMMA CollectMoves ==
    ASSUME AckTypes, NEW c \in Conns, AckCollect(c)
    PROVE  /\ AckTypes'
           /\ \A d \in Conns :
                Elements(ack_queue[d]) \cup Listed(ack_list[d])
                  = Elements(ack_queue'[d]) \cup Listed(ack_list'[d])
<1>1. PICK q \in Seq(SeqIds) : q = ack_queue[c] /\ q # <<>>
  BY DEF AckTypes, AckCollect
<1>2. PICK rest \in Seq(SeqIds) : rest = SubSeq(q, RunLength(q) + 1, Len(q))
  BY <1>1, RunAndRest
<1>3. PICK r \in Run : r = [start |-> q[1], count |-> RunLength(q)]
  <2>1. RunLength(q) \in Nat /\ q[1] \in SeqIds
    BY <1>1, RunOfQueue
  <2>2. QED
    BY <2>1 DEF Run
<1>4. PICK list \in Seq(Run) : list = Append(ack_list[c], r)
  BY ListedAppend DEF AckTypes
<1>5. /\ ack_queue' = [ack_queue EXCEPT ![c] = rest]
      /\ ack_list' = [ack_list EXCEPT ![c] = list]
  BY <1>1, <1>2, <1>3, <1>4 DEF AckCollect
<1>6. AckTypes'
  BY <1>5 DEF AckTypes
<1>7. Elements(q) \cup Listed(ack_list[c]) = Elements(rest) \cup Listed(list)
  <2>1. Elements(q)
          = Elements(rest) \cup {NextSeq(q[1], k) : k \in 0 .. RunLength(q) - 1}
    BY <1>1, <1>2, RunAndRest
  <2>2. Listed(list)
          = Listed(ack_list[c]) \cup {NextSeq(r.start, k) : k \in 0 .. r.count - 1}
    BY <1>4, ListedAppend DEF AckTypes
  <2>3. r.start = q[1] /\ r.count = RunLength(q)
    BY <1>3
  <2>4. QED
    BY <2>1, <2>2, <2>3
<1>8. ASSUME NEW d \in Conns
      PROVE  Elements(ack_queue[d]) \cup Listed(ack_list[d])
               = Elements(ack_queue'[d]) \cup Listed(ack_list'[d])
  <2>1. CASE d = c
    <3>1. ack_queue'[d] = rest /\ ack_list'[d] = list
      BY <1>5, <2>1 DEF AckTypes
    <3>2. QED
      BY <1>1, <1>7, <2>1, <3>1
  <2>2. CASE d # c
    <3>1. ack_queue'[d] = ack_queue[d] /\ ack_list'[d] = ack_list[d]
      BY <1>5, <2>2 DEF AckTypes
    <3>2. QED
      BY <3>1
  <2>3. QED
    BY <2>1, <2>2
<1>9. QED
  BY <1>6, <1>8

\* Only receive_with queues ids, and only send_ack collects them.
LEMMA NextAcks ==
    ASSUME [Next]_vars
    PROVE  \/ UNCHANGED ackVars
           \/ \E c \in Conns, seq \in DataIds : AppReceiveData(c, seq)
           \/ \E c \in Conns : AckCollect(c)
<1>1. CASE \/ AppLock \/ AppWrite \/ AppReceiveAck \/ AppInsert \/ AppSend
           \/ StartLock \/ StartClone
  BY <1>1 DEF AppLock, AppWrite, AppReceiveAck, AppInsert, AppSend, StartLock, StartClone
<1>2. CASE FlushStart \/ FlushLocked \/ FlushWake \/ FlushInsert \/ CheckWake
  BY <1>2 DEF FlushStart, FlushLocked, FlushWake, FlushInsert, CheckWake
<1>3. ASSUME NEW c \in Conns,
             \/ TxStart(c) \/ TxTimeout(c) \/ TxTake(c) \/ TxData(c) \/ AckWake(c)
             \/ AckLocked(c) \/ AckDone(c) \/ AckPanic(c) \/ TimeoutStart(c)
      PROVE  UNCHANGED ackVars
  BY <1>3 DEF TxStart, TxTimeout, TxTake, TxData, AckWake, AckLocked, AckDone, AckPanic,
              TimeoutStart
<1>4. CASE UNCHANGED vars
  BY <1>4 DEF vars
<1>5. QED
  BY <1>1, <1>2, <1>3, <1>4 DEF Next

\* Every step preserves the types.
LEMMA NextAckTypes == AckTypes /\ [Next]_vars => AckTypes'
<1> SUFFICES ASSUME AckTypes, [Next]_vars PROVE AckTypes'
  OBVIOUS
<1>1. CASE UNCHANGED ackVars
  BY <1>1 DEF ackVars, AckTypes
<1>2. ASSUME NEW c \in Conns, NEW seq \in DataIds, AppReceiveData(c, seq)
      PROVE  AckTypes'
  <2>1. Pushed(ack_queue[c], seq) \in Seq(SeqIds)
    BY PushedIsQueue, NcpTasksAssumption DEF AckTypes
  <2>2. /\ ack_queue' = [ack_queue EXCEPT ![c] = Pushed(@, seq)]
        /\ ack_list' = ack_list
    BY <1>2 DEF AppReceiveData
  <2>3. QED
    BY <2>1, <2>2 DEF AckTypes
<1>3. ASSUME NEW c \in Conns, AckCollect(c) PROVE AckTypes'
  BY <1>3, CollectMoves
<1>4. QED
  BY <1>1, <1>2, <1>3, NextAcks

\* For every number of connections and every queue, also one in which ids are
\* repeated or wrap, a turn of send_ack loses no id and adds none: those it
\* pops are the ones the run stands for.
THEOREM AcksAreListed == Spec => AcksMoveToTheList
<1> DEFINE Move ==
      \A c \in Conns :
          ack_list[c] # ack_list'[c] =>
              {ack_queue[c][i] : i \in DOMAIN ack_queue[c]} \cup Listed(ack_list[c])
            = {ack_queue'[c][i] : i \in DOMAIN ack_queue'[c]} \cup Listed(ack_list'[c])
<1>1. Init => AckTypes
  BY DEF Init, AckTypes
<1>2. AckTypes /\ [Next]_vars => [Move]_vars
  <2> SUFFICES ASSUME AckTypes, [Next]_vars PROVE Move
    OBVIOUS
  <2>1. CASE UNCHANGED ackVars
    BY <2>1 DEF ackVars
  <2>2. ASSUME NEW c \in Conns, NEW seq \in DataIds, AppReceiveData(c, seq)
        PROVE  Move
    BY <2>2 DEF AppReceiveData
  <2>3. ASSUME NEW c \in Conns, AckCollect(c) PROVE Move
    BY <2>3, CollectMoves DEF Elements
  <2>4. QED
    BY <2>1, <2>2, <2>3, NextAcks
<1>3. QED
  BY <1>1, <1>2, NextAckTypes, PTL DEF Spec, AcksMoveToTheList

-----------------------------------------------------------------------------
(* Types *)

Labels == {"new", "lock", "sleep", "data", "send", "stuck", "select",
           "window", "returned", "collect", "dropped"}

Waits(queue, t) == \E i \in DOMAIN queue : queue[i] = t

\* What the other invariants do not say: the labels, the lock of the window
\* and who blocks the thread.  A write that blocks on send_chan has the lock,
\* which it gives back.
LockInv ==
    /\ pc \in [Tasks -> Labels]
    /\ data_lock \in Seq(Tasks)
    /\ thread \in Tasks \cup {Nobody}
    /\ window_data \subseteq SeqIds
    /\ pc[App] = "send" => Waits(data_lock, App)

\* Giving the lock back leaves the others where they are.
LEMMA GiveBack ==
    ASSUME NEW q \in Seq(Tasks), NEW t, Waits(q, t)
    PROVE  /\ Without(q, t) \in Seq(Tasks)
           /\ \A u : u # t /\ Waits(q, u) => Waits(Without(q, t), u)
<1>1. PICK n \in 1 .. Len(q) : q[n] = t /\ Without(q, t) = RemoveAt(q, n)
  <2>1. \E i \in DOMAIN q : q[i] = t
    BY DEF Waits
  <2>2. DOMAIN q = 1 .. Len(q)
    OBVIOUS
  <2>3. QED
    BY <2>1, <2>2 DEF Without
<1> Len(q) \in Nat
  OBVIOUS
<1>2. PICK a \in Seq(Tasks) : a = SubSeq(q, 1, n - 1) /\ Len(a) = n - 1
                              /\ \A i \in 1 .. n - 1 : a[i] = q[i]
  <2>1. /\ SubSeq(q, 1, n - 1) \in Seq(Tasks) /\ Len(SubSeq(q, 1, n - 1)) = n - 1
        /\ \A i \in 1 .. n - 1 : SubSeq(q, 1, n - 1)[i] = q[i]
    OBVIOUS
  <2>2. QED
    BY <2>1
<1>3. PICK b \in Seq(Tasks) : b = SubSeq(q, n + 1, Len(q)) /\ Len(b) = Len(q) - n
                              /\ \A i \in 1 .. Len(q) - n : b[i] = q[n + i]
  <2>1. /\ SubSeq(q, n + 1, Len(q)) \in Seq(Tasks)
        /\ Len(SubSeq(q, n + 1, Len(q))) = Len(q) - n
        /\ \A i \in 1 .. Len(q) - n : SubSeq(q, n + 1, Len(q))[i] = q[n + i]
    OBVIOUS
  <2>2. QED
    BY <2>1
<1>4. PICK r : r = Without(q, t)
  OBVIOUS
<1>5. r = a \o b
  BY <1>1, <1>2, <1>3, <1>4 DEF RemoveAt
<1>6. /\ r \in Seq(Tasks) /\ Len(r) = Len(a) + Len(b)
      /\ \A i \in 1 .. Len(a) : r[i] = a[i]
      /\ \A i \in 1 .. Len(b) : r[Len(a) + i] = b[i]
      /\ DOMAIN r = 1 .. Len(r)
  BY <1>5
<1>7. ASSUME NEW u, u # t, Waits(q, u) PROVE Waits(r, u)
  <2>1. PICK i \in 1 .. Len(q) : q[i] = u
    BY <1>7 DEF Waits
  <2>2. CASE i < n
    <3>1. i \in 1 .. Len(a) /\ a[i] = u
      BY <1>2, <2>1, <2>2
    <3>2. r[i] = u /\ i \in 1 .. Len(r)
      BY <1>6, <3>1
    <3>3. QED
      BY <1>6, <3>2 DEF Waits
  <2>3. CASE i > n
    <3>1. i - n \in 1 .. Len(b) /\ b[i - n] = u
      BY <1>3, <2>1, <2>3
    <3>2. PICK k \in 1 .. Len(b) : b[k] = u
      BY <3>1
    <3>3. r[Len(a) + k] = u
      BY <1>6, <3>2
    <3>4. Len(a) + k \in 1 .. Len(r)
      BY <1>6, <3>2
    <3>5. QED
      BY <1>6, <3>3, <3>4 DEF Waits
  <2>4. QED
    BY <1>1, <1>7, <2>1, <2>2, <2>3
<1>8. QED
  BY <1>4, <1>6, <1>7

\* Joining the queue of the lock.
LEMMA JoinData ==
    ASSUME NEW q \in Seq(Tasks), NEW t \in Tasks
    PROVE  /\ Append(q, t) \in Seq(Tasks)
           /\ \A u : Waits(q, u) \/ u = t => Waits(Append(q, t), u)
<1>1. PICK r : r = Append(q, t)
  OBVIOUS
<1>2. /\ r \in Seq(Tasks) /\ DOMAIN r = 1 .. Len(q) + 1 /\ DOMAIN q = 1 .. Len(q)
      /\ Len(q) \in Nat /\ r[Len(q) + 1] = t /\ \A i \in 1 .. Len(q) : r[i] = q[i]
  BY <1>1
<1>3. QED
  BY <1>1, <1>2 DEF Waits

\* Who has the lock waits in its queue.
LEMMA HasWaits == \A t : HasData(t) => Waits(data_lock, t)
BY DEF HasData, Waits

\* A panic keeps the application in the queues.
LEMMA OnlyAppIsQueue ==
    ASSUME NEW q
    PROVE  OnlyApp(q) \in Seq(Tasks) /\ (Waits(q, App) => Waits(OnlyApp(q), App))
<1>1. <<App>> \in Seq(Tasks) /\ <<>> \in Seq(Tasks) /\ Waits(<<App>>, App)
  BY Names DEF Waits
<1>2. QED
  BY <1>1 DEF OnlyApp, Waits

\* A step that keeps the lock, or joins its queue.
LEMMA LockStays ==
    ASSUME LockInv, NEW t \in Tasks, NEW label \in Labels, Goto(t, label),
           \/ data_lock' = data_lock
           \/ \E u \in Tasks : data_lock' = Append(data_lock, u),
           thread' \in Tasks \cup {Nobody}, window_data' \subseteq SeqIds,
           t = App => label # "send"
    PROVE  LockInv'
<1>1. pc' \in [Tasks -> Labels] /\ (pc'[App] = "send" => pc[App] = "send")
  BY Names DEF LockInv, Goto
<1>2. data_lock' \in Seq(Tasks) /\ (Waits(data_lock, App) => Waits(data_lock', App))
  BY JoinData DEF LockInv
<1>3. QED
  BY <1>1, <1>2 DEF LockInv

\* Every step preserves it.
LEMMA NextLockInv ==
    ASSUME DataInv, LockInv, [Next]_vars
    PROVE  LockInv'
<1> USE Names DEF Labels
<1>0. /\ data_lock \in Seq(Tasks) /\ thread \in Tasks \cup {Nobody}
      /\ window_data \subseteq SeqIds
  BY DEF LockInv
<1>1. CASE AppLock \/ AppWrite \/ AppReceiveAck
           \/ (\E c \in Conns, seq \in DataIds : AppReceiveData(c, seq))
  <2>1. \E label \in {"new", "lock", "data", "stuck"} : Goto(App, label)
    BY <1>1 DEF AppLock, AppWrite, AppReceiveAck, AppReceiveData
  <2>2. data_lock' = data_lock \/ data_lock' = Append(data_lock, App)
    BY <1>1 DEF AppLock, AppWrite, AppReceiveAck, AppReceiveData
  <2>3. thread' = thread /\ window_data' = window_data
    BY <1>1 DEF AppLock, AppWrite, AppReceiveAck, AppReceiveData, sendVars
  <2>4. QED
    BY <1>0, <2>1, <2>2, <2>3, LockStays
<1>2. ASSUME InsertData PROVE window_data' \subseteq SeqIds
  BY <1>0, <1>2 DEF InsertData, DataInv
<1>3. CASE AppInsert
  <2>1. Waits(data_lock, App) /\ InsertData /\ thread' = thread
    BY <1>3, HasWaits DEF AppInsert
  <2>2. CASE send_chan = <<>>
    <3>1. Goto(App, "new") /\ data_lock' = Without(data_lock, App)
      BY <1>3, <2>2 DEF AppInsert
    <3>2. data_lock' \in Seq(Tasks)
      BY <1>0, <2>1, <3>1, GiveBack
    <3>3. pc' \in [Tasks -> Labels] /\ pc'[App] = "new"
      BY <3>1 DEF LockInv, Goto
    <3>4. QED
      BY <1>0, <1>2, <2>1, <3>2, <3>3 DEF LockInv
  <2>3. CASE send_chan # <<>>
    <3>1. Goto(App, "send") /\ data_lock' = data_lock
      BY <1>3, <2>3 DEF AppInsert
    <3>2. pc' \in [Tasks -> Labels]
      BY <3>1 DEF LockInv, Goto
    <3>3. QED
      BY <1>0, <1>2, <2>1, <3>1, <3>2 DEF LockInv
  <2>4. QED
    BY <2>2, <2>3
<1>4. CASE AppSend
  <2>1. Waits(data_lock, App) /\ thread' = thread /\ window_data' = window_data
    BY <1>4 DEF AppSend, LockInv
  <2>2. Goto(App, "new") /\ data_lock' = Without(data_lock, App)
    BY <1>4 DEF AppSend
  <2>3. data_lock' \in Seq(Tasks)
    BY <1>0, <2>1, <2>2, GiveBack
  <2>4. pc' \in [Tasks -> Labels] /\ pc'[App] = "new"
    BY <2>2 DEF LockInv, Goto
  <2>5. QED
    BY <1>0, <2>1, <2>3, <2>4 DEF LockInv
<1>5. CASE StartLock \/ StartClone
  <2>1. \E label \in {"lock", "returned"} : Goto(Start, label)
    BY <1>5 DEF StartLock, StartClone
  <2>2. data_lock' = data_lock /\ thread' = thread /\ window_data' = window_data
    BY <1>5 DEF StartLock, StartClone, sendVars
  <2>3. QED
    BY <1>0, <2>1, <2>2, LockStays
<1>6. CASE FlushStart \/ FlushLocked \/ FlushWake
  <2>1. \E label \in {"lock", "sleep", "data"} : Goto(Flush, label)
    BY <1>6 DEF FlushStart, FlushLocked, FlushWake
  <2>2. data_lock' = data_lock \/ data_lock' = Append(data_lock, Flush)
    BY <1>6 DEF FlushStart, FlushLocked, FlushWake, lockVars
  <2>3. thread' = thread /\ window_data' = window_data
    BY <1>6 DEF FlushStart, FlushLocked, FlushWake, lockVars, sendVars
  <2>4. QED
    BY <1>0, <2>1, <2>2, <2>3, LockStays
<1>7. CASE FlushInsert
  <2>1. Waits(data_lock, Flush) /\ InsertData
    BY <1>7, HasWaits DEF FlushInsert
  <2>2. CASE send_chan = <<>>
    <3>1. Goto(Flush, "sleep") /\ data_lock' = Without(data_lock, Flush) /\ thread' = thread
      BY <1>7, <2>2 DEF FlushInsert
    <3>2. data_lock' \in Seq(Tasks) /\ (Waits(data_lock, App) => Waits(data_lock', App))
      BY <1>0, <2>1, <3>1, GiveBack
    <3>3. pc' \in [Tasks -> Labels] /\ pc'[App] = pc[App]
      BY <3>1 DEF LockInv, Goto
    <3>4. QED
      BY <1>0, <1>2, <2>1, <3>1, <3>2, <3>3 DEF LockInv
  <2>3. CASE send_chan # <<>>
    <3>1. Goto(Flush, "send") /\ data_lock' = data_lock /\ thread' = Flush
      BY <1>7, <2>3 DEF FlushInsert
    <3>2. QED
      BY <1>2, <2>1, <3>1, LockStays
  <2>4. QED
    BY <2>2, <2>3
<1>8. CASE CheckWake
  <2>1. /\ Goto(Check, "lock") /\ data_lock' = data_lock /\ thread' = thread
        /\ window_data' = window_data
    BY <1>8 DEF CheckWake, sendVars
  <2>2. QED
    BY <1>0, <2>1, LockStays
<1>9. ASSUME NEW c \in Conns,
             TxStart(c) \/ TxTimeout(c) \/ TxTake(c) \/ TxData(c)
      PROVE  LockInv'
  <2>0. Tx(c) \in Tasks /\ Tx(c) # App
    BY ConnNames DEF Privileged
  <2>1. \E label \in {"window", "select", "returned", "data", "lock"} : Goto(Tx(c), label)
    BY <1>9 DEF TxStart, TxTimeout, TxTake, TxData
  <2>2. data_lock' = data_lock \/ data_lock' = Append(data_lock, Tx(c))
    BY <1>9 DEF TxStart, TxTimeout, TxTake, TxData
  <2>3. thread' \in {thread, Nobody, Tx(c)} /\ window_data' = window_data
    BY <1>9 DEF TxStart, TxTimeout, TxTake, TxData, sendVars
  <2>4. QED
    BY <1>0, <2>0, <2>1, <2>2, <2>3, LockStays
<1>10. ASSUME NEW c \in Conns,
              AckWake(c) \/ AckLocked(c) \/ AckDone(c) \/ TimeoutStart(c)
       PROVE  LockInv'
  <2>0. Ack(c) \in Tasks /\ Timeout(c) \in Tasks /\ Ack(c) # App /\ Timeout(c) # App
    BY ConnNames DEF Privileged
  <2>1. \E t \in {Ack(c), Timeout(c)}, label \in {"lock", "sleep", "collect", "send"} :
           Goto(t, label)
    BY <1>10 DEF AckWake, AckLocked, AckDone, TimeoutStart
  <2>2. data_lock' = data_lock /\ thread' = thread /\ window_data' = window_data
    BY <1>10 DEF AckWake, AckLocked, AckDone, TimeoutStart, sendVars
  <2>3. QED
    BY <1>0, <2>0, <2>1, <2>2, LockStays
<1>11. ASSUME NEW c \in Conns, AckPanic(c) PROVE LockInv'
  <2>1. /\ pc' = [t \in Tasks |-> IF t = App THEN pc[App] ELSE "dropped"]
        /\ data_lock' = OnlyApp(data_lock) /\ thread' = thread
        /\ window_data' = window_data
    BY <1>11 DEF AckPanic, sendVars
  <2>2. data_lock' \in Seq(Tasks) /\ (Waits(data_lock, App) => Waits(data_lock', App))
    BY <2>1, OnlyAppIsQueue
  <2>3. pc' \in [Tasks -> Labels] /\ pc'[App] = pc[App]
    BY <2>1 DEF LockInv
  <2>4. QED
    BY <1>0, <2>1, <2>2, <2>3 DEF LockInv
<1>12. CASE UNCHANGED vars \/ \E c \in Conns : AckCollect(c)
  <2>1. UNCHANGED <<pc, data_lock, thread, window_data>>
    BY <1>12 DEF vars, AckCollect, lockVars, sendVars
  <2>2. QED
    BY <2>1 DEF LockInv, Waits
<1>13. QED
  BY <1>1, <1>3, <1>4, <1>5, <1>6, <1>7, <1>8, <1>9, <1>10, <1>11, <1>12 DEF Next

\* For every number of connections, the queues hold futures, the channel holds
\* one id at most, and every id that is kept anywhere is one of the ring: the
\* lock of send_window_data is given back by who has it.
THEOREM TypesAreCorrect == Spec => []TypeOK
<1> DEFINE All == IInv /\ DataInv /\ ConnInv /\ AckTypes /\ LockInv
<1>1. Init => All
  <2> SUFFICES ASSUME Init PROVE All
    OBVIOUS
  <2>1. IInv
    BY InitIInv
  <2>2. DataInv
    BY InitDataInv
  <2>3. ConnInv
    BY InitConnInv
  <2>4. AckTypes
    BY DEF Init, AckTypes
  <2>5. LockInv
    BY Names DEF Init, LockInv, Labels
  <2>6. QED
    BY <2>1, <2>2, <2>3, <2>4, <2>5
<1>2. All /\ [Next]_vars => All'
  BY NextIInv, NextDataInv, NextConnInv, NextAckTypes, NextLockInv
<1>3. All => TypeOK
  <2> SUFFICES ASSUME All PROVE TypeOK
    OBVIOUS
  <2>1. send_chan \in Seq(SeqIds) /\ Len(send_chan) <= 1
    <3>1. CASE send_chan = <<>>
      BY <3>1
    <3>2. ASSUME NEW s \in SeqIds, send_chan = <<s>>
          PROVE  send_chan \in Seq(SeqIds) /\ Len(send_chan) <= 1
      BY <3>2
    <3>3. QED
      BY <3>1, <3>2 DEF DataInv, ChanHasData, LockInv
  <2>2. taken \in [Conns -> SeqIds \cup {0}]
    BY DEF DataInv, TxFindsData, LockInv
  <2>3. pc \in [Tasks -> Labels] /\ session \in Seq(Tasks)
    BY DEF IInv, Types, LockInv
  <2>4. conn \in [Conns -> Seq(Tasks)] /\ window \in [Conns -> Nat]
        /\ clone_window \in [Conns -> Nat]
    BY DEF ConnInv, ConnTypes
  <2>5. /\ data_lock \in Seq(Tasks) /\ thread \in Tasks \cup {Nobody}
        /\ window_data \subseteq SeqIds /\ end_seq \in SeqIds
    BY DEF DataInv, LockInv
  <2>6. QED
    BY <2>1, <2>2, <2>3, <2>4, <2>5 DEF TypeOK, AckTypes, Labels
<1>4. QED
  BY <1>1, <1>2, <1>3, PTL DEF Spec
=============================================================================
