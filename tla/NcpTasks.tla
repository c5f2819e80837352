------------------------------ MODULE NcpTasks ------------------------------
(***************************************************************************)
(* The futures of start_session (src/src/session.rs) and of the            *)
(* connections it starts (src/src/connection.rs), next to an application   *)
(* that calls the session through its mutex.                               *)
(*                                                                         *)
(* join_all and join! poll all the futures in one task, in order: one      *)
(* that blocks in a channel call stops them all ("thread").  The locks of  *)
(* tokio are fair: each is a queue, and the first in it holds the lock.    *)
(* The lock of send_window_data admits several readers, the tx futures.    *)
(* The intervals of the timers are the application's choice (NcpConfig):   *)
(* a sleep may end at any time.                                            *)
(*                                                                         *)
(* The code behind a lock that is never granted is not modelled: the       *)
(* invariant OnlyFlushGetsTheSession says that it is not reached.  Hence   *)
(* time_sent_seq, which tx fills after it has sent, stays empty, and       *)
(* resend_chan, which check_timeout fills, too.                            *)
(***************************************************************************)
EXTENDS NcpSeq, Sequences, SequencesExt

CONSTANTS
    NumConns,     \* connections of the established session
    Windows,      \* window sizes of a new connection, as u32
    MaxAckList,   \* config.max_ask_seq_list_size
    DataIds,      \* sequence ids of the data the peer sends
    MaxAcks       \* bound: ids queued or listed for acknowledgement

ASSUME NcpTasksAssumption ==
    /\ NumConns \in Nat /\ MaxAckList \in Nat /\ MaxAcks \in Nat
    /\ Windows \subseteq Nat /\ DataIds \subseteq SeqIds

Conns == 1 .. NumConns

\* The futures, with the connection they belong to, and the application.
App == <<"app", 0>>
Start == <<"start", 0>>
Flush == <<"flush", 0>>
Check == <<"check", 0>>
Tx(c) == <<"tx", c>>
Ack(c) == <<"ack", c>>
Timeout(c) == <<"timeout", c>>
Nobody == <<"nobody", 0>>
Tasks == {App, Start, Flush, Check} \cup ({"tx", "ack", "timeout"} \X Conns)

VARIABLES
    pc,
    session,        \* queue of the session's mutex
    conn,           \* queue of the mutex of each connection
    data_lock,      \* queue of the lock of send_window_data
    thread,         \* the future that blocks the thread of start_session
    send_chan,      \* bounded(1)
    window_data,    \* send_window_data: sequence ids that have data
    end_seq,        \* send_window_end_seq
    taken,          \* the seq of each tx, or 0
    window,         \* window_size of the connections of the session
    clone_window,   \* and of the clones start_session makes of them
    ack_queue,      \* send_ack_queue, a heap: the greatest id first
    ack_list        \* of each send_ack: the runs it has collected

lockVars == <<session, conn, data_lock, thread>>
sendVars == <<send_chan, window_data, end_seq, taken>>
windowVars == <<window, clone_window>>
ackVars == <<ack_queue, ack_list>>
vars == <<pc, lockVars, sendVars, windowVars, ackVars>>

Run == [start : SeqIds, count : Nat]

TypeOK ==
    /\ pc \in [Tasks -> {"new", "lock", "sleep", "data", "send", "stuck", "select",
                         "window", "returned", "collect", "dropped"}]
    /\ session \in Seq(Tasks)
    /\ conn \in [Conns -> Seq(Tasks)]
    /\ data_lock \in Seq(Tasks)
    /\ thread \in Tasks \cup {Nobody}
    /\ send_chan \in Seq(SeqIds) /\ Len(send_chan) <= 1
    /\ window_data \subseteq SeqIds /\ end_seq \in SeqIds
    /\ taken \in [Conns -> SeqIds \cup {0}]
    /\ window \in [Conns -> Nat] /\ clone_window \in [Conns -> Nat]
    /\ ack_queue \in [Conns -> Seq(SeqIds)]
    /\ ack_list \in [Conns -> Seq(Run)]

Init ==
    /\ pc = [t \in Tasks |-> "new"]
    /\ session = <<>> /\ data_lock = <<>> /\ thread = Nobody
    /\ conn = [c \in Conns |-> <<>>]
    /\ send_chan = <<>> /\ window_data = {} /\ end_seq = MinSeq
    /\ taken = [c \in Conns |-> 0]
    /\ window \in {[c \in Conns |-> w] : w \in Windows}
    /\ clone_window = window
    /\ ack_queue = [c \in Conns |-> <<>>] /\ ack_list = [c \in Conns |-> <<>>]

Goto(t, label) == pc' = [pc EXCEPT ![t] = label]

\* Who has the session, and who has send_window_data: a reader shares it with
\* the readers before it.
HasSession(t) == session # <<>> /\ Head(session) = t
Readers == {Tx(c) : c \in Conns}
HasData(t) ==
    \E i \in DOMAIN data_lock :
        /\ data_lock[i] = t
        /\ i = 1 \/ \A j \in 1 .. i : data_lock[j] \in Readers
Without(queue, t) == RemoveAt(queue, CHOOSE i \in DOMAIN queue : queue[i] = t)
OnlyApp(queue) == IF \E i \in DOMAIN queue : queue[i] = App THEN <<App>> ELSE <<>>

-----------------------------------------------------------------------------
(* The application *)

\* session.lock().await, before any call.
AppLock ==
    /\ pc[App] = "new"
    /\ session' = Append(session, App)
    /\ Goto(App, "lock")
    /\ UNCHANGED <<conn, data_lock, thread, sendVars, windowVars, ackVars>>

\* write with room in the window, up to the lock of the window in
\* flush_send_buffer; without room it keeps waiting, and keeps the session.
AppWrite ==
    /\ pc[App] = "lock" /\ HasSession(App)
    /\ \/ /\ data_lock' = Append(data_lock, App)
          /\ Goto(App, "data")
       \/ /\ UNCHANGED data_lock
          /\ Goto(App, "stuck")
    /\ UNCHANGED <<session, conn, thread, sendVars, windowVars, ackVars>>

\* The order of the heap, and send_ack of the connection: the id goes before
\* the first one it is greater than.
Before(a, b) == CompareSeq(a, b) = 1
Pushed(queue, seq) ==
    LET i == CHOOSE i \in 1 .. Len(queue) + 1 :
                 /\ \A j \in 1 .. i - 1 : ~ Before(seq, queue[j])
                 /\ i <= Len(queue) => Before(seq, queue[i])
    IN  SubSeq(queue, 1, i - 1) \o <<seq>> \o SubSeq(queue, i, Len(queue))

\* receive_with of a packet with data: its id is queued on the connection
\* the packet came from.
AppReceiveData(c, seq) ==
    /\ pc[App] = "lock" /\ HasSession(App)
    /\ MapThenSumSet(LAMBDA d : Len(ack_queue[d]) + Len(ack_list[d]), Conns) < MaxAcks
    /\ ack_queue' = [ack_queue EXCEPT ![c] = Pushed(@, seq)]
    /\ session' = Tail(session)
    /\ Goto(App, "new")
    /\ UNCHANGED <<conn, data_lock, thread, sendVars, windowVars, ack_list>>

SetWindowSize(n) == IF n < 1 THEN 1 ELSE n

\* receive_with of a packet with acks ends with update_conn_window_size: every
\* connection of the session gets its share, and no less than 1.
AppReceiveAck ==
    /\ pc[App] = "lock" /\ HasSession(App)
    /\ window' = [c \in Conns |-> SetWindowSize(window[c])]
    /\ session' = Tail(session)
    /\ Goto(App, "new")
    /\ UNCHANGED <<conn, data_lock, thread, sendVars, clone_window, ackVars>>

\* flush_send_buffer, once it has the lock of the window.
InsertData ==
    /\ window_data' = window_data \cup {end_seq}
    /\ end_seq' = NextSeq(end_seq, 1)
    /\ send_chan' = IF send_chan = <<>> THEN <<end_seq>> ELSE send_chan

\* The rest of write: the id goes to send_chan, which blocks if it is full.
AppInsert ==
    /\ pc[App] = "data" /\ HasData(App)
    /\ InsertData
    /\ IF send_chan = <<>>
       THEN /\ Goto(App, "new")
            /\ session' = Tail(session)
            /\ data_lock' = Without(data_lock, App)
       ELSE /\ Goto(App, "send")
            /\ UNCHANGED <<session, data_lock>>
    /\ UNCHANGED <<conn, thread, taken, windowVars, ackVars>>

\* Variant: the blocked call puts the id after the one it has inserted.
AppSendNext ==
    /\ pc[App] = "send"
    /\ send_chan = <<>>
    /\ send_chan' = <<end_seq>>
    /\ Goto(App, "new")
    /\ session' = Tail(session)
    /\ data_lock' = Without(data_lock, App)
    /\ UNCHANGED <<conn, thread, window_data, end_seq, taken, windowVars, ackVars>>

AppSend ==
    /\ pc[App] = "send"
    /\ send_chan = <<>>
    /\ send_chan' = <<NextSeq(end_seq, -1)>>
    /\ Goto(App, "new")
    /\ session' = Tail(session)
    /\ data_lock' = Without(data_lock, App)
    /\ UNCHANGED <<conn, thread, window_data, end_seq, taken, windowVars, ackVars>>

-----------------------------------------------------------------------------
(* start_session *)

\* The block that makes a future for a clone of every connection.
StartLock ==
    /\ pc[Start] = "new"
    /\ session' = Append(session, Start)
    /\ Goto(Start, "lock")
    /\ UNCHANGED <<conn, data_lock, thread, sendVars, windowVars, ackVars>>

StartClone ==
    /\ pc[Start] = "lock" /\ HasSession(Start)
    /\ clone_window' = window
    /\ session' = Tail(session)
    /\ Goto(Start, "returned")
    /\ UNCHANGED <<conn, data_lock, thread, sendVars, window, ackVars>>

\* The futures are polled: flush first, the others after it, and none while
\* one of them blocks the thread.
Polled(t) ==
    /\ pc[Start] = "returned"
    /\ thread = Nobody
    /\ t # Flush => pc[Flush] # "new"

FlushStart ==
    /\ Polled(Flush) /\ pc[Flush] = "new"
    /\ session' = Append(session, Flush)
    /\ Goto(Flush, "lock")
    /\ UNCHANGED <<conn, data_lock, thread, sendVars, windowVars, ackVars>>

\* Variant: the session is locked for each flush, as in the free function
\* start_flush, and free while the future sleeps.
FlushLockedBriefly ==
    /\ Polled(Flush) /\ pc[Flush] = "lock" /\ HasSession(Flush)
    /\ Goto(Flush, "sleep")
    /\ session' = Tail(session)
    /\ UNCHANGED <<conn, data_lock, thread, sendVars, windowVars, ackVars>>

\* start_flush, a method of the locked session, never returns.
FlushLocked ==
    /\ Polled(Flush) /\ pc[Flush] = "lock" /\ HasSession(Flush)
    /\ Goto(Flush, "sleep")
    /\ UNCHANGED <<lockVars, sendVars, windowVars, ackVars>>

\* The buffer is an array and never empty: every interval flushes it.
FlushWake ==
    /\ Polled(Flush) /\ pc[Flush] = "sleep"
    /\ data_lock' = Append(data_lock, Flush)
    /\ Goto(Flush, "data")
    /\ UNCHANGED <<session, conn, thread, sendVars, windowVars, ackVars>>

\* A full send_chan blocks the thread for good: only tx takes from it.
FlushInsert ==
    /\ Polled(Flush) /\ pc[Flush] = "data" /\ HasData(Flush)
    /\ InsertData
    /\ IF send_chan = <<>>
       THEN /\ Goto(Flush, "sleep")
            /\ data_lock' = Without(data_lock, Flush)
            /\ UNCHANGED thread
       ELSE /\ Goto(Flush, "send")
            /\ thread' = Flush
            /\ UNCHANGED data_lock
    /\ UNCHANGED <<session, conn, taken, windowVars, ackVars>>

\* start_check_bytes_read sleeps, then wants the session.
CheckWake ==
    /\ Polled(Check) /\ pc[Check] = "new"
    /\ session' = Append(session, Check)
    /\ Goto(Check, "lock")
    /\ UNCHANGED <<conn, data_lock, thread, sendVars, windowVars, ackVars>>

-----------------------------------------------------------------------------
(* The futures of a connection *)

\* Variant: tx lets go of the connection while it waits for an id.
TxStartUnlocks(c) ==
    /\ Polled(Tx(c)) /\ pc[Tx(c)] = "new"
    /\ conn' = IF 0 >= clone_window[c] THEN [conn EXCEPT ![c] = Append(@, Tx(c))] ELSE conn
    /\ thread' = Tx(c)
    /\ Goto(Tx(c), IF 0 >= clone_window[c] THEN "window" ELSE "select")
    /\ UNCHANGED <<session, data_lock, sendVars, windowVars, ackVars>>

\* tx locks the connection, which is new, and keeps it; no id waits to be sent
\* again.  wait_for_send_window blocks the thread for a second if the window
\* is 0, then the select on send_rx and resend_rx blocks it.
TxStart(c) ==
    /\ Polled(Tx(c)) /\ pc[Tx(c)] = "new"
    /\ conn' = [conn EXCEPT ![c] = Append(@, Tx(c))]
    /\ thread' = Tx(c)
    /\ Goto(Tx(c), IF 0 >= clone_window[c] THEN "window" ELSE "select")
    /\ UNCHANGED <<session, data_lock, sendVars, windowVars, ackVars>>

\* "send window timeout": tx returns and lets go of the connection.
TxTimeout(c) ==
    /\ pc[Tx(c)] = "window"
    /\ conn' = [conn EXCEPT ![c] = Tail(@)]
    /\ thread' = Nobody
    /\ Goto(Tx(c), "returned")
    /\ UNCHANGED <<session, data_lock, sendVars, windowVars, ackVars>>

TxTake(c) ==
    /\ pc[Tx(c)] = "select"
    /\ send_chan # <<>>
    /\ taken' = [taken EXCEPT ![c] = Head(send_chan)]
    /\ send_chan' = <<>>
    /\ thread' = Nobody
    /\ data_lock' = Append(data_lock, Tx(c))
    /\ Goto(Tx(c), "data")
    /\ UNCHANGED <<session, conn, window_data, end_seq, windowVars, ackVars>>

\* The data of the id is unwrapped; tx wants the session and keeps the lock
\* of the window meanwhile.
TxData(c) ==
    /\ Polled(Tx(c)) /\ pc[Tx(c)] = "data" /\ HasData(Tx(c))
    /\ taken[c] \in window_data
    /\ session' = Append(session, Tx(c))
    /\ Goto(Tx(c), "lock")
    /\ UNCHANGED <<conn, data_lock, thread, sendVars, windowVars, ackVars>>

\* join! polls send_ack and check_timeout after tx.
AckWake(c) ==
    /\ Polled(Ack(c)) /\ pc[Ack(c)] \in {"new", "sleep"}
    /\ pc[Tx(c)] # "new"
    /\ conn' = [conn EXCEPT ![c] = Append(@, Ack(c))]
    /\ Goto(Ack(c), "lock")
    /\ UNCHANGED <<session, data_lock, thread, sendVars, windowVars, ackVars>>

\* Nothing to acknowledge: sleep again.  The lock is let go and taken again
\* before the queue is emptied; nobody else is waiting for it.
AckLocked(c) ==
    /\ Polled(Ack(c)) /\ pc[Ack(c)] = "lock"
    /\ conn[c] # <<>> /\ Head(conn[c]) = Ack(c)
    /\ IF ack_queue[c] = <<>>
       THEN /\ conn' = [conn EXCEPT ![c] = Tail(@)]
            /\ Goto(Ack(c), "sleep")
       ELSE /\ Goto(Ack(c), "collect")
            /\ UNCHANGED conn
    /\ UNCHANGED <<session, data_lock, thread, sendVars, windowVars, ackVars>>

\* Variant: the ids that follow are looked for downwards, as the heap gives
\* them, and counted upwards.
RunLengthDown(q) ==
    CHOOSE n \in 1 .. Len(q) :
        /\ \A k \in 1 .. n - 1 : q[k + 1] = NextSeq(q[1], -k)
        /\ n < Len(q) => q[n + 1] # NextSeq(q[1], -n)

\* How many ids from the head of the queue on follow each other.
RunLength(q) ==
    CHOOSE n \in 1 .. Len(q) :
        /\ \A k \in 1 .. n - 1 : q[k + 1] = NextSeq(q[1], k)
        /\ n < Len(q) => q[n + 1] # NextSeq(q[1], n)

\* One turn of the loop over the queue.  A full list does not end it, only a
\* list that is full when the queue is empty.
AckCollect(c) ==
    LET q == ack_queue[c]
        n == RunLength(q)
    IN  /\ Polled(Ack(c)) /\ pc[Ack(c)] = "collect"
        /\ q # <<>>
        /\ ack_list' = [ack_list EXCEPT ![c] = Append(@, [start |-> q[1], count |-> n])]
        /\ ack_queue' = [ack_queue EXCEPT ![c] = SubSeq(q, n + 1, Len(q))]
        /\ UNCHANGED <<pc, lockVars, sendVars, windowVars>>

\* The packet with the list is to be sent: the session is wanted.
AckDone(c) ==
    /\ Polled(Ack(c)) /\ pc[Ack(c)] = "collect"
    /\ ack_queue[c] = <<>>
    /\ Len(ack_list[c]) >= MaxAckList
    /\ conn' = [conn EXCEPT ![c] = Tail(@)]
    /\ session' = Append(session, Ack(c))
    /\ Goto(Ack(c), "send")
    /\ UNCHANGED <<data_lock, thread, sendVars, windowVars, ackVars>>

\* send_ack_queue.pop().unwrap() of an empty queue panics: all the futures
\* are dropped, and with them their locks and their places in the queues.
AckPanic(c) ==
    /\ Polled(Ack(c)) /\ pc[Ack(c)] = "collect"
    /\ ack_queue[c] = <<>>
    /\ Len(ack_list[c]) < MaxAckList
    /\ pc' = [t \in Tasks |-> IF t = App THEN pc[App] ELSE "dropped"]
    /\ session' = OnlyApp(session) /\ data_lock' = OnlyApp(data_lock)
    /\ conn' = [d \in Conns |-> <<>>]
    /\ UNCHANGED <<thread, sendVars, windowVars, ackVars>>

\* check_timeout wants the session first of all.
TimeoutStart(c) ==
    /\ Polled(Timeout(c)) /\ pc[Timeout(c)] = "new"
    /\ pc[Tx(c)] # "new"
    /\ session' = Append(session, Timeout(c))
    /\ Goto(Timeout(c), "lock")
    /\ UNCHANGED <<conn, data_lock, thread, sendVars, windowVars, ackVars>>

-----------------------------------------------------------------------------
Next ==
    \/ AppLock \/ AppWrite \/ AppReceiveAck \/ AppInsert \/ AppSend
    \/ \E c \in Conns, seq \in DataIds : AppReceiveData(c, seq)
    \/ StartLock \/ StartClone
    \/ FlushStart \/ FlushLocked \/ FlushWake \/ FlushInsert \/ CheckWake
    \/ \E c \in Conns :
          \/ TxStart(c) \/ TxTimeout(c) \/ TxTake(c) \/ TxData(c)
          \/ AckWake(c) \/ AckLocked(c) \/ AckCollect(c) \/ AckDone(c) \/ AckPanic(c)
          \/ TimeoutStart(c)

Spec == Init /\ [][Next]_vars

-----------------------------------------------------------------------------
(* Properties *)

\* Of the futures of a started session only flush ever gets the session's
\* mutex, whatever the application did before and does meanwhile: nobody
\* passes the lock() in tx, send_ack, check_timeout and
\* start_check_bytes_read, and no packet, ack or report leaves.
OnlyFlushGetsTheSession ==
    session # <<>> => Head(session) \in {App, Start, Flush}

\* send_window_data.get(&seq).unwrap() in tx finds the data of every id that
\* went through send_chan, also of one that a blocked write or flush put there.
TxFindsData == \A c \in Conns : taken[c] # 0 => taken[c] \in window_data

\* The ids a list of runs stands for.
Listed(list) ==
    UNION {{NextSeq(list[i].start, k) : k \in 0 .. list[i].count - 1} : i \in DOMAIN list}

\* A turn of send_ack moves ids from the queue to the list, in which the peer
\* finds exactly them.
AcksMoveToTheList ==
    [][\A c \in Conns :
          ack_list[c] # ack_list'[c] =>
              {ack_queue[c][i] : i \in DOMAIN ack_queue[c]} \cup Listed(ack_list[c])
            = {ack_queue'[c][i] : i \in DOMAIN ack_queue'[c]} \cup Listed(ack_list'[c])]_vars

\* send_ack gets its connection only if the window of the connection was 0 when
\* it was started: otherwise tx keeps the connection for good and no ack is even
\* collected.  So does the panic of pop().unwrap() on an emptied queue, which
\* ends all the futures.
AcksNeedAClosedWindow ==
    /\ \A c \in Conns : pc[Ack(c)] \in {"collect", "send"} => clone_window[c] = 0
    /\ pc[Flush] = "dropped" => \E c \in Conns : clone_window[c] = 0
=============================================================================
